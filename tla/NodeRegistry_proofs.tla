-------------------------- MODULE NodeRegistry_proofs --------------------------
(***************************************************************************)
(* Theorems about NodeRegistry, for any files, manifests, nodes and        *)
(* callers, and any number of lives of the server.                         *)
(***************************************************************************)
EXTENDS NodeRegistry, FiniteSetTheorems, SequenceTheorems, TLAPS

USE RegistryAssumption DEF NoProcess

-----------------------------------------------------------------------------
(***************************************************************************)
(* Types                                                                   *)
(***************************************************************************)
LEMMA InitTypes == Init => TypeOK
<1>1. Init => DirTypeOK
  BY DEF Init, DirTypeOK
<1>2. Init => LoadTypeOK
  BY DEF Init, LoadTypeOK
<1>3. Init => ProcTypeOK
  BY DEF Init, ProcTypeOK, NoProcesses
<1>4. Init => CallTypeOK
  BY CallAssumption DEF Init, CallTypeOK, NoEntries, NoCall, Call
<1>5. QED
  BY <1>1, <1>2, <1>3, <1>4 DEF TypeOK

LEMMA EditTypes ==
  ASSUME TypeOK, NEW f \in Files, NEW x \in Manifest \cup {Broken, NoFile},
         NEW op \in {"create", "write", "remove", "rename"}, Edit(f, x, op)
  PROVE  TypeOK'
<1>1. DirTypeOK'
  <2>1. files' \in [Files -> Manifest \cup {Broken, NoFile}]
    BY DEF TypeOK, DirTypeOK, Edit
  <2>2. events' \in Seq([op : {"create", "write", "remove", "rename"}, file : Files])
    BY AppendProperties DEF TypeOK, DirTypeOK, Edit
  <2>3. edits' \in 0..MaxEdits /\ unseen' \subseteq Files
    BY DEF TypeOK, DirTypeOK, Edit
  <2>4. QED
    BY <2>1, <2>2, <2>3 DEF DirTypeOK
<1>2. LoadTypeOK' /\ ProcTypeOK' /\ CallTypeOK'
  BY DEF TypeOK, Edit, LoadTypeOK, ProcTypeOK, CallTypeOK, lifeVars, loadVars, procVars,
         osVars
<1>3. QED
  BY <1>1, <1>2 DEF TypeOK

LEMMA FileTypes ==
  ASSUME TypeOK, NEW f \in Files, WriteFile(f) \/ RemoveFile(f) \/ RenameFile(f)
  PROVE  TypeOK'
<1>1. CASE WriteFile(f)
  <2>1. PICK m \in Contents[f] :
          Edit(f, m, IF files[f] = NoFile THEN "create" ELSE "write")
    BY <1>1 DEF WriteFile
  <2>2. QED
    BY <2>1, EditTypes
<1>2. CASE RemoveFile(f)
  BY <1>2, EditTypes DEF RemoveFile
<1>3. CASE RenameFile(f)
  BY <1>3, EditTypes DEF RenameFile
<1>4. QED
  BY <1>1, <1>2, <1>3

LEMMA LoadTypes ==
  ASSUME TypeOK, LoadStep
  PROVE  TypeOK'
<1> USE DEF TypeOK, DirTypeOK, LoadTypeOK, ProcTypeOK, CallTypeOK, dirVars, lifeVars,
            procVars, osVars, GiveUp
<1>1. CASE ListFiles
  BY <1>1 DEF ListFiles
<1>2. ASSUME NEW f \in Files, LoadNext(f) PROVE TypeOK'
  BY <1>2 DEF LoadNext
<1>3. CASE Watch
  BY <1>3 DEF Watch
<1>4. CASE HandleEvent
  <2>1. /\ Head(events) \in [op : {"create", "write", "remove", "rename"}, file : Files]
        /\ events' \in Seq([op : {"create", "write", "remove", "rename"}, file : Files])
    BY <1>4, HeadTailProperties DEF HandleEvent
  <2>2. dynamic' \in [Ids -> Manifest \cup {NoEntry}]
    BY <1>4 DEF HandleEvent, Unload
  <2>3. QED
    BY <1>4, <2>1, <2>2 DEF HandleEvent
<1>5. CASE ReadManifest
  <2>1. CASE files[file] \in {NoFile, Broken}
    BY <1>5, <2>1 DEF ReadManifest
  <2>2. CASE files[file] \notin {NoFile, Broken}
    <3>1. file \in Files /\ files[file] \in Manifest
      BY <1>5, <2>2 DEF ReadManifest
    <3>2. QED
      BY <1>5, <2>2, <3>1 DEF ReadManifest
  <2>3. QED
    BY <2>1, <2>2
<1>6. CASE EnsureProcess
  BY <1>6 DEF EnsureProcess
<1>7. CASE Spawn
  BY <1>7 DEF Spawn
<1>8. CASE RegisterProcess
  <2>1. manifest.id \in Ids /\ started \in 1..MaxStarts
    BY <1>8 DEF RegisterProcess, Manifest
  <2>2. /\ processes' \in [Ids -> 0..MaxStarts]
        /\ reapers' \subseteq [number : 1..MaxStarts, id : Ids]
    BY <1>8, <2>1 DEF RegisterProcess
  <2>3. QED
    BY <1>8, <2>2 DEF RegisterProcess
<1>9. CASE Dial
  <2>1. manifest \in Manifest /\ file \in Files
    BY <1>9 DEF Dial
  <2>2. dynamic' \in [Ids -> Manifest \cup {NoEntry}]
    <3>1. dynamic \in [Ids -> Manifest \cup {NoEntry}]
      OBVIOUS
    <3>2. dynamic' = dynamic \/ dynamic' = [dynamic EXCEPT ![manifest.id] = manifest]
      BY <1>9 DEF Dial
    <3> HIDE DEF TypeOK
    <3>3. QED
      BY <2>1, <3>1, <3>2
  <2>3. failed' \subseteq Files /\ stage' = "none"
    BY <1>9, <2>1 DEF Dial
  <2>4. QED
    BY <1>9, <2>2, <2>3 DEF Dial
<1>10. QED
  BY <1>1, <1>2, <1>3, <1>4, <1>5, <1>6, <1>7, <1>8, <1>9 DEF LoadStep

LEMMA ProcessTypes ==
  ASSUME TypeOK, \/ \E p \in live : Listen(p) \/ Exit(p)
                 \/ \E w \in reapers : Reap(w)
  PROVE  TypeOK'
<1> USE DEF TypeOK, DirTypeOK, LoadTypeOK, ProcTypeOK, CallTypeOK, dirVars, lifeVars,
            loadVars, osVars, Ends
<1>1. ASSUME NEW p \in live, \/ serving' = [serving EXCEPT ![p.runs.id] = p.number]
                             \/ Ends(p)
      PROVE  serving' \in [Ids -> 0..MaxStarts]
  <2>1. serving \in [Ids -> 0..MaxStarts] /\ p.number \in 0..MaxStarts /\ 0 \in 0..MaxStarts
    OBVIOUS
  <2> HIDE DEF TypeOK
  <2>2. QED
    BY <1>1, <2>1
<1>2. ASSUME NEW p \in live, Listen(p) \/ Exit(p) PROVE TypeOK'
  <2>1. /\ \/ serving' = [serving EXCEPT ![p.runs.id] = p.number]
           \/ Ends(p)
        /\ live' = live \/ live' = live \ {p}
        /\ UNCHANGED <<dirVars, lifeVars, loadVars, dynamic, processes, reapers, started,
                       told, call>>
    BY <1>2 DEF Listen, Exit
  <2>2. serving' \in [Ids -> 0..MaxStarts]
    BY <1>1, <2>1
  <2>3. live' \subseteq [number : 1..MaxStarts, runs : Manifest, life : 1..MaxLives]
    BY <2>1
  <2> HIDE DEF Ends
  <2>4. QED
    BY <2>1, <2>2, <2>3
<1>3. ASSUME NEW w \in reapers, Reap(w) PROVE TypeOK'
  BY <1>3 DEF Reap
<1>4. QED
  BY <1>2, <1>3

LEMMA ServerTypes ==
  ASSUME TypeOK, Close \/ Leave \/ Restart
  PROVE  TypeOK'
<1> USE DEF TypeOK, DirTypeOK, LoadTypeOK, ProcTypeOK, CallTypeOK
<1>1. CASE Close
  <2>1. DirTypeOK' /\ LoadTypeOK' /\ CallTypeOK'
    BY <1>1 DEF Close, loadVars, osVars
  <2>2. told' \subseteq 1..MaxStarts
    <3>1. \A i \in Ids : processes[i] # NoProcess => processes[i] \in 1..MaxStarts
      OBVIOUS
    <3>2. told' = told \cup ({processes[i] : i \in Ids} \ {NoProcess})
      BY <1>1 DEF Close
    <3>3. told \subseteq 1..MaxStarts
      OBVIOUS
    <3>4. QED
      BY <3>1, <3>2, <3>3, Zenon
  <2>3. ProcTypeOK'
    BY <1>1, <2>2 DEF Close, NoProcesses
  <2>4. QED
    BY <2>1, <2>3
<1>2. CASE Leave
  <2>1. DirTypeOK' /\ LoadTypeOK' /\ ProcTypeOK'
    <3>1. /\ server' \in {"exited", "killed"}
          /\ UNCHANGED <<files, edits, life, live, started, serving, told>>
          /\ events' = <<>> /\ unseen' = {} /\ phase' = "start" /\ todo' = {}
          /\ stage' = "none" /\ failed' = {} /\ processes' = NoProcesses /\ reapers' = {}
      BY <1>2 DEF Leave, Vanish, osVars
    <3> HIDE DEF CallTypeOK
    <3>2. QED
      BY <3>1 DEF NoProcesses
  <2>2. CallTypeOK'
    <3>1. \A c \in Callers : [call[c] EXCEPT !.at = "ended", !.to = Elsewhere] \in Call
      <4>1. \A c \in Callers : call[c] \in Call
        OBVIOUS
      <4> HIDE DEF TypeOK
      <4>2. QED
        BY <4>1 DEF Call
    <3>2. call' = [c \in Callers |-> [call[c] EXCEPT !.at = "ended", !.to = Elsewhere]]
      BY <1>2 DEF Leave, Vanish
    <3>3. call' \in [Callers -> Call]
      BY <3>1, <3>2, Zenon
    <3>4. dynamic' = NoEntries
      BY <1>2 DEF Leave, Vanish
    <3>5. QED
      BY <3>3, <3>4 DEF NoEntries
  <2>3. QED
    BY <2>1, <2>2
<1>3. CASE Restart
  BY <1>3 DEF Restart, Alive, dirVars, loadVars, procVars, osVars
<1>4. QED
  BY <1>1, <1>2, <1>3

\* What a step of a call does to its caller's record.
Moves(x, y) ==
  \/ /\ x.at \in {"idle", "got"} /\ y.at \in {"idle", "got"}
     /\ y.run = x.run /\ y.step = x.step /\ y.sent = x.sent /\ y.done = x.done
  \/ /\ x.at = "got" /\ y.at = "sent"
     /\ \E to \in Ids \cup {Elsewhere} :
          y.sent = Append(x.sent, [run |-> x.run, step |-> x.step, to |-> to])
     /\ y.run = x.run /\ y.step = x.step /\ y.done = x.done
  \/ /\ \E k \in DOMAIN x.sent : y.done = x.done \cup {k}
     /\ y.at = x.at /\ y.run = x.run /\ y.step = x.step /\ y.sent = x.sent
  \/ /\ x.at = "sent" /\ Len(x.sent) \in x.done /\ y.at \in {"idle", "ended"}
     /\ y.step = x.step + 1
     /\ y.run = x.run /\ y.sent = x.sent /\ y.done = x.done
  \/ /\ y.at = "ended"
     /\ y.run = x.run /\ y.step = x.step /\ y.sent = x.sent /\ y.done = x.done
  \/ /\ y.at = "idle" /\ y.run = x.run + 1 /\ x.run < MaxRuns
     /\ y.step = x.step /\ y.sent = x.sent /\ y.done = x.done

LEMMA CallMoves ==
  ASSUME call \in [Callers -> Call], dynamic \in [Ids -> Manifest \cup {NoEntry}],
         NEW c \in Callers, CallStep(c)
  PROVE  /\ UNCHANGED <<dirVars, lifeVars, loadVars, dynamic, procVars>>
         /\ call' \in [Callers -> Call]
         /\ Moves(call[c], call'[c])
         /\ \A d \in Callers \ {c} : call'[d] = call[d]
<1> DEFINE x == call[c]
           y == call'[c]
<1>1. UNCHANGED <<dirVars, lifeVars, loadVars, dynamic, procVars>>
  BY DEF CallStep, Get, Ask, Perform, Receive, CallError, ResumeRun
<1>2. /\ x \in Call /\ x.sent \in Seq(Request) /\ DOMAIN x.sent \subseteq Nat
      /\ x.run \in 1..MaxRuns /\ x.step \in Nat /\ MaxRuns \in Nat
  BY CallAssumption DEF Call
<1>3. ASSUME NEW z \in Call, call' = [call EXCEPT ![c] = z], Moves(x, z)
      PROVE  /\ call' \in [Callers -> Call]
             /\ Moves(x, y)
             /\ \A d \in Callers \ {c} : call'[d] = call[d]
  BY <1>3
<1> SUFFICES \E z \in Call : call' = [call EXCEPT ![c] = z] /\ Moves(x, z)
  BY <1>1, <1>3
<1>4. CASE \E i \in Chosen[c] : Get(c, i)
  <2>1. PICK i \in Chosen[c] : Get(c, i)
    BY <1>4
  <2>2. Lookup(i) \in Manifest
    BY <2>1, CallAssumption DEF Get, Lookup
  <2>3. Address(Lookup(i)) \in Ids \cup {Elsewhere}
    BY <2>2 DEF Address, Manifest
  <2>4. call' = [call EXCEPT ![c] = [x EXCEPT !.at = "got", !.to = Address(Lookup(i))]]
    BY <2>1 DEF Get
  <2>5. [x EXCEPT !.at = "got", !.to = Address(Lookup(i))] \in Call
    BY <1>2, <2>3 DEF Call
  <2>6. Moves(x, [x EXCEPT !.at = "got", !.to = Address(Lookup(i))])
    BY <1>2, <2>1 DEF Moves, Call, Get
  <2>7. QED
    BY <2>4, <2>5, <2>6
<1>5. ASSUME NEW place \in {"idle", "ended"}, At(c, place),
             place = "idle" => x.at \in {"idle", "got"}
      PROVE  \E z \in Call : call' = [call EXCEPT ![c] = z] /\ Moves(x, z)
  <2> DEFINE z == [x EXCEPT !.at = place, !.to = Elsewhere]
  <2>1. call' = [call EXCEPT ![c] = z]
    BY <1>5 DEF At
  <2>2. z \in Call /\ Moves(x, z)
    BY <1>2, <1>5 DEF Call, Moves
  <2>3. QED
    BY <2>1, <2>2
<1>6. CASE Ask(c)
  <2> DEFINE r == [run |-> x.run, step |-> x.step, to |-> x.to]
             z == [x EXCEPT !.at = "sent", !.to = Elsewhere, !.sent = Append(@, r)]
  <2>1. CASE At(c, "idle")
    BY <1>5, <1>6, <2>1 DEF Ask
  <2>2. CASE call' = [call EXCEPT ![c] = z]
    <3>1. r \in Request
      BY <1>2 DEF Call, Request
    <3>2. Append(x.sent, r) \in Seq(Request)
      BY <1>2, <3>1, AppendProperties
    <3>3. z \in Call
      BY <1>2, <3>2 DEF Call
    <3>4. /\ x.at = "got" /\ z.at = "sent" /\ x.to \in Ids \cup {Elsewhere}
          /\ z.sent = Append(x.sent, r)
          /\ z.run = x.run /\ z.step = x.step /\ z.done = x.done
      BY <1>2, <1>6 DEF Ask, Call
    <3>5. Moves(x, z)
      BY <3>4 DEF Moves
    <3>6. QED
      BY <2>2, <3>3, <3>5
  <2>3. QED
    BY <1>6, <2>1, <2>2 DEF Ask
<1>7. CASE \E k \in DOMAIN x.sent : Perform(c, k)
  <2>1. PICK k \in DOMAIN x.sent : call' = [call EXCEPT ![c] = [x EXCEPT !.done = @ \cup {k}]]
    BY <1>7 DEF Perform
  <2>2. k \in Nat
    BY <1>2
  <2>3. [x EXCEPT !.done = @ \cup {k}] \in Call
    BY <1>2, <2>2 DEF Call
  <2>4. Moves(x, [x EXCEPT !.done = @ \cup {k}])
    BY <1>2 DEF Moves, Call
  <2>5. QED
    BY <2>1, <2>3, <2>4
<1>8. CASE Receive(c)
  <2>1. CASE At(c, "ended")
    BY <1>5, <2>1
  <2>2. ASSUME NEW place \in {"idle", "ended"},
               call' = [call EXCEPT ![c] = [x EXCEPT !.at = place, !.step = @ + 1]]
        PROVE  \E z \in Call : call' = [call EXCEPT ![c] = z] /\ Moves(x, z)
    <3>1. x.step + 1 \in Nat
      BY <1>2
    <3>2. [x EXCEPT !.at = place, !.step = @ + 1] \in Call
      BY <1>2, <3>1 DEF Call
    <3>3. Moves(x, [x EXCEPT !.at = place, !.step = @ + 1])
      BY <1>2, <1>8 DEF Moves, Call, Receive
    <3>4. QED
      BY <2>2, <3>2, <3>3
  <2>3. QED
    BY <1>8, <2>1, <2>2 DEF Receive
<1>9. CASE CallError(c)
  BY <1>5, <1>9 DEF CallError
<1>10. CASE ResumeRun(c)
  <2>1. x.run + 1 \in 1..MaxRuns
    BY <1>2, <1>10 DEF ResumeRun
  <2>2. [x EXCEPT !.at = "idle", !.run = @ + 1] \in Call
    BY <1>2, <2>1 DEF Call
  <2>3. Moves(x, [x EXCEPT !.at = "idle", !.run = @ + 1])
    BY <1>2, <1>10 DEF Moves, Call, ResumeRun
  <2>4. call' = [call EXCEPT ![c] = [x EXCEPT !.at = "idle", !.run = @ + 1]]
    BY <1>10 DEF ResumeRun
  <2>5. QED
    BY <2>2, <2>3, <2>4
<1>11. QED
  BY <1>4, <1>6, <1>7, <1>8, <1>9, <1>10 DEF CallStep

LEMMA CallTypes ==
  ASSUME TypeOK, NEW c \in Callers, CallStep(c)
  PROVE  TypeOK'
<1>1. /\ UNCHANGED <<dirVars, lifeVars, loadVars, dynamic, procVars>>
      /\ call' \in [Callers -> Call]
  BY CallMoves DEF TypeOK, CallTypeOK
<1>2. QED
  BY <1>1 DEF TypeOK, DirTypeOK, LoadTypeOK, ProcTypeOK, CallTypeOK, dirVars, lifeVars,
              loadVars, procVars, osVars

\* The variables of the registry, its files, processes and calls have their
\* types in every state, whatever is written, fails, exits or is called
\* (node.go:84-273, 329-369).
THEOREM TypeCorrect == Spec => []TypeOK
<1>1. Init => TypeOK
  BY InitTypes
<1>2. TypeOK /\ [Next]_vars => TypeOK'
  <2> SUFFICES ASSUME TypeOK, [Next]_vars PROVE TypeOK'
    OBVIOUS
  <2>1. CASE UNCHANGED vars
    BY <2>1 DEF TypeOK, DirTypeOK, LoadTypeOK, ProcTypeOK, CallTypeOK, vars, dirVars,
                lifeVars, loadVars, procVars, osVars
  <2>2. CASE Next
    BY <2>2, FileTypes, LoadTypes, ProcessTypes, ServerTypes, CallTypes DEF Next
  <2>3. QED
    BY <2>1, <2>2
<1>3. QED
  BY <1>1, <1>2, PTL DEF Spec

-----------------------------------------------------------------------------
(***************************************************************************)
(* Processes.  While the server is up, a process of its own that it did    *)
(* not tell to end is in its map, except between its start and its         *)
(* registration, when the map has none of that node; and what waits for a  *)
(* process to end removes that process and no other.  After Close only the *)
(* load that was under way may have left such a process.                   *)
(***************************************************************************)
Own == {p \in live : p.life = life /\ p.number \notin told}

Numbered ==
  /\ \A p \in live : p.number <= started /\ p.life <= life
  /\ \A p, q \in live : p.number = q.number => p = q

Registered ==
  server = "up" =>
    /\ \A p \in Own :
         \/ processes[p.runs.id] = p.number
         \/ stage = "register" /\ p.number = started /\ p.runs = manifest
    /\ \A w \in reapers : processes[w.id] = w.number
    /\ stage \in {"spawn", "register"} => processes[manifest.id] = NoProcess

Closing ==
  server = "closed" =>
    /\ phase = "watching" /\ events = <<>>
    /\ stage \in {"read", "ensure", "spawn"} => Own = {}

LeftBehind == server \in {"closed", "exited"} => \A p, q \in Own : p = q

Gone ==
  /\ ~Alive => phase = "start" /\ reapers = {}
  /\ phase = "start" => stage = "none"

ProcessInv ==
  Numbered /\ Registered /\ Closing /\ LeftBehind /\ Gone /\ OneProcessPerNode

LEMMA InitProcesses == Init => ProcessInv
BY DEF Init, ProcessInv, Numbered, Registered, Closing, LeftBehind, Gone,
       OneProcessPerNode, Own, Alive

\* What leaves the server, its load and the processes alone.
LEMMA QuietProcesses ==
  ASSUME ProcessInv, UNCHANGED <<lifeVars, loadVars, procVars>>,
         events' = events \/ server = "up"
  PROVE  ProcessInv'
BY DEF ProcessInv, Numbered, Registered, Closing, LeftBehind, Gone, OneProcessPerNode,
       Own, Alive, lifeVars, loadVars, procVars, osVars

\* Steps of a load that start no process.
LEMMA LoadProcesses ==
  ASSUME ProcessInv, UNCHANGED <<lifeVars, procVars>>, Alive, stage # "register",
         \/ ListFiles \/ (\E f \in Files : LoadNext(f)) \/ Watch \/ HandleEvent
         \/ ReadManifest \/ EnsureProcess \/ Dial
  PROVE  ProcessInv'
<1> USE DEF ProcessInv, Own, Alive, lifeVars, procVars, osVars
<1>1. /\ stage' # "register"
      /\ stage' = "spawn" => manifest' = manifest /\ processes[manifest.id] = NoProcess
  BY DEF ListFiles, LoadNext, Watch, HandleEvent, ReadManifest, EnsureProcess, Known, Dial,
         GiveUp, Numbered, Registered, Closing
<1>2. Numbered' /\ LeftBehind' /\ OneProcessPerNode'
  BY DEF Numbered, LeftBehind, OneProcessPerNode
<1>3. Gone'
  BY DEF Gone, ListFiles, LoadNext, Watch, HandleEvent, ReadManifest, EnsureProcess, Dial,
         GiveUp, dirVars
<1>4. Registered'
  BY <1>1 DEF Registered
<1>5. Closing'
  BY DEF Closing, ListFiles, LoadNext, Watch, HandleEvent, ReadManifest, EnsureProcess,
         Dial, GiveUp, dirVars
<1>6. QED
  BY <1>2, <1>3, <1>4, <1>5

LEMMA SpawnProcesses ==
  ASSUME TypeOK, ProcessInv, Spawn
  PROVE  ProcessInv'
<1> USE DEF ProcessInv, dirVars, lifeVars, GiveUp
<1>1. CASE live' = live /\ started' = started /\ stage' = "none"
  BY <1>1 DEF Spawn, Numbered, Registered, Closing, LeftBehind, Gone, OneProcessPerNode,
              Own, Alive
<1>2. CASE /\ started' = started + 1 /\ stage' = "register"
           /\ live' = live \cup {[number |-> started + 1, runs |-> manifest, life |-> life]}
  <2> DEFINE new == [number |-> started + 1, runs |-> manifest, life |-> life]
  <2>1. /\ UNCHANGED <<server, life, phase, events, manifest, processes, reapers, told>>
        /\ stage = "spawn"
    BY <1>2 DEF Spawn
  <2>2. /\ started \in Nat /\ life \in Nat /\ manifest \in Manifest
        /\ \A p \in live : p.number \in Nat /\ p.life \in Nat
    BY <2>1 DEF TypeOK, LoadTypeOK, ProcTypeOK
  <2>3. Numbered'
    BY <1>2, <2>1, <2>2 DEF Numbered
  <2>4. \A p \in Own' : p \in Own \/ p = new
    BY <1>2, <2>1 DEF Own
  <2>5. Registered'
    BY <1>2, <2>1, <2>4 DEF Registered
  <2>6. Alive
    BY <2>1 DEF Gone
  <2>7. server = "closed" => Own = {}
    BY <2>1 DEF Closing
  <2>8. Closing' /\ LeftBehind' /\ Gone'
    BY <1>2, <2>1, <2>4, <2>6, <2>7 DEF Closing, LeftBehind, Gone, Alive
  <2>9. \A p \in live : p.runs.id = manifest.id /\ p.life = life => p.number \in told
    BY <2>1, <2>2, <2>6, <2>7 DEF Registered, Own, Alive, TypeOK, ProcTypeOK
  <2>10. OneProcessPerNode'
    BY <1>2, <2>1, <2>9 DEF OneProcessPerNode
  <2>11. QED
    BY <2>3, <2>5, <2>8, <2>10
<1>3. QED
  BY <1>1, <1>2 DEF Spawn

LEMMA RegisterProcesses ==
  ASSUME TypeOK, ProcessInv, RegisterProcess
  PROVE  ProcessInv'
<1> USE DEF ProcessInv, dirVars, lifeVars, osVars
<1>1. /\ UNCHANGED <<server, life, phase, events, manifest, live, started, told>>
      /\ stage = "register" /\ stage' = "dial" /\ manifest \in Manifest
      /\ processes' = [processes EXCEPT ![manifest.id] = started]
      /\ reapers' = reapers \cup {[number |-> started, id |-> manifest.id]}
      /\ processes \in [Ids -> 0..MaxStarts]
  BY DEF RegisterProcess, TypeOK, LoadTypeOK, ProcTypeOK
<1>2. manifest.id \in Ids /\ \A p \in live : p.runs.id \in Ids /\ p.number # NoProcess
  BY <1>1 DEF TypeOK, ProcTypeOK, Manifest
<1>3. \A w \in reapers : w.id \in Ids /\ w.number # NoProcess
  BY DEF TypeOK, ProcTypeOK
<1>4. Registered'
  <2> SUFFICES ASSUME server = "up" PROVE Registered'
    BY <1>1 DEF Registered
  <2>1. \A p \in Own' : processes'[p.runs.id] = p.number
    BY <1>1, <1>2 DEF Registered, Own
  <2>2. \A w \in reapers' : processes'[w.id] = w.number
    BY <1>1, <1>2, <1>3 DEF Registered
  <2>3. QED
    BY <1>1, <2>1, <2>2 DEF Registered
<1>5. Numbered' /\ LeftBehind' /\ Closing' /\ OneProcessPerNode'
  BY <1>1 DEF Numbered, LeftBehind, Closing, OneProcessPerNode, Own
<1>6. Gone'
  BY <1>1 DEF Gone, Alive
<1>7. QED
  BY <1>4, <1>5, <1>6

\* A process that ends, of itself or because its address is taken, or listens.
LEMMA EndProcesses ==
  ASSUME ProcessInv, NEW p \in live, Listen(p) \/ Exit(p)
  PROVE  ProcessInv'
<1>1. /\ live' \subseteq live
      /\ UNCHANGED <<dirVars, lifeVars, loadVars, processes, reapers, started, told>>
  BY DEF Listen, Exit, Ends
<1>2. Own' \subseteq Own
  BY <1>1 DEF Own, lifeVars
<1>3. QED
  BY <1>1, <1>2 DEF ProcessInv, Numbered, Registered, Closing, LeftBehind, Gone,
                    OneProcessPerNode, Alive, dirVars, lifeVars, loadVars

LEMMA ReapProcesses ==
  ASSUME TypeOK, ProcessInv, NEW w \in reapers, Reap(w)
  PROVE  ProcessInv'
<1> USE DEF ProcessInv
<1>1. /\ UNCHANGED <<server, life, phase, stage, manifest, events, live, started, told>>
      /\ reapers' = reapers \ {w} /\ processes' = [processes EXCEPT ![w.id] = NoProcess]
      /\ \A p \in live : p.number # w.number
  BY DEF Reap, dirVars, lifeVars, loadVars, osVars
<1>2. processes \in [Ids -> 0..MaxStarts]
  BY DEF TypeOK, ProcTypeOK
<1>3. Own' = Own
  BY <1>1 DEF Own
<1>4. Registered'
  <2> SUFFICES ASSUME server = "up" PROVE Registered'
    BY <1>1 DEF Registered
  <2>1. processes[w.id] = w.number
    BY DEF Registered
  <2>2. \A p \in Own : processes[p.runs.id] = p.number => p.runs.id # w.id
    BY <1>1, <2>1 DEF Own
  <2>3. \A v \in reapers : v.id = w.id => v = w
    BY <2>1 DEF Registered, TypeOK, ProcTypeOK
  <2>4. \A i \in Ids \ {w.id} : processes'[i] = processes[i]
    BY <1>1, <1>2
  <2>5. \A p \in Own' : \/ processes'[p.runs.id] = p.number
                        \/ stage' = "register" /\ p.number = started' /\ p.runs = manifest'
    BY <1>1, <1>3, <2>2, <2>4 DEF Registered, Own, TypeOK, ProcTypeOK, Manifest
  <2>6. \A v \in reapers' : processes'[v.id] = v.number
    BY <1>1, <2>3, <2>4 DEF Registered, TypeOK, ProcTypeOK
  <2>7. stage' \in {"spawn", "register"} => processes'[manifest'.id] = NoProcess
    BY <1>1, <1>2, <2>4 DEF Registered, TypeOK, LoadTypeOK, Manifest
  <2>8. QED
    BY <2>5, <2>6, <2>7 DEF Registered
<1>5. Numbered' /\ LeftBehind' /\ Closing' /\ OneProcessPerNode'
  BY <1>1, <1>3 DEF Numbered, LeftBehind, Closing, OneProcessPerNode
<1>6. Gone'
  BY <1>1 DEF Gone, Alive
<1>7. QED
  BY <1>4, <1>5, <1>6

LEMMA ServerProcesses ==
  ASSUME TypeOK, ProcessInv, Close \/ Leave \/ Restart
  PROVE  ProcessInv'
<1> USE DEF ProcessInv
<1>1. CASE Close
  <2>1. /\ server = "up" /\ server' = "closed" /\ phase = "watching" /\ events' = <<>>
        /\ UNCHANGED <<life, phase, stage, manifest, live, started>>
        /\ told' = told \cup ({processes[i] : i \in Ids} \ {NoProcess})
    BY <1>1 DEF Close, loadVars
  <2>2. \A p \in Own' : p \in Own /\ \A i \in Ids : processes[i] # p.number
    BY <2>1 DEF Own, TypeOK, ProcTypeOK
  <2>3. \A p \in Own' : stage = "register" /\ p.number = started /\ p \in live
    BY <2>1, <2>2 DEF Registered, Own, TypeOK, ProcTypeOK, Manifest
  <2>4. Closing' /\ LeftBehind'
    BY <2>1, <2>3 DEF Closing, LeftBehind, Numbered
  <2>5. Numbered' /\ Registered' /\ Gone' /\ OneProcessPerNode'
    BY <2>1 DEF Numbered, Registered, Gone, OneProcessPerNode, Alive
  <2>6. QED
    BY <2>4, <2>5
<1>2. CASE Leave
  <2>1. /\ server' \in {"exited", "killed"} /\ (server' = "exited" => server = "closed")
        /\ phase' = "start" /\ stage' = "none" /\ reapers' = {}
        /\ UNCHANGED <<life, live, started, told>>
    BY <1>2 DEF Leave, Vanish, osVars, Alive
  <2>2. QED
    BY <2>1 DEF Alive, Numbered, Registered, Closing, LeftBehind, Gone, OneProcessPerNode,
                Own
<1>3. CASE Restart
  <2>1. /\ server' = "up" /\ life' = life + 1 /\ reapers' = {} /\ stage' = "none"
        /\ UNCHANGED <<live, started, told>>
    BY <1>3 DEF Restart, Gone, loadVars, procVars, osVars
  <2>2. life \in Nat /\ \A p \in live : p.life \in Nat
    BY DEF TypeOK, LoadTypeOK, ProcTypeOK
  <2>3. Own' = {} /\ Numbered'
    BY <2>1, <2>2 DEF Own, Numbered
  <2>4. QED
    BY <2>1, <2>3 DEF Registered, Closing, LeftBehind, Gone, OneProcessPerNode, Alive
<1>4. QED
  BY <1>1, <1>2, <1>3

LEMMA StepProcesses ==
  ASSUME TypeOK, ProcessInv, [Next]_vars
  PROVE  ProcessInv'
<1>1. CASE UNCHANGED vars
  BY <1>1, QuietProcesses DEF vars, dirVars
<1>2. ASSUME NEW f \in Files, WriteFile(f) \/ RemoveFile(f) \/ RenameFile(f)
      PROVE  ProcessInv'
  BY <1>2, QuietProcesses DEF WriteFile, RemoveFile, RenameFile, Edit
<1>3. ASSUME NEW c \in Callers, CallStep(c) PROVE ProcessInv'
  BY <1>3, QuietProcesses, CallMoves DEF TypeOK, CallTypeOK, dirVars
<1>4. CASE LoadStep /\ ~Spawn /\ ~RegisterProcess
  <2>1. UNCHANGED <<lifeVars, procVars>> /\ stage # "register"
    BY <1>4 DEF ProcessInv, Gone, LoadStep, ListFiles, LoadNext, Watch, HandleEvent,
                ReadManifest, EnsureProcess, Dial
  <2>2. Alive
    BY <1>4 DEF ProcessInv, Gone, LoadStep, ListFiles, LoadNext, Watch, HandleEvent,
                ReadManifest, EnsureProcess, Dial
  <2>3. QED
    BY <1>4, <2>1, <2>2, LoadProcesses DEF LoadStep
<1>5. QED
  BY <1>1, <1>2, <1>3, <1>4, SpawnProcesses, RegisterProcesses, EndProcesses,
     ReapProcesses, ServerProcesses DEF Next

\* While the server is up every process it did not tell to end is the one its map
\* has for the node, or was started by the load under way and is not registered yet
\* (node.go:109-122, 186-273).
THEOREM ProcessesAccounted == Spec => []ProcessInv
<1>1. Init => ProcessInv
  BY InitProcesses
<1>2. TypeOK /\ ProcessInv /\ [Next]_vars => ProcessInv'
  BY StepProcesses
<1>3. QED
  BY <1>1, <1>2, TypeCorrect, PTL DEF Spec

\* However its process exits, is awaited and started again while manifests are
\* reloaded and the server closes, a node never has two processes of one life of
\* the server that nobody told to end (node.go:109-122, 247-273).
THEOREM NodeHasOneProcess == Spec => []OneProcessPerNode
<1>1. ProcessInv => OneProcessPerNode
  BY DEF ProcessInv
<1>2. QED
  BY <1>1, ProcessesAccounted, PTL

\* Whatever the watcher is at when the server closes, at most one process of this
\* life of the server is left without a signal (node.go:109-122, 186-194, 247-273).
THEOREM CloseIsThorough == Spec => []CloseLeavesAtMostOne
<1>1. ProcessInv => CloseLeavesAtMostOne
  <2> SUFFICES ASSUME ProcessInv, server \in {"closed", "exited"}
               PROVE  Cardinality(Own) <= 1
    BY DEF CloseLeavesAtMostOne, Own
  <2>1. CASE Own = {}
    BY <2>1, FS_EmptySet
  <2>2. ASSUME NEW p \in Own PROVE Cardinality(Own) <= 1
    <3>1. Own = {p}
      BY <2>2 DEF ProcessInv, LeftBehind
    <3>2. QED
      BY <3>1, FS_Singleton
  <2>3. QED
    BY <2>1, <2>2
<1>2. QED
  BY <1>1, ProcessesAccounted, PTL

-----------------------------------------------------------------------------
(***************************************************************************)
(* Calls of remote nodes.  In its loop a run has nothing to be performed   *)
(* any more, and what it sent was for earlier steps; while it waits this   *)
(* holds of all but its last request; once it has ended nothing is asked   *)
(* of its requests, for the next run has a number none of them bears.      *)
(***************************************************************************)
Behind(x, k) == x.sent[k].run = x.run => k \in x.done /\ x.sent[k].step < x.step

InStep(x) ==
  /\ \A k \in 1..Len(x.sent) : x.sent[k].run <= x.run
  /\ x.at \in {"idle", "got"} => \A k \in 1..Len(x.sent) : Behind(x, k)
  /\ x.at = "sent" =>
       /\ Len(x.sent) > 0
       /\ x.sent[Len(x.sent)].run = x.run /\ x.sent[Len(x.sent)].step = x.step
       /\ \A k \in 1..(Len(x.sent) - 1) : Behind(x, k)
  /\ \A j, k \in 1..Len(x.sent) : j < k /\ x.sent[j].run = x.sent[k].run =>
       j \in x.done /\ x.sent[j].step < x.sent[k].step
  /\ \A n \in 0..(x.step - 1) : \E k \in x.done \cap (1..Len(x.sent)) : x.sent[k].step = n

CallInv == \A c \in Callers : InStep(call[c])

LEMMA MoveInStep ==
  ASSUME NEW x \in Call, NEW y \in Call, InStep(x), Moves(x, y)
  PROVE  InStep(y)
<1>1. /\ x.sent \in Seq(Request) /\ x.step \in Nat /\ x.run \in Nat /\ Len(x.sent) \in Nat
      /\ DOMAIN x.sent = 1..Len(x.sent)
      /\ \A k \in 1..Len(x.sent) : x.sent[k].run \in Nat /\ x.sent[k].step \in Nat
  <2>1. x.sent \in Seq(Request) /\ x.step \in Nat /\ x.run \in 1..MaxRuns
    BY DEF Call
  <2>2. \A r \in Request : r.run \in Nat /\ r.step \in Nat
    BY CallAssumption DEF Request
  <2>3. x.run \in Nat
    BY <2>1, CallAssumption
  <2>4. QED
    BY <2>1, <2>2, <2>3
<1>2. CASE /\ y.run = x.run /\ y.step = x.step /\ y.sent = x.sent /\ y.done = x.done
           /\ \/ x.at \in {"idle", "got"} /\ y.at \in {"idle", "got"}
              \/ y.at = "ended"
  BY <1>1, <1>2 DEF InStep, Behind
<1>3. ASSUME NEW to, x.at = "got", y.at = "sent",
             y.sent = Append(x.sent, [run |-> x.run, step |-> x.step, to |-> to]),
             y.run = x.run, y.step = x.step, y.done = x.done
      PROVE  InStep(y)
  <2>1. /\ Len(y.sent) = Len(x.sent) + 1
        /\ \A k \in 1..Len(x.sent) : y.sent[k] = x.sent[k]
        /\ y.sent[Len(y.sent)].run = x.run /\ y.sent[Len(y.sent)].step = x.step
    BY <1>1, <1>3
  <2>2. \A k \in 1..Len(x.sent) : Behind(y, k)
    BY <1>3, <2>1 DEF InStep, Behind
  <2>3. \A k \in 1..Len(y.sent) : y.sent[k].run <= y.run
    BY <1>1, <1>3, <2>1 DEF InStep
  <2>4. ASSUME NEW j \in 1..Len(y.sent), NEW k \in 1..Len(y.sent), j < k,
               y.sent[j].run = y.sent[k].run
        PROVE  j \in y.done /\ y.sent[j].step < y.sent[k].step
    <3>1. CASE k \in 1..Len(x.sent)
      BY <1>1, <1>3, <2>1, <2>4, <3>1 DEF InStep
    <3>2. CASE k = Len(y.sent)
      BY <1>1, <1>3, <2>1, <2>2, <2>4, <3>2 DEF Behind
    <3>3. QED
      BY <1>1, <2>1, <3>1, <3>2
  <2>5. \A n \in 0..(y.step - 1) : \E k \in y.done \cap (1..Len(y.sent)) : y.sent[k].step = n
    BY <1>1, <1>3, <2>1 DEF InStep
  <2>6. y.sent[Len(y.sent)].run = y.run /\ y.sent[Len(y.sent)].step = y.step
    BY <1>3, <2>1
  <2>7. Len(y.sent) > 0 /\ \A k \in 1..(Len(y.sent) - 1) : Behind(y, k)
    BY <1>1, <2>1, <2>2
  <2>8. y.at \notin {"idle", "got"}
    BY <1>3
  <2>9. QED
    BY <2>3, <2>4, <2>5, <2>6, <2>7, <2>8 DEF InStep
<1>4. CASE /\ x.done \subseteq y.done
           /\ y.at = x.at /\ y.run = x.run /\ y.step = x.step /\ y.sent = x.sent
  BY <1>1, <1>4 DEF InStep, Behind
<1>5. CASE /\ x.at = "sent" /\ Len(x.sent) \in x.done /\ y.at \in {"idle", "ended"}
           /\ y.step = x.step + 1
           /\ y.run = x.run /\ y.sent = x.sent /\ y.done = x.done
  <2>1. \A k \in 1..Len(y.sent) : Behind(y, k)
    BY <1>1, <1>5 DEF InStep, Behind
  <2>2. \A n \in 0..(y.step - 1) : \E k \in y.done \cap (1..Len(y.sent)) : y.sent[k].step = n
    <3>1. \A n \in 0..(y.step - 1) : n \in 0..(x.step - 1) \/ n = x.step
      BY <1>1, <1>5
    <3>2. Len(x.sent) \in y.done \cap (1..Len(y.sent)) /\ y.sent[Len(x.sent)].step = x.step
      BY <1>1, <1>5 DEF InStep
    <3>3. QED
      BY <1>5, <3>1, <3>2 DEF InStep
  <2>3. QED
    BY <1>5, <2>1, <2>2 DEF InStep
<1>6. CASE /\ y.at = "idle" /\ y.run = x.run + 1
           /\ y.step = x.step /\ y.sent = x.sent /\ y.done = x.done
  <2>1. \A k \in 1..Len(y.sent) : y.sent[k].run < y.run
    BY <1>1, <1>6 DEF InStep
  <2>2. \A k \in 1..Len(y.sent) : Behind(y, k) /\ y.sent[k].run <= y.run
    BY <1>1, <1>6, <2>1 DEF Behind
  <2>3. y.at # "sent"
    BY <1>6
  <2>4. QED
    BY <1>6, <2>2, <2>3 DEF InStep
<1>7. QED
  BY <1>2, <1>3, <1>4, <1>5, <1>6 DEF Moves

\* A run sends its requests step by step, each once the ones before have been
\* carried out, and every stored step was carried out remotely, whatever becomes
\* of messages, processes, runs and the server (engine.go:161-214,
\* node.go:346-369).
THEOREM RunsStayInStep == Spec => []RemoteWorkIsInStep
<1>1. Init => CallInv
  BY DEF Init, CallInv, NoCall, InStep
<1>2. TypeOK /\ CallInv /\ [Next]_vars => CallInv'
  <2> SUFFICES ASSUME TypeOK, CallInv, [Next]_vars PROVE CallInv'
    OBVIOUS
  <2>1. CASE UNCHANGED call
    BY <2>1 DEF CallInv
  <2>2. CASE Leave
    <3>1. ASSUME NEW c \in Callers PROVE InStep(call'[c])
      <4> DEFINE y == [call[c] EXCEPT !.at = "ended", !.to = Elsewhere]
      <4>1. call[c] \in Call /\ y \in Call /\ call'[c] = y
        BY <2>2 DEF TypeOK, CallTypeOK, Call, Leave, Vanish
      <4>2. Moves(call[c], y)
        BY <4>1 DEF Moves, Call
      <4>3. QED
        BY <4>1, <4>2, MoveInStep DEF CallInv
    <3>2. QED
      BY <3>1 DEF CallInv
  <2>3. ASSUME NEW c \in Callers, CallStep(c) PROVE CallInv'
    <3>1. /\ call \in [Callers -> Call] /\ call' \in [Callers -> Call]
          /\ Moves(call[c], call'[c])
          /\ \A d \in Callers \ {c} : call'[d] = call[d]
      BY <2>3, CallMoves DEF TypeOK, CallTypeOK
    <3>2. InStep(call'[c])
      BY <3>1, MoveInStep DEF CallInv
    <3>3. QED
      BY <3>1, <3>2 DEF CallInv
  <2>4. CASE Next /\ ~Leave /\ ~(\E c \in Callers : CallStep(c))
    <3>1. CASE LoadStep
      BY <2>1, <3>1 DEF LoadStep, ListFiles, LoadNext, Watch, HandleEvent, ReadManifest,
                        EnsureProcess, Spawn, RegisterProcess, Dial
    <3>2. CASE ~LoadStep
      BY <2>1, <2>4, <3>2 DEF Next, WriteFile, RemoveFile, RenameFile, Edit, Listen, Exit,
                              Reap, Close, Restart
    <3>3. QED
      BY <3>1, <3>2
  <2>5. QED
    BY <2>1, <2>2, <2>3, <2>4 DEF vars
<1>3. TypeOK /\ CallInv => RemoteWorkIsInStep
  <2> SUFFICES ASSUME TypeOK, CallInv, NEW c \in Callers
               PROVE  LET sent == call[c].sent  done == call[c].done IN
                        /\ \A j, k \in DOMAIN sent : j < k /\ sent[j].run = sent[k].run =>
                             j \in done /\ sent[j].step < sent[k].step
                        /\ \A n \in 0..(call[c].step - 1) : \E k \in done : sent[k].step = n
    BY DEF RemoteWorkIsInStep
  <2>1. InStep(call[c]) /\ DOMAIN call[c].sent = 1..Len(call[c].sent)
    BY DEF CallInv, TypeOK, CallTypeOK, Call
  <2>2. QED
    BY <2>1 DEF InStep
<1>4. QED
  BY <1>1, <1>2, <1>3, TypeCorrect, PTL DEF Spec

-----------------------------------------------------------------------------
(***************************************************************************)
(* Files and entries.  What a file says is in the registry, or on its way  *)
(* there: it was not told of, or failed, or is to be loaded, or has an     *)
(* event, or is being loaded.  A load that is overtaken by a change has an *)
(* event after it, and so has a removal that is overtaken by a new file.   *)
(***************************************************************************)
\* Every manifest is in a file of its own, which has the name of its node.
FilePerNode ==
  /\ \A f \in Files : \A m \in Contents[f] \cap Manifest : m.id = Stem[f]
  /\ \A f, g \in Files : Stem[f] = Stem[g] => f = g

Queued(f, k) == \E n \in k..Len(events) : events[n].file = f /\ Loads(events[n].op)

Dropped(f) == \E n \in 1..Len(events) : events[n].file = f /\ events[n].op = "remove"

Loading(f) == stage \in {"ensure", "spawn", "register", "dial"} /\ file = f

PhaseInv ==
  /\ \A f \in Files : files[f] \in Contents[f] \cup {NoFile}
  /\ \A f \in Files : Loading(f) => manifest \in Contents[f] \cap Manifest
  /\ phase = "start" => stage = "none" /\ dynamic = NoEntries
  /\ phase # "watching" => events = <<>>
  /\ phase = "watching" => todo = {}

ManifestsInv ==
  phase # "start" =>
    \A f \in Files : files[f] \in Manifest =>
      \/ f \in unseen \cup failed \cup todo \/ Queued(f, 1)
      \/ stage = "read" /\ file = f
      \/ Loading(f) /\ manifest = files[f]
      \/ dynamic[Stem[f]] = files[f]

OvertakenInv ==
  \A f \in Files :
    /\ Loading(f) /\ files[f] \in Manifest /\ manifest # files[f] =>
         f \in unseen \/ Queued(f, 1)
    /\ Loading(f) /\ files[f] = NoFile => f \in unseen \/ Dropped(f)
    /\ files[f] # NoFile =>
         \A k \in 1..Len(events) : events[k].file = f /\ events[k].op = "remove" =>
           f \in unseen \/ Queued(f, k + 1)

EntriesInv ==
  \A i \in Ids : dynamic[i] # NoEntry =>
    \E f \in Files : Stem[f] = i /\ (files[f] # NoFile \/ f \in unseen \/ Dropped(f))

CurrentInv ==
  /\ PhaseInv
  /\ server = "up" => ManifestsInv /\ OvertakenInv /\ EntriesInv

LEMMA InitCurrent == Init => CurrentInv
BY DEF Init, CurrentInv, PhaseInv, ManifestsInv, OvertakenInv, EntriesInv, Loading,
       NoEntries

\* What leaves the directory, the load and the entries alone.
LEMMA QuietCurrent ==
  ASSUME CurrentInv, UNCHANGED <<dirVars, loadVars, dynamic, server>>
  PROVE  CurrentInv'
BY DEF CurrentInv, PhaseInv, ManifestsInv, OvertakenInv, EntriesInv, Loading, Queued,
       Dropped, dirVars, loadVars

\* A new event hides none of those before it.
LEMMA EventsAppended ==
  ASSUME TypeOK, NEW op \in {"create", "write", "remove", "rename"}, NEW f \in Files,
         events' = Append(events, [op |-> op, file |-> f])
  PROVE  /\ Loads(op) => \A k \in 1..Len(events) + 1 : Queued(f, k)'
         /\ op = "remove" => Dropped(f)'
         /\ \A g \in Files : /\ \A k \in Nat \ {0} : Queued(g, k) => Queued(g, k)'
                             /\ Dropped(g) => Dropped(g)'
         /\ Len(events) \in Nat /\ Len(events') = Len(events) + 1
         /\ \A k \in 1..Len(events) : events'[k] = events[k]
         /\ events'[Len(events) + 1] = [op |-> op, file |-> f]
<1> DEFINE Event == [op : {"create", "write", "remove", "rename"}, file : Files]
           e == [op |-> op, file |-> f]
<1>1. events \in Seq(Event) /\ e \in Event
  BY DEF TypeOK, DirTypeOK
<1> HIDE DEF Event
<1>2. /\ Len(events) \in Nat /\ Len(events') = Len(events) + 1
      /\ \A k \in 1..Len(events) : events'[k] = events[k]
      /\ events'[Len(events) + 1] = e
  BY <1>1, AppendProperties
<1>3. \A g \in Files : /\ \A k \in Nat \ {0} : Queued(g, k) => Queued(g, k)'
                       /\ Dropped(g) => Dropped(g)'
  <2>1. \A k \in Nat : \A n \in k..Len(events) : n \in k..Len(events')
    BY <1>2
  <2>2. ASSUME NEW g \in Files, NEW k \in Nat \ {0}, Queued(g, k) PROVE Queued(g, k)'
    BY <1>2, <2>1, <2>2 DEF Queued
  <2>3. ASSUME NEW g \in Files, Dropped(g) PROVE Dropped(g)'
    BY <1>2, <2>1, <2>3 DEF Dropped
  <2>4. QED
    BY <2>2, <2>3
<1>4. /\ Loads(op) => \A k \in 1..Len(events) + 1 : Queued(f, k)'
      /\ op = "remove" => Dropped(f)'
  BY <1>2 DEF Queued, Dropped
<1>5. QED
  BY <1>2, <1>3, <1>4

LEMMA EditCurrent ==
  ASSUME TypeOK, CurrentInv, NEW f \in Files, NEW x \in Contents[f] \cup {NoFile},
         NEW op \in {"create", "write", "remove", "rename"}, Edit(f, x, op),
         Loads(op) <=> x # NoFile
  PROVE  CurrentInv'
<1> USE DEF CurrentInv, loadVars, lifeVars
<1>1. /\ files' = [files EXCEPT ![f] = x]
      /\ files \in [Files -> Manifest \cup {Broken, NoFile}]
      /\ UNCHANGED <<server, phase, todo, stage, file, manifest, failed, dynamic>>
  BY DEF Edit, TypeOK, DirTypeOK
<1>2. files'[f] = x /\ \A g \in Files \ {f} : files'[g] = files[g]
  BY <1>1
<1>3. PhaseInv'
  BY <1>1, <1>2 DEF PhaseInv, Edit, Loading
<1>4. \A g \in Files \ {f} : g \in unseen <=> g \in unseen'
  BY DEF Edit
<1> SUFFICES ASSUME server = "up" PROVE ManifestsInv' /\ OvertakenInv' /\ EntriesInv'
  BY <1>1, <1>3
<1>5. CASE phase = "watching"
  <2>1. events' = Append(events, [op |-> op, file |-> f])
    BY <1>5 DEF Edit
  <2>2. op = "rename" => f \in unseen'
    BY DEF Edit
  <2>3. /\ op \in {"create", "write", "remove", "rename"}
        /\ op \in {"create", "write"} <=> x # NoFile
    BY DEF Loads
  <2>4. ManifestsInv'
    BY <1>1, <1>2, <1>4, <2>1, EventsAppended DEF ManifestsInv, Loading
  <2>5. EntriesInv'
    BY <1>1, <1>2, <1>4, <2>1, <2>2, <2>3, EventsAppended DEF EntriesInv
  <2>6. ASSUME NEW g \in Files
        PROVE  /\ Loading(g)' /\ files'[g] \in Manifest /\ manifest' # files'[g] =>
                    g \in unseen' \/ Queued(g, 1)'
               /\ Loading(g)' /\ files'[g] = NoFile => g \in unseen' \/ Dropped(g)'
    BY <1>1, <1>2, <1>4, <2>1, <2>2, <2>3, EventsAppended DEF OvertakenInv, Loading
  <2>7. ASSUME NEW g \in Files, files'[g] # NoFile, NEW k \in 1..Len(events'),
               events'[k].file = g, events'[k].op = "remove"
        PROVE  g \in unseen' \/ Queued(g, k + 1)'
    <3>1. k \in 1..Len(events) /\ events'[k] = events[k]
      BY <1>2, <2>1, <2>3, <2>7, EventsAppended
    <3>2. CASE g = f
      BY <1>2, <2>1, <2>7, <3>1, <3>2, EventsAppended
    <3>3. CASE g # f
      BY <1>2, <1>4, <2>1, <2>7, <3>1, <3>3, EventsAppended DEF OvertakenInv
    <3>4. QED
      BY <3>2, <3>3
  <2>8. QED
    BY <2>4, <2>5, <2>6, <2>7 DEF OvertakenInv
<1>6. CASE phase # "watching"
  <2>1. events = <<>> /\ events' = events
    BY <1>6 DEF Edit, PhaseInv
  <2>2. phase = "loading" => f \in unseen'
    BY DEF Edit
  <2>3. phase = "start" => stage = "none" /\ dynamic = NoEntries
    BY DEF PhaseInv
  <2>4. phase \in {"start", "loading"}
    BY <1>6 DEF TypeOK, LoadTypeOK
  <2>5. \A g \in Files, k \in Nat : Queued(g, k)' = Queued(g, k) /\ Dropped(g)' = Dropped(g)
    BY <2>1 DEF Queued, Dropped
  <2>6. ManifestsInv'
    BY <1>1, <1>2, <1>4, <2>2, <2>4, <2>5 DEF ManifestsInv, Loading
  <2>7. OvertakenInv'
    BY <1>1, <1>2, <1>4, <2>1, <2>2, <2>3, <2>4, <2>5 DEF OvertakenInv, Loading
  <2>8. EntriesInv'
    BY <1>1, <1>2, <1>4, <2>2, <2>3, <2>4, <2>5 DEF EntriesInv, NoEntries
  <2>9. QED
    BY <2>6, <2>7, <2>8
<1>7. QED
  BY <1>5, <1>6

\* The first event is gone and the others have moved up.
LEMMA EventsShifted ==
  ASSUME TypeOK, events # <<>>, events' = Tail(events)
  PROVE  /\ Head(events) = events[1] /\ Len(events) \in Nat \ {0}
         /\ Head(events).file \in Files
         /\ \A g \in Files : /\ Queued(g, 2) => Queued(g, 1)'
                             /\ Head(events).file # g /\ Queued(g, 1) => Queued(g, 1)'
                             /\ Head(events).file # g /\ Dropped(g) => Dropped(g)'
                             /\ Head(events).op # "remove" /\ Dropped(g) => Dropped(g)'
                             /\ ~Loads(Head(events).op) /\ Queued(g, 1) => Queued(g, 1)'
                             /\ \A k \in Nat : Queued(g, k + 2) => Queued(g, k + 1)'
         /\ \A k \in 1..Len(events') : k + 1 \in 1..Len(events) /\ events'[k] = events[k + 1]
<1> DEFINE Event == [op : {"create", "write", "remove", "rename"}, file : Files]
<1>1. events \in Seq(Event)
  BY DEF TypeOK, DirTypeOK
<1>2. Head(events) \in Event
  BY <1>1, HeadTailProperties
<1> HIDE DEF Event
<1>3. /\ Head(events) = events[1] /\ Len(events) \in Nat \ {0}
      /\ Len(events') = Len(events) - 1
      /\ \A k \in 1..Len(events') : events'[k] = events[k + 1]
  BY <1>1, HeadTailProperties
<1>4. \A n \in 2..Len(events) : n - 1 \in 1..Len(events') /\ events'[n - 1] = events[n]
  BY <1>3
<1>5. ASSUME NEW g \in Files, NEW k \in Nat, Queued(g, k + 2) PROVE Queued(g, k + 1)'
  <2>1. PICK n \in (k + 2)..Len(events) : events[n].file = g /\ Loads(events[n].op)
    BY <1>5 DEF Queued
  <2>2. n - 1 \in (k + 1)..Len(events') /\ events'[n - 1] = events[n]
    BY <1>3, <1>4, <2>1
  <2>3. QED
    BY <2>1, <2>2 DEF Queued
<1>6. \A g \in Files : Queued(g, 2) => Queued(g, 1)'
  BY <1>5
<1>7. ASSUME NEW g \in Files, Queued(g, 1),
             Head(events).file # g \/ ~Loads(Head(events).op)
      PROVE  Queued(g, 1)'
  BY <1>3, <1>6, <1>7 DEF Queued
<1>8. ASSUME NEW g \in Files, Dropped(g),
             Head(events).file # g \/ Head(events).op # "remove"
      PROVE  Dropped(g)'
  <2>1. PICK n \in 1..Len(events) : events[n].file = g /\ events[n].op = "remove"
    BY <1>8 DEF Dropped
  <2>2. n \in 2..Len(events)
    BY <1>3, <1>8, <2>1
  <2>3. QED
    BY <1>4, <2>1, <2>2 DEF Dropped
<1>9. QED
  BY <1>2, <1>3, <1>5, <1>6, <1>7, <1>8 DEF Event

LEMMA EventCurrent ==
  ASSUME FilePerNode, TypeOK, CurrentInv, HandleEvent
  PROVE  CurrentInv'
<1> DEFINE e == Head(events)
<1>1. /\ phase = "watching" /\ stage = "none" /\ events # <<>> /\ events' = Tail(events)
      /\ UNCHANGED <<files, unseen, phase, todo, manifest, failed, server>>
      /\ Loads(e.op) => stage' = "read" /\ file' = e.file /\ dynamic' = dynamic
      /\ ~Loads(e.op) => stage' = "none"
      /\ dynamic' = IF e.op = "remove" THEN Unload(e.file) ELSE dynamic
  BY DEF HandleEvent, lifeVars, Loads
<1>2. e.file \in Files /\ dynamic \in [Ids -> Manifest \cup {NoEntry}]
  BY <1>1, EventsShifted DEF TypeOK, CallTypeOK
<1> HIDE DEF e
<1>3. \A i \in Ids : \/ dynamic'[i] = dynamic[i]
                     \/ e.op = "remove" /\ i = Stem[e.file] /\ dynamic'[i] = NoEntry
  BY <1>1, <1>2 DEF Unload
<1>4. PhaseInv'
  BY <1>1 DEF CurrentInv, PhaseInv, Loading
<1> SUFFICES ASSUME server = "up" PROVE ManifestsInv' /\ OvertakenInv' /\ EntriesInv'
  BY <1>1, <1>4 DEF CurrentInv
<1>5. e = events[1] /\ Len(events) \in Nat \ {0}
  BY <1>1, EventsShifted DEF e
<1>6. ASSUME NEW f \in Files, files[f] \in Manifest
      PROVE  \/ f \in unseen' \cup failed' \cup todo' \/ Queued(f, 1)'
             \/ stage' = "read" /\ file' = f
             \/ dynamic'[Stem[f]] = files[f]
  <2>1. \/ f \in unseen \cup failed \cup todo \/ Queued(f, 1)
        \/ dynamic[Stem[f]] = files[f]
    BY <1>1, <1>6 DEF CurrentInv, ManifestsInv, Loading
  <2>2. CASE f \in unseen \cup failed \cup todo
    BY <1>1, <2>2
  <2>3. CASE Queued(f, 1)
    BY <1>1, <2>3, EventsShifted DEF e
  <2>4. CASE dynamic[Stem[f]] = files[f]
    <3>1. CASE e.op = "remove" /\ Stem[f] = Stem[e.file]
      <4>1. f = e.file
        BY <1>2, <3>1 DEF FilePerNode
      <4>2. f \in unseen \/ Queued(f, 2)
        BY <1>5, <1>6, <3>1, <4>1 DEF CurrentInv, OvertakenInv
      <4>3. QED
        BY <1>1, <4>2, EventsShifted
    <3>2. CASE ~(e.op = "remove" /\ Stem[f] = Stem[e.file])
      BY <1>3, <2>4, <3>2
    <3>3. QED
      BY <3>1, <3>2
  <2>5. QED
    BY <2>1, <2>2, <2>3, <2>4
<1>7. ManifestsInv'
  BY <1>1, <1>6 DEF ManifestsInv
<1>8. OvertakenInv'
  <2>1. ASSUME NEW f \in Files, files[f] # NoFile, NEW k \in 1..Len(events'),
               events'[k].file = f, events'[k].op = "remove"
        PROVE  f \in unseen \/ Queued(f, k + 1)'
    <3>1. k + 1 \in 1..Len(events) /\ events'[k] = events[k + 1]
      BY <1>1, EventsShifted
    <3>2. f \in unseen \/ Queued(f, (k + 1) + 1)
      BY <2>1, <3>1 DEF CurrentInv, OvertakenInv
    <3>3. k \in Nat /\ (k + 1) + 1 = k + 2
      BY <1>5
    <3>4. QED
      BY <1>1, <3>2, <3>3, EventsShifted
  <2>2. \A f \in Files : ~Loading(f)'
    BY <1>1 DEF Loading
  <2>3. QED
    BY <1>1, <2>1, <2>2 DEF OvertakenInv
<1>9. EntriesInv'
  <2> SUFFICES ASSUME NEW i \in Ids, dynamic'[i] # NoEntry
               PROVE  \E f \in Files :
                        Stem[f] = i /\ (files'[f] # NoFile \/ f \in unseen' \/ Dropped(f)')
    BY DEF EntriesInv
  <2>1. dynamic[i] # NoEntry /\ ~(e.op = "remove" /\ i = Stem[e.file])
    BY <1>1, <1>2, <1>3 DEF Unload
  <2>2. PICK f \in Files : Stem[f] = i /\ (files[f] # NoFile \/ f \in unseen \/ Dropped(f))
    BY <2>1 DEF CurrentInv, EntriesInv
  <2>3. Dropped(f) => Dropped(f)'
    BY <1>1, <2>1, <2>2, EventsShifted DEF e
  <2>4. QED
    BY <1>1, <2>2, <2>3
<1>10. QED
  BY <1>7, <1>8, <1>9

\* What may happen in a load, as far as entries are concerned.
LEMMA LoadCurrent ==
  ASSUME FilePerNode, TypeOK, CurrentInv, UNCHANGED <<files, events, unseen, server>>,
         \/ /\ ListFiles \/ Watch \/ \E f \in Files : LoadNext(f)
         \/ ReadManifest
         \/ EnsureProcess \/ RegisterProcess \/ Spawn \/ Dial
  PROVE  CurrentInv'
<1> USE DEF CurrentInv, Loading
<1>1. \A f \in Files : /\ Dropped(f)' = Dropped(f)
                       /\ \A k \in Nat : Queued(f, k)' = Queued(f, k)
  BY DEF Dropped, Queued
<1>2. CASE ListFiles \/ Watch \/ \E f \in Files : LoadNext(f)
  <2>1. /\ UNCHANGED <<failed, dynamic, manifest>>
        /\ \/ /\ phase = "start" /\ phase' = "loading" /\ UNCHANGED <<stage, file>>
              /\ todo' = {f \in Files : files[f] # NoFile}
           \/ /\ phase = "loading" /\ phase' = "loading" /\ stage = "none"
              /\ stage' = "read" /\ todo' = todo \ {file'}
           \/ /\ phase = "loading" /\ phase' = "watching" /\ todo = {}
              /\ UNCHANGED <<stage, file, todo>>
    BY <1>2 DEF ListFiles, Watch, LoadNext
  <2>2. PhaseInv'
    BY <2>1 DEF PhaseInv
  <2>3. ManifestsInv => ManifestsInv'
    <3>1. CASE phase = "start"
      BY <1>1, <2>1, <3>1 DEF ManifestsInv, PhaseInv
    <3>2. CASE phase # "start"
      <4> SUFFICES ASSUME ManifestsInv, NEW f \in Files, files[f] \in Manifest
                   PROVE  \/ f \in unseen' \cup failed' \cup todo' \/ Queued(f, 1)'
                          \/ stage' = "read" /\ file' = f
                          \/ Loading(f)' /\ manifest' = files[f]
                          \/ dynamic'[Stem[f]] = files[f]
        BY DEF ManifestsInv
      <4>1. CASE phase' = "loading"
        BY <1>1, <2>1, <3>2, <4>1 DEF ManifestsInv
      <4>2. CASE phase' = "watching"
        BY <1>1, <2>1, <3>2, <4>2 DEF ManifestsInv
      <4>3. QED
        BY <2>1, <4>1, <4>2
    <3>3. QED
      BY <3>1, <3>2
  <2>4. EntriesInv => EntriesInv'
    BY <1>1, <2>1 DEF EntriesInv
  <2>5. OvertakenInv => OvertakenInv'
    BY <1>1, <2>1 DEF OvertakenInv, PhaseInv
  <2>6. QED
    BY <2>2, <2>3, <2>4, <2>5
<1>3. CASE ReadManifest
  <2>1. /\ stage = "read" /\ file \in Files /\ UNCHANGED <<phase, todo, dynamic>>
        /\ \/ stage' = "none" /\ failed' = failed \cup {file}
           \/ /\ stage' \in {"ensure", "dial"} /\ UNCHANGED <<file, failed>>
              /\ manifest' = files[file] /\ files[file] \in Manifest
    BY <1>3 DEF ReadManifest, GiveUp, TypeOK, LoadTypeOK, DirTypeOK
  <2>2. PhaseInv'
    BY <2>1 DEF PhaseInv
  <2>3. ManifestsInv => ManifestsInv'
    BY <1>1, <2>1 DEF ManifestsInv
  <2>4. EntriesInv => EntriesInv'
    BY <1>1, <2>1 DEF EntriesInv
  <2>5. OvertakenInv => OvertakenInv'
    BY <1>1, <2>1 DEF OvertakenInv
  <2>6. QED
    BY <2>2, <2>3, <2>4, <2>5
<1>4. CASE EnsureProcess \/ RegisterProcess \/ Spawn \/ Dial
  <2>1. /\ stage \in {"ensure", "spawn", "register", "dial"}
        /\ UNCHANGED <<phase, todo>>
        /\ \/ /\ stage' \in {"spawn", "register", "dial"}
              /\ UNCHANGED <<file, manifest, failed, dynamic>>
           \/ stage' = "none" /\ failed' = failed \cup {file} /\ UNCHANGED dynamic
           \/ /\ stage' = "none" /\ failed' = failed \ {file}
              /\ dynamic' = [dynamic EXCEPT ![manifest.id] = manifest]
    BY <1>4 DEF EnsureProcess, RegisterProcess, Spawn, Dial, GiveUp
  <2>2. /\ file \in Files /\ manifest \in Contents[file] \cap Manifest
        /\ manifest.id = Stem[file] /\ dynamic \in [Ids -> Manifest \cup {NoEntry}]
    BY <2>1 DEF TypeOK, LoadTypeOK, CallTypeOK, PhaseInv, FilePerNode
  <2>3. PhaseInv'
    BY <2>1 DEF PhaseInv
  <2>4. OvertakenInv => OvertakenInv'
    BY <1>1, <2>1 DEF OvertakenInv
  <2>5. CASE /\ UNCHANGED dynamic
             /\ \/ /\ stage' \in {"spawn", "register", "dial"}
                   /\ UNCHANGED <<file, manifest, failed>>
                \/ stage' = "none" /\ failed' = failed \cup {file}
    <3>1. EntriesInv => EntriesInv'
      BY <1>1, <2>1, <2>5 DEF EntriesInv
    <3>2. \A f \in Files : Loading(f) => Loading(f)' \/ f \in failed'
      BY <2>1, <2>5
    <3>3. ManifestsInv => ManifestsInv'
      BY <1>1, <2>1, <2>5, <3>2 DEF ManifestsInv
    <3>4. QED
      BY <2>3, <2>4, <3>1, <3>3
  <2>6. CASE /\ stage' = "none" /\ failed' = failed \ {file}
             /\ dynamic' = [dynamic EXCEPT ![Stem[file]] = manifest]
    <3> SUFFICES ASSUME server = "up" PROVE ManifestsInv' /\ EntriesInv'
      BY <2>3, <2>4
    <3>1. /\ dynamic'[Stem[file]] = manifest
          /\ \A i \in Ids \ {Stem[file]} : dynamic'[i] = dynamic[i]
      BY <2>2, <2>6
    <3>2. ASSUME NEW f \in Files, phase # "start", files[f] \in Manifest
          PROVE  \/ f \in unseen' \cup failed' \cup todo' \/ Queued(f, 1)'
                 \/ dynamic'[Stem[f]] = files[f]
      <4>1. CASE f = file
        BY <1>1, <2>1, <3>1, <3>2, <4>1 DEF OvertakenInv
      <4>2. CASE f # file
        BY <1>1, <2>1, <2>2, <2>6, <3>1, <3>2, <4>2 DEF ManifestsInv, FilePerNode
      <4>3. QED
        BY <4>1, <4>2
    <3>3. files[file] # NoFile \/ file \in unseen \/ Dropped(file)
      BY <2>1, <2>2 DEF OvertakenInv
    <3>4. EntriesInv'
      BY <1>1, <2>2, <3>1, <3>3 DEF EntriesInv
    <3>5. QED
      BY <2>1, <3>2, <3>4 DEF ManifestsInv
  <2>7. QED
    BY <2>1, <2>2, <2>5, <2>6
<1>5. QED
  BY <1>2, <1>3, <1>4

LEMMA StepCurrent ==
  ASSUME FilePerNode, TypeOK, ProcessInv, CurrentInv, [Next]_vars
  PROVE  CurrentInv'
<1>1. CASE UNCHANGED vars
  BY <1>1, QuietCurrent DEF vars, lifeVars
<1>2. ASSUME NEW f \in Files, WriteFile(f) \/ RemoveFile(f) \/ RenameFile(f)
      PROVE  CurrentInv'
  <2>1. CASE WriteFile(f)
    <3>1. PICK m \in Contents[f] :
            Edit(f, m, IF files[f] = NoFile THEN "create" ELSE "write")
      BY <2>1 DEF WriteFile
    <3>2. m # NoFile
      BY DEF Manifest
    <3>3. QED
      BY <3>1, <3>2, EditCurrent DEF Loads
  <2>2. CASE RemoveFile(f) \/ RenameFile(f)
    BY <2>2, EditCurrent DEF RemoveFile, RenameFile, Loads
  <2>3. QED
    BY <1>2, <2>1, <2>2
<1>3. CASE LoadStep /\ ~HandleEvent
  <2>1. UNCHANGED <<files, events, unseen, server>>
    BY <1>3 DEF LoadStep, ListFiles, LoadNext, Watch, ReadManifest, EnsureProcess, Spawn,
                RegisterProcess, Dial, dirVars, lifeVars
  <2>2. QED
    BY <1>3, <2>1, LoadCurrent DEF LoadStep
<1>4. CASE HandleEvent
  BY <1>4, EventCurrent
<1>5. CASE (\E p \in live : Listen(p) \/ Exit(p)) \/ \E w \in reapers : Reap(w)
  BY <1>5, QuietCurrent DEF Listen, Exit, Reap, lifeVars
<1>6. CASE Close
  BY <1>6 DEF Close, loadVars, CurrentInv, PhaseInv, Loading
<1>7. CASE Leave
  BY <1>7 DEF Leave, Vanish, Alive, CurrentInv, PhaseInv, Loading
<1>8. CASE Restart
  <2>1. phase = "start" /\ UNCHANGED <<dirVars, loadVars, dynamic>>
    BY <1>8 DEF Restart, ProcessInv, Gone
  <2>2. PhaseInv' /\ stage = "none" /\ dynamic = NoEntries /\ events = <<>>
    BY <2>1 DEF CurrentInv, PhaseInv, Loading, dirVars, loadVars
  <2>3. ManifestsInv' /\ OvertakenInv' /\ EntriesInv'
    BY <2>1, <2>2 DEF dirVars, loadVars, ManifestsInv, OvertakenInv, EntriesInv, Loading,
                      NoEntries
  <2>4. QED
    BY <2>2, <2>3 DEF CurrentInv
<1>9. ASSUME NEW c \in Callers, CallStep(c) PROVE CurrentInv'
  BY <1>9, QuietCurrent, CallMoves DEF TypeOK, CallTypeOK, lifeVars, dirVars, loadVars
<1>10. QED
  BY <1>1, <1>2, <1>3, <1>4, <1>5, <1>6, <1>7, <1>8, <1>9 DEF Next

\* With every manifest in the file named after its node, the registry holds what
\* the files say whenever the watcher has caught up: files may change, go, come
\* back and break at any step of a load (node.go:84-107, 151-245).
THEOREM RegistryIsCurrent ==
  ASSUME FilePerNode PROVE Spec => []SettledRegistryIsCurrent
<1>1. Init => CurrentInv
  BY InitCurrent
<1>2. TypeOK /\ ProcessInv /\ CurrentInv /\ [Next]_vars => CurrentInv'
  BY StepCurrent
<1>3. TypeOK /\ CurrentInv => SettledRegistryIsCurrent
  <2> SUFFICES ASSUME TypeOK, CurrentInv, Settled
               PROVE  /\ \A f \in Files \ (failed \cup unseen) :
                           files[f] \in Manifest => dynamic[files[f].id] = files[f]
                      /\ \A i \in Ids : dynamic[i] # NoEntry =>
                           \E f \in Files : Stem[f] = i /\ (files[f] # NoFile \/ f \in unseen)
    BY DEF SettledRegistryIsCurrent
  <2>1. todo = {} /\ Len(events) = 0
    BY DEF Settled, CurrentInv, PhaseInv
  <2>2. \A f \in Files : ~Queued(f, 1) /\ ~Dropped(f)
    BY <2>1 DEF Queued, Dropped
  <2>3. \A f \in Files : files[f] \in Manifest => files[f].id = Stem[f]
    BY DEF CurrentInv, PhaseInv, FilePerNode, Manifest
  <2>4. QED
    BY <2>1, <2>2, <2>3 DEF Settled, CurrentInv, ManifestsInv, EntriesInv, Loading
<1>4. QED
  BY <1>1, <1>2, <1>3, TypeCorrect, ProcessesAccounted, PTL DEF Spec

=============================================================================
