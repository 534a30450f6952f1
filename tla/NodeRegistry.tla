----------------------------- MODULE NodeRegistry -----------------------------
(***************************************************************************)
(* node.Registry (internal/node/node.go) in the life of the server         *)
(* (cmd/server/main.go): manifest files, the watcher's events, the         *)
(* goroutine that loads manifests, the node processes it starts            *)
(* (cmd/node-runner), and runs that call a remote node.                    *)
(*                                                                         *)
(* One goroutine loads: LoadManifests before the watch begins, watch       *)
(* afterwards.  A load is several steps, for it may start a process and    *)
(* has to dial it, and files, processes and runs do not wait for it.  The  *)
(* server may be told to stop, or die, at any of these steps; the node     *)
(* processes it leaves behind are still there when it is started again.    *)
(***************************************************************************)
EXTENDS Naturals, Sequences, FiniteSets, SequencesExt

CONSTANTS Files,              \* paths in the manifest directory
          Stem,               \* of a path: its base name without extension
          Ids,                \* node identifiers, and other base names
          Contents,           \* of a path: the manifests its author may write
          NoFile, NoEntry,
          Broken,             \* a file that is not YAML or has no id
          Builtins,           \* ids registered before any manifest is loaded
          Builtin,            \* the entry of such a node
          Elsewhere,          \* the address of what is not started from here
          Callers,            \* tasks whose runs execute nodes
          Chosen,             \* of a caller: the nodes the AI may choose
          MaxEdits, MaxStarts,\* bounds on file changes and process starts
          MaxLives,           \* bound on starts of the server
          MaxRuns, MaxCalls   \* bounds on runs and remote executions of a task

NoProcess == 0

Manifest == [id : Ids, revision : Nat, autostart : BOOLEAN]

ASSUME RegistryAssumption ==
  /\ Stem \in [Files -> Ids]
  /\ Manifest \cap {NoFile, NoEntry, Broken, Builtin} = {}
  /\ NoFile # Broken /\ NoEntry # Builtin
  /\ Builtins \subseteq Ids
  /\ \A f \in Files : Contents[f] \subseteq Manifest \cup {Broken}
  /\ MaxEdits \in Nat /\ MaxStarts \in Nat /\ MaxLives \in Nat \ {0}

ASSUME CallAssumption ==
  /\ Elsewhere \notin Ids
  /\ Chosen \in [Callers -> SUBSET Ids]
  /\ MaxRuns \in Nat \ {0} /\ MaxCalls \in Nat

VARIABLES
  files, events,        \* the directory, and what fsnotify has to tell of it
  server, life,         \* "up", "closed" (its Close is over), "exited", "killed"
  phase, todo,          \* "start", "loading", "watching"; files left to load
  stage, file, manifest,\* the load in progress
  failed,               \* files whose last load failed
  dynamic,              \* entries by id
  processes, reapers,   \* by id: the process the registry knows of; goroutines in Wait
  live, started,        \* processes that run: number, manifest, life of the server
  serving,              \* by id: the process that listens on the node's address
  told,                 \* processes that were sent SIGTERM
  call,                 \* of each caller: its run, and the requests ever sent
  edits,
  unseen                \* auxiliary: files whose last change the registry is not told of

dirVars  == <<files, events, edits, unseen>>
lifeVars == <<server, life>>
loadVars == <<phase, todo, stage, file, manifest, failed>>
osVars   == <<live, started, serving, told>>
procVars == <<processes, reapers, osVars>>
vars     == <<dirVars, lifeVars, loadVars, dynamic, procVars, call>>

NoCall == [at |-> "idle", to |-> Elsewhere, run |-> 1, step |-> 0,
           sent |-> <<>>, done |-> {}]
NoEntries == [i \in Ids |-> NoEntry]
NoProcesses == [i \in Ids |-> NoProcess]

Init ==
  /\ files = [f \in Files |-> NoFile] /\ events = <<>> /\ edits = 0 /\ unseen = {}
  /\ server = "up" /\ life = 1
  /\ phase = "start" /\ todo = {}
  /\ stage = "none" /\ file = NoFile /\ manifest = Broken /\ failed = {}
  /\ dynamic = NoEntries
  /\ processes = NoProcesses /\ reapers = {}
  /\ live = {} /\ started = 0 /\ serving = NoProcesses /\ told = {}
  /\ call = [c \in Callers |-> NoCall]

Alive == server \in {"up", "closed"}

-----------------------------------------------------------------------------
(***************************************************************************)
(* The operator of the system edits the directory.  fsnotify reports what  *)
(* happens after the directory was added to the watcher: a change between  *)
(* the listing of the directory and that moment has no event, and the      *)
(* event of a file that was moved away is ignored.                         *)
(***************************************************************************)
Edit(f, content, op) ==
  /\ edits < MaxEdits
  /\ files' = [files EXCEPT ![f] = content]
  /\ edits' = edits + 1
  /\ events' = IF server = "up" /\ phase = "watching"
               THEN Append(events, [op |-> op, file |-> f]) ELSE events
  /\ unseen' = IF phase = "loading" \/ op = "rename"
               THEN unseen \cup {f} ELSE unseen \ {f}
  /\ UNCHANGED <<lifeVars, loadVars, dynamic, procVars, call>>

WriteFile(f) ==
  \E m \in Contents[f] \ {files[f]} :
    Edit(f, m, IF files[f] = NoFile THEN "create" ELSE "write")

RemoveFile(f) == files[f] # NoFile /\ Edit(f, NoFile, "remove")

\* Moved out of the directory.
RenameFile(f) == files[f] # NoFile /\ Edit(f, NoFile, "rename")

-----------------------------------------------------------------------------
\* LoadManifests: read the directory, load its files one by one, then watch.
ListFiles ==
  /\ Alive /\ phase = "start"
  /\ phase' = "loading"
  /\ todo' = {f \in Files : files[f] # NoFile}
  /\ UNCHANGED <<dirVars, stage, file, manifest, failed, dynamic, procVars, lifeVars,
                 call>>

LoadNext(f) ==
  /\ phase = "loading" /\ stage = "none" /\ f \in todo
  /\ todo' = todo \ {f}
  /\ stage' = "read" /\ file' = f
  /\ UNCHANGED <<dirVars, phase, manifest, failed, dynamic, procVars, lifeVars, call>>

Watch ==
  /\ phase = "loading" /\ stage = "none" /\ todo = {}
  /\ phase' = "watching"
  /\ UNCHANGED <<dirVars, todo, stage, file, manifest, failed, dynamic, procVars,
                 lifeVars, call>>

\* A mutant: only new files are loaded.
LoadsCreated(op) == op = "create"

Loads(op) == op \in {"create", "write"}

\* A removed file takes with it the entries named like the file.
Unload(f) == [i \in Ids |-> IF i = Stem[f] THEN NoEntry ELSE dynamic[i]]

\* One event of the watcher; a rename is none of its business.
HandleEvent ==
  /\ phase = "watching" /\ stage = "none" /\ events # <<>>
  /\ events' = Tail(events)
  /\ LET e == Head(events) IN
       /\ IF Loads(e.op)
          THEN stage' = "read" /\ file' = e.file
          ELSE UNCHANGED <<stage, file>>
       /\ dynamic' = IF e.op = "remove" THEN Unload(e.file) ELSE dynamic
  /\ UNCHANGED <<files, edits, unseen, phase, todo, manifest, failed, procVars,
                 lifeVars, call>>

-----------------------------------------------------------------------------
(***************************************************************************)
(* loadManifest                                                            *)
(***************************************************************************)
\* The load ends with an error; what it had read is gone.
GiveUp ==
  /\ stage' = "none" /\ file' = NoFile /\ manifest' = Broken
  /\ failed' = failed \cup {file}

\* A mutant: what could not be parsed is used as it is.
ReadManifestUnchecked ==
  /\ stage = "read"
  /\ manifest' = files[file]
  /\ stage' = "dial"
  /\ UNCHANGED <<dirVars, phase, todo, file, failed, dynamic, procVars, lifeVars, call>>

\* A mutant: a file that cannot be read is waited for.
ReadManifestInsists ==
  /\ stage = "read" /\ files[file] # NoFile
  /\ IF files[file] = Broken
     THEN GiveUp
     ELSE manifest' = files[file] /\ stage' = "dial" /\ UNCHANGED <<file, failed>>
  /\ UNCHANGED <<dirVars, phase, todo, dynamic, procVars, lifeVars, call>>

\* The file as it is now, not as it was when the event was made.
ReadManifest ==
  /\ stage = "read"
  /\ IF files[file] \in {NoFile, Broken}
     THEN GiveUp
     ELSE /\ manifest' = files[file]
          /\ stage' = IF files[file].autostart THEN "ensure" ELSE "dial"
          /\ UNCHANGED <<file, failed>>
  /\ UNCHANGED <<dirVars, phase, todo, dynamic, procVars, lifeVars, call>>

\* A mutant: a process is started for every load.
KnownNever == FALSE

\* ensureProcess looks for a process of this id.
Known == processes[manifest.id] # NoProcess

EnsureProcess ==
  /\ stage = "ensure"
  /\ stage' = IF Known THEN "dial" ELSE "spawn"
  /\ UNCHANGED <<dirVars, phase, todo, file, manifest, failed, dynamic, procVars,
                 lifeVars, call>>

\* cmd.Start, without the lock.
Spawn ==
  /\ stage = "spawn"
  /\ \/ /\ started < MaxStarts
        /\ started' = started + 1
        /\ live' = live \cup {[number |-> started + 1, runs |-> manifest, life |-> life]}
        /\ stage' = "register"
        /\ UNCHANGED <<file, manifest, failed>>
     \/ /\ GiveUp
        /\ UNCHANGED <<live, started>>
  /\ UNCHANGED <<dirVars, phase, todo, dynamic, processes, reapers,
                 serving, told, lifeVars, call>>

RegisterProcess ==
  /\ stage = "register"
  /\ processes' = [processes EXCEPT ![manifest.id] = started]
  /\ reapers' = reapers \cup {[number |-> started, id |-> manifest.id]}
  /\ stage' = "dial"
  /\ UNCHANGED <<dirVars, phase, todo, file, manifest, failed, dynamic, osVars,
                 lifeVars, call>>

\* The address in a manifest, as far as processes of the registry go.
Address(m) == IF m.autostart THEN m.id ELSE Elsewhere

\* A process answers there; what is not started from here answers or not.
Answers(address) == address # Elsewhere => serving[address] # NoProcess

\* newRemoteNode, up to eight attempts at GetMeta, then the entry; the process
\* may not be there, or not yet.
Dial ==
  /\ stage = "dial"
  /\ \/ /\ Answers(Address(manifest))
        /\ dynamic' = [dynamic EXCEPT ![manifest.id] = manifest]
        /\ failed' = failed \ {file}
        /\ stage' = "none" /\ file' = NoFile /\ manifest' = Broken
     \/ GiveUp /\ UNCHANGED dynamic
  /\ UNCHANGED <<dirVars, lifeVars, phase, todo, procVars, call>>

-----------------------------------------------------------------------------
(***************************************************************************)
(* Node processes: the main function of cmd/node-runner.                   *)
(***************************************************************************)
Ends(p) ==
  /\ live' = live \ {p}
  /\ serving' = [i \in Ids |-> IF serving[i] = p.number THEN NoProcess ELSE serving[i]]

\* net.Listen on the address of the node, which may be taken.
Listen(p) ==
  /\ p \in live /\ serving[p.runs.id] # p.number
  /\ \/ /\ serving[p.runs.id] = NoProcess
        /\ serving' = [serving EXCEPT ![p.runs.id] = p.number]
        /\ UNCHANGED live
     \/ /\ serving[p.runs.id] # NoProcess
        /\ Ends(p)
  /\ UNCHANGED <<dirVars, lifeVars, loadVars, dynamic, processes, reapers, started,
                 told, call>>

\* It ends by itself, or because it was told to.
Exit(p) ==
  /\ p \in live
  /\ Ends(p)
  /\ UNCHANGED <<dirVars, lifeVars, loadVars, dynamic, processes, reapers, started,
                 told, call>>

\* The goroutine in cmd.Wait, some time later; it removes what is registered
\* under the id, whichever process that is.
Reap(w) ==
  /\ w \in reapers /\ \A p \in live : p.number # w.number
  /\ reapers' = reapers \ {w}
  /\ processes' = [processes EXCEPT ![w.id] = NoProcess]
  /\ UNCHANGED <<dirVars, lifeVars, loadVars, dynamic, osVars, call>>

-----------------------------------------------------------------------------
(***************************************************************************)
(* The end of the server, and its next start.                              *)
(***************************************************************************)
\* A mutant: Close forgets the processes without telling them.
CloseWithoutSignal ==
  /\ server = "up" /\ phase = "watching"
  /\ server' = "closed"
  /\ processes' = NoProcesses
  /\ events' = <<>>
  /\ UNCHANGED <<files, edits, unseen, life, loadVars, dynamic, reapers, osVars, call>>

\* The signal that ends main once manifests are loaded: Registry.Close.  The
\* goroutine of the watcher finishes the load it is at, and nothing waits for it.
Close ==
  /\ server = "up" /\ phase = "watching"
  /\ server' = "closed"
  /\ told' = told \cup ({processes[i] : i \in Ids} \ {NoProcess})
  /\ processes' = NoProcesses
  /\ events' = <<>>
  /\ UNCHANGED <<files, edits, unseen, life, loadVars, dynamic, reapers, live, started,
                 serving, call>>

\* What the server has in its memory is gone, with its goroutines and runs; what
\* runs stored and what they sent is not.
Vanish ==
  /\ events' = <<>> /\ unseen' = {}
  /\ phase' = "start" /\ todo' = {}
  /\ stage' = "none" /\ file' = NoFile /\ manifest' = Broken /\ failed' = {}
  /\ dynamic' = NoEntries
  /\ processes' = NoProcesses /\ reapers' = {}
  /\ call' = [c \in Callers |-> [call[c] EXCEPT !.at = "ended", !.to = Elsewhere]]

\* main returns; or the server is killed, as by a signal while LoadManifests is
\* not over.
Leave ==
  /\ Alive
  /\ server' = IF server = "closed" THEN "exited" ELSE "killed"
  /\ Vanish
  /\ UNCHANGED <<files, edits, life, osVars>>

Restart ==
  /\ ~Alive /\ life < MaxLives
  /\ server' = "up" /\ life' = life + 1
  /\ UNCHANGED <<dirVars, loadVars, dynamic, procVars, call>>

-----------------------------------------------------------------------------
(***************************************************************************)
(* Runs execute remote nodes (engine.go:161-214).  A task has one run      *)
(* after another; a run executes one node after another, and its step is   *)
(* the number of executions its task has stored.  A request that was sent  *)
(* travels by itself: it may be carried out after its caller gave up, its  *)
(* run ended or the server died.                                           *)
(***************************************************************************)
\* Registry.Get
Lookup(i) ==
  IF dynamic[i] # NoEntry THEN dynamic[i]
  ELSE IF i \in Builtins THEN Builtin ELSE NoEntry

At(c, place) == call' = [call EXCEPT ![c].at = place, ![c].to = Elsewhere]

\* The head of the loop; the connection is that of the entry as it is now.
Get(c, i) ==
  /\ Alive /\ phase = "watching"
  /\ call[c].at = "idle" /\ Len(call[c].sent) < MaxCalls
  /\ Lookup(i) \notin {NoEntry, Builtin}
  /\ call' = [call EXCEPT ![c].at = "got", ![c].to = Address(Lookup(i))]
  /\ UNCHANGED <<dirVars, lifeVars, loadVars, dynamic, procVars>>

\* remoteNode.CheckBefore: an error of the call is a rejection, and the run goes
\* on; once it is answered, remoteNode.Execute sends its request.
Ask(c) ==
  /\ call[c].at = "got"
  /\ LET request == [run |-> call[c].run, step |-> call[c].step, to |-> call[c].to] IN
       \/ /\ Answers(call[c].to)
          /\ call' = [call EXCEPT ![c].at = "sent", ![c].to = Elsewhere,
                                  ![c].sent = Append(@, request)]
       \/ At(c, "idle")
  /\ UNCHANGED <<dirVars, lifeVars, loadVars, dynamic, procVars>>

\* The process carries a request out, whether or not anyone still waits.
Perform(c, k) ==
  /\ k \in DOMAIN call[c].sent \ call[c].done /\ Answers(call[c].sent[k].to)
  /\ call' = [call EXCEPT ![c].done = @ \cup {k}]
  /\ UNCHANGED <<dirVars, lifeVars, loadVars, dynamic, procVars>>

\* The result arrives.  A success is merged and stored (TaskEngine has these writes
\* one by one): the run goes on when all is stored, and ends with an error before
\* or after its snapshot is; Success = false ends it too.
Receive(c) ==
  /\ call[c].at = "sent" /\ Len(call[c].sent) \in call[c].done
  /\ \/ \E place \in {"idle", "ended"} :
          call' = [call EXCEPT ![c].at = place, ![c].step = @ + 1]
     \/ At(c, "ended")
  /\ UNCHANGED <<dirVars, lifeVars, loadVars, dynamic, procVars>>

\* A mutant: as with CheckBefore, the run goes on.
CallErrorRejected(c) ==
  /\ call[c].at = "sent"
  /\ At(c, "idle")
  /\ UNCHANGED <<dirVars, lifeVars, loadVars, dynamic, procVars>>

\* The timeout of the manifest, a broken connection: the run ends, and the
\* request may still be under way, or a result on its way back.
CallError(c) ==
  /\ call[c].at = "sent"
  /\ At(c, "ended")
  /\ UNCHANGED <<dirVars, lifeVars, loadVars, dynamic, procVars>>

\* A client resumes the task once its run is over, whether it failed or left its
\* loop of itself: a new run at the stored step.
ResumeRun(c) ==
  /\ server = "up" /\ call[c].at \in {"idle", "ended"} /\ call[c].run < MaxRuns
  /\ call' = [call EXCEPT ![c].at = "idle", ![c].run = @ + 1]
  /\ UNCHANGED <<dirVars, lifeVars, loadVars, dynamic, procVars>>

CallStep(c) ==
  \/ \E i \in Chosen[c] : Get(c, i)
  \/ \E k \in DOMAIN call[c].sent : Perform(c, k)
  \/ Ask(c) \/ Receive(c) \/ CallError(c) \/ ResumeRun(c)

-----------------------------------------------------------------------------
LoadStep ==
  \/ ListFiles \/ (\E f \in Files : LoadNext(f)) \/ Watch \/ HandleEvent
  \/ ReadManifest \/ EnsureProcess \/ Spawn \/ RegisterProcess \/ Dial

Next ==
  \/ \E f \in Files : WriteFile(f) \/ RemoveFile(f) \/ RenameFile(f)
  \/ LoadStep
  \/ \E p \in live : Listen(p) \/ Exit(p)
  \/ \E w \in reapers : Reap(w)
  \/ Close \/ Leave \/ Restart
  \/ \E c \in Callers : CallStep(c)

Spec == Init /\ [][Next]_vars

\* The loading goroutine is scheduled; starts and dials are bounded in time.
FairSpec == Spec /\ WF_vars(LoadStep)

-----------------------------------------------------------------------------
Request == [run : 1..MaxRuns, step : Nat, to : Ids \cup {Elsewhere}]

Call == [at : {"idle", "got", "sent", "ended"},
         to : Ids \cup {Elsewhere}, run : 1..MaxRuns, step : Nat,
         sent : Seq(Request), done : SUBSET Nat]

DirTypeOK ==
  /\ files \in [Files -> Manifest \cup {Broken, NoFile}]
  /\ events \in Seq([op : {"create", "write", "remove", "rename"}, file : Files])
  /\ edits \in 0..MaxEdits /\ unseen \subseteq Files

LoadTypeOK ==
  /\ server \in {"up", "closed", "exited", "killed"} /\ life \in 1..MaxLives
  /\ phase \in {"start", "loading", "watching"}
  /\ todo \subseteq Files /\ failed \subseteq Files
  /\ stage \in {"none", "read", "ensure", "spawn", "register", "dial"}
  /\ stage # "none" => file \in Files
  /\ stage \in {"ensure", "spawn", "register", "dial"} => manifest \in Manifest
  /\ stage = "register" => started # NoProcess

ProcTypeOK ==
  /\ processes \in [Ids -> 0..MaxStarts]
  /\ reapers \subseteq [number : 1..MaxStarts, id : Ids]
  /\ live \subseteq [number : 1..MaxStarts, runs : Manifest, life : 1..MaxLives]
  /\ started \in 0..MaxStarts
  /\ serving \in [Ids -> 0..MaxStarts] /\ told \subseteq 1..MaxStarts

CallTypeOK ==
  /\ dynamic \in [Ids -> Manifest \cup {NoEntry}]
  /\ call \in [Callers -> Call]

\* Types of all variables; whatever a file holds, only a manifest gets past
\* reading it (node.go:78-107, 213-245).
TypeOK == DirTypeOK /\ LoadTypeOK /\ ProcTypeOK /\ CallTypeOK

Settled == server = "up" /\ phase = "watching" /\ stage = "none" /\ events = <<>>

\* When the watcher has caught up, the registry holds what the files say: every
\* manifest as it was last written, unless its load failed, and none of a file
\* that is gone.  A file that changes while it is loaded, or goes while its
\* process is dialled, is caught up with; only changes made before the watch
\* began and files that were moved away may be missed (node.go:151-245).
SettledRegistryIsCurrent ==
  Settled =>
    /\ \A f \in Files \ (failed \cup unseen) :
         files[f] \in Manifest => dynamic[files[f].id] = files[f]
    /\ \A i \in Ids : dynamic[i] # NoEntry =>
         \E f \in Files : Stem[f] = i /\ (files[f] # NoFile \/ f \in unseen)

\* A node has one process that nobody told to end, though it exits and is
\* reloaded at any moment and the server closes in between; what an earlier life
\* of the server left behind aside (node.go:109-122, 247-273).
OneProcessPerNode ==
  \A p, q \in live :
    p.runs.id = q.runs.id /\ p.life = q.life /\ {p.number, q.number} \cap told = {} => p = q

\* A server that closed leaves at most one process of its own behind untold: the
\* one of the load its watcher was at (node.go:109-122, 186-194, 247-273).
CloseLeavesAtMostOne ==
  server \in {"closed", "exited"} =>
    Cardinality({p \in live : p.life = life /\ p.number \notin told}) <= 1

\* A run asks for one step of its task at a time: when it sends a request, those
\* it sent before were for earlier steps and have been carried out, though calls
\* fail while their requests travel; and every step a task has stored was carried
\* out by a remote node, whichever runs, processes and lives of the server there
\* were in between.  A late request of an earlier run may well be carried out
\* beside those of the next (engine.go:161-214, node.go:346-369).
RemoteWorkIsInStep ==
  \A c \in Callers : LET sent == call[c].sent  done == call[c].done IN
    /\ \A j, k \in DOMAIN sent : j < k /\ sent[j].run = sent[k].run =>
         j \in done /\ sent[j].step < sent[k].step
    /\ \A n \in 0..(call[c].step - 1) : \E k \in done : sent[k].step = n

\* A server that is up gets through its manifests and the events of the watcher,
\* though files change and vanish while it loads them, once they are left alone
\* (node.go:158-245).
RegistryCatchesUp == server = "up" ~> Settled \/ server # "up"

=============================================================================
