--------------------------- MODULE AndroidService ---------------------------
(***************************************************************************)
(* Android: VolterVpnService.kt over the core, android/core/bind.go.  The  *)
(* service's main thread handles start, stop and destroy; every start has  *)
(* a worker thread that establishes the TUN device and starts a session of *)
(* the core, and every session has a goroutine.  The service keeps one     *)
(* handle and one descriptor, the core one socket hook, one protector and  *)
(* one log writer for all of them.                                         *)
(*                                                                         *)
(* The session that worker w starts, and its descriptor, are called w too. *)
(* A generation is a flag: the worker was started after the last command.  *)
(***************************************************************************)
EXTENDS Integers, Sequences

CONSTANTS
    Plans,        \* bound: the modes of the starts of a behaviour, in turn
    Instances     \* bound: instances of the service

ASSUME AndroidBounds ==
    /\ \A p \in Plans : Len(p) > 0 /\ \A i \in 1 .. Len(p) : p[i] \in {"tun", "proxy", "dpi"}
    /\ Instances \in Nat \ {0}

VARIABLES
    svc,          \* instance -> coreHandle, tunFd (0: none), sessionAbort, stopSelf was called
    now,          \* the present instance
    main,         \* the main thread: where stopActive is, for which command, the handle it read
    work,         \* the workers: stage, mode, instance, generation is the present one
    sess,         \* the sessions: stage, cancelled, the log writer to restore,
                  \* Run failed before it opened the device
    fds,          \* open TUN descriptors
    core,         \* sockprotect.Protect, socketProtector, log writer (0: the standard one)
    upset         \* history: a handle was "lost"; a session started with another in the
                  \* map ("overlap"); a wait ran out, or a stale worker or two at a time
                  \* started sessions ("unwaited"); a self-test ran ("test")

androidVars == <<svc, now, main, work, sess, fds, core, upset>>

Worker == DOMAIN work
AtRest == [at |-> "idle", then |-> "none", h |-> 0]
NoSession == [at |-> "none", cancelled |-> FALSE, old |-> 0, unopened |-> FALSE]
Gone == [NoSession EXCEPT !.at = "gone"]

AndroidInit ==
    /\ svc = [i \in 1 .. Instances + 1 |-> [handle |-> 0, fd |-> 0, abort |-> FALSE, stop |-> FALSE]]
    /\ now = 1 /\ main = AtRest
    /\ \E plan \in Plans :
         /\ work = [w \in 1 .. Len(plan) |-> [at |-> "none", mode |-> plan[w], inst |-> 1, recent |-> FALSE]]
         /\ sess = [w \in 1 .. Len(plan) |-> NoSession]
    /\ fds = {} /\ core = [hook |-> FALSE, protector |-> FALSE, writer |-> 0]
    /\ upset = {}

Mine(w) == svc[work[w].inst]
IsActiveGeneration(w) == work[w].recent /\ ~Mine(w).abort

----------------------------------------------------------------------------
\* The core.

\* Mutant: a session leaves the map as soon as Run has returned.
InMapWhileRunning(h) == sess[h].at \in {"set up", "new", "run"}

\* getSession: it is in the map, and PollState says it runs, until its goroutine
\* has cleaned up.
InMap(h) == sess[h].at \in {"set up", "new", "run", "unhooked"}

\* Stop; an unknown handle is left alone.
Cancelled(h) == [k \in Worker |-> IF k = h /\ InMap(h) THEN [sess[k] EXCEPT !.cancelled = TRUE] ELSE sess[k]]

Upset(what, when) == upset' = upset \cup (IF when THEN {what} ELSE {})
CoreFree == \A v \in Worker : work[v].at # "serve"
Others(h) == {k \in Worker \ {h} : InMap(k)}
Undecided == {k \in Worker : work[k].at \in {"serve", "got", "hold", "check"}}

\* logSetup; a start holds globalMu from its first line to its last (CoreFree).
LogSetup(w, at) ==
    /\ sess' = [sess EXCEPT ![w] = [NoSession EXCEPT !.at = at, !.old = core.writer]]
    /\ core' = [core EXCEPT !.writer = w]
    /\ upset' = upset \cup (IF Others(w) # {} THEN {"overlap"} ELSE {})
                      \cup (IF IsActiveGeneration(w) /\ Undecided = {} THEN {} ELSE {"unwaited"})

\* The goroutine of a session: the hook, then Run, which returns when it is
\* cancelled, or fails, or its watchdog gives up.
Launch(h) ==
    /\ sess[h].at = "new"
    /\ sess' = [sess EXCEPT ![h].at = "run"]
    /\ core' = [core EXCEPT !.hook = @ \/ work[h].mode # "dpi"]
    /\ UNCHANGED <<svc, now, main, work, fds, upset>>

\* vpn.Run closes the descriptor if it got as far as to open the device.  The
\* deferred calls: the hook goes first ...
RunReturns(h) ==
    /\ sess[h].at = "run" /\ (work[h].mode = "dpi" => sess[h].cancelled)
    /\ core' = [core EXCEPT !.hook = @ /\ work[h].mode = "dpi"]
    /\ \E opened \in BOOLEAN :
         /\ opened \/ work[h].mode = "tun"
         /\ sess' = [sess EXCEPT ![h].at = "unhooked", ![h].unopened = ~opened]
         /\ fds' = IF opened THEN fds \ {h} ELSE fds
    /\ UNCHANGED <<svc, now, main, work, upset>>

\* ... then the log writer is what it was before, and the session is deleted.
CleanUp(h) ==
    /\ sess[h].at = "unhooked"
    /\ sess' = [sess EXCEPT ![h] = [Gone EXCEPT !.unopened = sess[h].unopened]]
    /\ core' = [core EXCEPT !.writer = sess[h].old]
    /\ UNCHANGED <<svc, now, main, work, fds, upset>>

\* MeshSelfTest and RefreshClusterServers install the same hook, and take it
\* away when they are done, whosever it is by then.
SelfTest ==
    /\ core.hook /\ core' = [core EXCEPT !.hook = FALSE]
    /\ upset' = upset \cup {"test"}
    /\ UNCHANGED <<svc, now, main, work, sess, fds>>

----------------------------------------------------------------------------
\* The main thread.

Aged == [w \in Worker |-> [work[w] EXCEPT !.recent = FALSE]]
Deciding == {w \in Worker : work[w].at \in {"hold", "check"}}

Command(then) == main' = [at |-> "begin", then |-> then, h |-> 0] /\ Upset("lost", Deciding # {})
Listening == main = AtRest /\ now <= Instances

\* A start stops what there is before it begins a generation of its own; it
\* may have been on its way when the service stopped itself.
OnStart ==
    /\ Listening /\ \E w \in Worker : work[w].at = "none"
    /\ Command("start")
    /\ UNCHANGED <<svc, now, work, sess, fds, core>>

\* A start without a usable profile.
OnStartEmpty ==
    /\ Listening /\ ~svc[now].stop
    /\ svc' = [svc EXCEPT ![now].stop = TRUE]
    /\ UNCHANGED <<now, main, work, sess, fds, core, upset>>

OnStop ==
    /\ Listening /\ ~svc[now].stop
    /\ Command("stop")
    /\ svc' = [svc EXCEPT ![now].abort = TRUE]
    /\ work' = Aged
    /\ UNCHANGED <<now, sess, fds, core>>

\* After stopSelf the system destroys the instance.
OnDestroy ==
    /\ Listening /\ svc[now].stop
    /\ Command("destroy")
    /\ work' = Aged
    /\ UNCHANGED <<svc, now, sess, fds, core>>

\* stopActive up to its wait: protector, handle, and the descriptor if there
\* is no session to close it.
StopActive ==
    LET h == svc[now].handle
    IN  /\ main.at = "begin"
        /\ main' = [main EXCEPT !.at = IF h # 0 THEN "wait" ELSE "clear", !.h = h]
        /\ core' = [core EXCEPT !.protector = FALSE]
        /\ sess' = Cancelled(h)
        /\ fds' = IF h = 0 THEN fds \ {svc[now].fd} ELSE fds
        /\ UNCHANGED <<svc, now, work, upset>>

\* waitCoreStopped: the session has ended, or a second is over.
WaitCoreStopped ==
    /\ main.at = "wait"
    /\ main' = [main EXCEPT !.at = "clear"]
    /\ Upset("unwaited", InMap(main.h))
    /\ UNCHANGED <<svc, now, work, sess, fds, core>>

\* The rest of stopActive and, of a stop or a destroy, of the command.
ClearFields ==
    /\ main.at = "clear"
    /\ main' = IF main.then = "start" THEN [main EXCEPT !.at = "begin anew"] ELSE AtRest
    /\ svc' = [svc EXCEPT ![now] = [svc[now] EXCEPT !.handle = 0, !.fd = 0, !.stop = @ \/ main.then = "stop"]]
    /\ now' = IF main.then = "destroy" THEN now + 1 ELSE now
    /\ UNCHANGED <<work, sess, fds, core, upset>>

\* A start begins a generation, and its worker.
BeginGeneration ==
    /\ main.at = "begin anew" /\ main' = AtRest
    /\ svc' = [svc EXCEPT ![now].abort = FALSE]
    /\ \E w \in Worker :
         /\ work[w].at = "none" /\ \A v \in 1 .. w - 1 : work[v].at # "none"
         /\ work' = [Aged EXCEPT ![w] = [@ EXCEPT !.at = "probe", !.inst = now, !.recent = TRUE]]
    /\ UNCHANGED <<now, sess, fds, core, upset>>

----------------------------------------------------------------------------
\* The workers.

To(w, at) == work' = [work EXCEPT ![w].at = at]
SetMine(w, fields) == svc' = [svc EXCEPT ![work[w].inst] = fields]

\* An error of any stage: the service stops itself, unless the worker is stale.
WorkerFails(w) ==
    /\ work[w].at \in {"probe", "build", "establish", "start", "serve"} /\ To(w, "over")
    /\ work[w].at = "start" => CoreFree
    /\ IF work[w].at = "start" /\ work[w].mode = "tun" THEN fds' = fds \ {w} ELSE UNCHANGED fds
    /\ SetMine(w, [Mine(w) EXCEPT !.fd = IF work[w].at = "start" /\ work[w].mode = "tun" THEN 0 ELSE @,
                               !.stop = @ \/ IsActiveGeneration(w)])
    /\ IF work[w].at = "serve"
         THEN sess' = [sess EXCEPT ![w] = Gone] /\ core' = [core EXCEPT !.writer = sess[w].old]
         ELSE UNCHANGED <<sess, core>>
    /\ UNCHANGED <<now, main, upset>>

\* configAfterTcpOnlyProbe, and the first look at the generation.
Probed(w) ==
    /\ work[w].at = "probe" /\ To(w, IF IsActiveGeneration(w) THEN "install" ELSE "over")
    /\ UNCHANGED <<svc, now, main, sess, fds, core, upset>>

InstallProtector(w) ==
    /\ work[w].at = "install" /\ To(w, IF work[w].mode = "tun" THEN "build" ELSE "start")
    /\ core' = [core EXCEPT !.protector = TRUE]
    /\ UNCHANGED <<svc, now, main, sess, fds, upset>>

\* Routes and addresses are resolved; a stale worker ends the whole service.
Built(w) ==
    /\ work[w].at = "build"
    /\ IF IsActiveGeneration(w)
         THEN To(w, "establish") /\ UNCHANGED svc
         ELSE To(w, "over") /\ SetMine(w, [Mine(w) EXCEPT !.stop = TRUE])
    /\ UNCHANGED <<now, main, sess, fds, core, upset>>

Establish(w) ==
    /\ work[w].at = "establish" /\ To(w, "look")
    /\ fds' = fds \cup {w} /\ SetMine(w, [Mine(w) EXCEPT !.fd = w])
    /\ UNCHANGED <<now, main, sess, core, upset>>

Look(w) ==
    /\ work[w].at = "look"
    /\ IF IsActiveGeneration(w)
         THEN To(w, "start") /\ UNCHANGED <<svc, fds>>
         ELSE To(w, "over") /\ fds' = fds \ {w} /\ SetMine(w, [Mine(w) EXCEPT !.fd = 0, !.stop = TRUE])
    /\ UNCHANGED <<now, main, sess, core, upset>>

\* StartTun, StartProxy and StartStandaloneDpi; the last one listens before it
\* returns, and takes everything back if it cannot.
StartCore(w) ==
    /\ work[w].at = "start" /\ CoreFree
    /\ IF work[w].mode = "dpi" THEN To(w, "serve") /\ LogSetup(w, "set up") ELSE To(w, "got") /\ LogSetup(w, "new")
    /\ UNCHANGED <<svc, now, main, fds>>

Serve(w) ==
    /\ work[w].at = "serve" /\ To(w, "got")
    /\ sess' = [sess EXCEPT ![w].at = "new"]
    /\ UNCHANGED <<svc, now, main, fds, core, upset>>

\* Mutant: a stale worker forgets its session.
GotForgets(w) ==
    /\ work[w].at = "got"
    /\ IF IsActiveGeneration(w) THEN To(w, "hold") ELSE To(w, "over")
    /\ UNCHANGED <<svc, now, main, sess, fds, core, upset>>

\* The handle is there: a stale worker stops its session, and in TUN mode
\* resets the service's handle, whosever it is, and ends the service.
GotHandle(w) ==
    /\ work[w].at = "got"
    /\ IF IsActiveGeneration(w)
         THEN /\ To(w, "hold") /\ Upset("lost", main.at # "idle") /\ UNCHANGED <<svc, sess>>
         ELSE /\ To(w, "over") /\ sess' = Cancelled(w)
              /\ upset' = upset \cup {"unwaited"} \cup (IF work[w].mode = "tun" /\ Mine(w).handle # 0 THEN {"lost"} ELSE {})
              /\ IF work[w].mode = "tun"
                   THEN SetMine(w, [Mine(w) EXCEPT !.handle = 0, !.fd = 0, !.stop = TRUE])
                   ELSE UNCHANGED svc
    /\ UNCHANGED <<now, main, fds, core>>

HoldHandle(w) ==
    /\ work[w].at = "hold" /\ To(w, "check")
    /\ SetMine(w, [Mine(w) EXCEPT !.handle = w])
    /\ UNCHANGED <<now, main, sess, fds, core, upset>>

\* The last look: in TUN mode at the generation, else only at the abort.  What
\* is stopped is what the field holds by now.
CheckHandle(w) ==
    LET stale == IF work[w].mode = "tun" THEN ~IsActiveGeneration(w) ELSE Mine(w).abort
    IN  /\ work[w].at = "check" /\ To(w, "over")
        /\ IF stale
             THEN /\ sess' = Cancelled(Mine(w).handle)
                  /\ SetMine(w, [Mine(w) EXCEPT !.handle = 0, !.fd = IF work[w].mode = "tun" THEN 0 ELSE @, !.stop = TRUE])
             ELSE UNCHANGED <<sess, svc>>
        /\ UNCHANGED <<now, main, fds, core, upset>>

----------------------------------------------------------------------------
WorkerSteps(w) ==
    \/ WorkerFails(w) \/ Probed(w) \/ InstallProtector(w) \/ Built(w) \/ Establish(w) \/ Look(w)
    \/ StartCore(w) \/ Serve(w) \/ GotHandle(w) \/ HoldHandle(w) \/ CheckHandle(w)
SessionSteps(h) == Launch(h) \/ RunReturns(h) \/ CleanUp(h)

AndroidNext ==
    \/ OnStart \/ OnStartEmpty \/ OnStop \/ OnDestroy
    \/ StopActive \/ WaitCoreStopped \/ ClearFields \/ BeginGeneration
    \/ \E w \in Worker : WorkerSteps(w) \/ SessionSteps(w)
    \/ SelfTest

AndroidSpec == AndroidInit /\ [][AndroidNext]_androidVars

----------------------------------------------------------------------------
Runs(h) == sess[h].at \in {"set up", "new", "run"} /\ ~sess[h].cancelled

\* A session that nobody has stopped can be stopped: the service has its
\* handle or the worker that started it is still looking after it; and a TUN
\* descriptor that is open is in the hands of a worker or a session, which
\* will close it, unless Run failed before it opened the device
\* (VolterVpnService.kt:190-212, 418-444; vpn.go:137-140).  The handle is lost
\* only if a command came while a worker was between its last two looks, or a
\* stale TUN worker reset the field of a newer one.
SessionsReachable ==
    /\ "lost" \notin upset =>
         \A h \in Worker : Runs(h) => svc[now].handle = h \/ work[h].at \in {"serve", "got", "hold", "check"}
    /\ \A h \in fds : \/ work[h].at \in {"look", "start"} \/ sess[h].at \in {"new", "run"}
                      \/ sess[h].unopened

\* The hook, the log writer and the protector belong to the session that runs,
\* and nothing of a session stays behind, as long as sessions did not overlap
\* and no self-test ran beside one; and stopActive lets sessions overlap only
\* when its wait ran out, when a handle was lost, or when a stale worker's
\* session, for which nobody waits, is still ending (bind.go:68-83, 193-204,
\* 329-345).
GlobalsOwned ==
    /\ upset \cap {"overlap", "test"} = {} =>
         /\ \A h \in Worker : sess[h].at = "run" /\ work[h].mode # "dpi" => core.hook
         /\ \A h \in Worker : sess[h].at \in {"new", "run"} => core.writer = h
         /\ (\A h \in Worker : sess[h].at \in {"none", "gone"}) => core.writer = 0 /\ ~core.hook
    /\ main = AtRest /\ "lost" \notin upset => \A h \in Worker : Runs(h) /\ work[h].recent => core.protector
    /\ "overlap" \in upset => upset \cap {"unwaited", "lost"} # {}

=============================================================================
