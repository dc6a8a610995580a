------------------------ MODULE AndroidServiceProofs ------------------------
(***************************************************************************)
(* Proof, for any sequence of starts and any number of instances of the    *)
(* service, that a session nobody has stopped can be stopped, that every   *)
(* open TUN descriptor has an owner, and that the globals of the core      *)
(* belong to the session that runs.                                        *)
(***************************************************************************)
EXTENDS AndroidService, TLAPS

\* A worker before it has started its session, and while its session may be
\* the one the service does not know yet.
Early == {"none", "probe", "install", "build", "establish", "look", "start"}
Minding == {"serve", "got", "hold", "check"}
Protected == {"build", "establish", "look", "start"} \cup Minding
WorkStage == Early \cup Minding \cup {"over"}
SessStage == {"none", "set up", "new", "run", "unhooked", "gone"}
MainStage == {"idle", "begin", "wait", "clear", "begin anew"}

WorkRec == [at : WorkStage, mode : {"tun", "proxy", "dpi"}, inst : 1 .. Instances + 1, recent : BOOLEAN]
SessRec == [at : SessStage, cancelled : BOOLEAN, old : Nat, unopened : BOOLEAN]
SvcRec == [handle : Nat, fd : Nat, abort : BOOLEAN, stop : BOOLEAN]

AndroidTypeOK ==
    /\ Worker \subseteq Nat \ {0}
    /\ work \in [Worker -> WorkRec] /\ sess \in [Worker -> SessRec]
    /\ svc \in [1 .. Instances + 1 -> SvcRec]
    /\ now \in 1 .. Instances + 1
    /\ main \in [at : MainStage, then : {"none", "start", "stop", "destroy"}, h : Nat]
    /\ fds \subseteq Worker
    /\ core \in [hook : BOOLEAN, protector : BOOLEAN, writer : Nat]
    /\ upset \subseteq {"lost", "overlap", "unwaited", "test"}

\* The main thread: at rest exactly when no command is being carried out; only
\* a start gets as far as a new generation.
MainInv ==
    /\ main.at = "idle" <=> main = AtRest
    /\ main.at # "idle" => now <= Instances /\ main.then # "none"
    /\ main.at = "begin anew" => main.then = "start"

\* A worker and its session go together.
StageInv ==
    \A w \in Worker :
      /\ work[w].at \in Early => sess[w] = NoSession
      /\ work[w].at = "serve" <=> sess[w].at = "set up"
      /\ work[w].at = "serve" => work[w].mode = "dpi"
      /\ work[w].at \in {"build", "establish", "look"} \/ w \in fds => work[w].mode = "tun"

\* At most one worker is of the present generation; it serves the present
\* instance, and a stop or a destroy leaves none.
RecentInv ==
    /\ \A v, w \in Worker : work[v].recent /\ work[w].recent => v = w
    /\ \A w \in Worker : work[w].recent => work[w].inst = now /\ work[w].at # "none"
    /\ main.then \in {"stop", "destroy"} => \A w \in Worker : ~work[w].recent

\* A handle is that of a worker that has given it away.
HandleInv ==
    \A i \in DOMAIN svc : svc[i].handle # 0 =>
      svc[i].handle \in Worker /\ work[svc[i].handle].at \in {"check", "over"}

\* An open descriptor is in the hands of a worker or a session, or Run failed
\* before it opened the device.
FdInv ==
    \A h \in fds : \/ work[h].at \in {"look", "start"} \/ sess[h].at \in {"new", "run"}
                   \/ sess[h].unopened

\* As long as no handle was lost: the field belongs to the present generation;
\* a worker between its last two looks is alone with it; and the main thread,
\* once it has stopped what the field names, leaves nothing there to be lost.
KeptInv ==
    "lost" \notin upset =>
      /\ \A w \in Worker : work[w].recent => svc[now].handle \in {0, w}
      /\ \A w \in Deciding : work[w].recent /\ main = AtRest /\ ~svc[now].abort
      /\ \A w \in Worker : work[w].at = "check" => svc[now].handle = w
      /\ main.at \in {"wait", "clear"} => main.h = svc[now].handle
      /\ main.at = "begin anew" => svc[now].handle = 0
      /\ \A h \in Worker : Runs(h) =>
           \/ work[h].at \in Minding
           \/ svc[now].handle = h /\ main.at \notin {"wait", "clear"}

\* If moreover every wait was long enough, only the session the field names is
\* in the core's map, besides those whose workers mind them.
WaitedInv ==
    upset \cap {"lost", "unwaited"} = {} =>
      \A h \in Worker : InMap(h) =>
        \/ work[h].at \in Minding
        \/ svc[now].handle = h /\ main.at # "clear"

\* Alone in the map, a session owns the log writer and the hook.
CoreInv ==
    upset \cap {"overlap", "test"} = {} =>
      /\ \A g, h \in Worker : InMap(g) /\ InMap(h) => g = h
      /\ \A h \in Worker : InMap(h) => core.writer = h /\ sess[h].old = 0
      /\ (\A h \in Worker : ~InMap(h)) => core.writer = 0
      /\ core.hook <=> \E h \in Worker : sess[h].at = "run" /\ work[h].mode # "dpi"

\* While no command has taken it away, the protector is there for the present
\* generation.
ProtectInv ==
    main.at \in {"idle", "begin"} =>
      \A w \in Worker : work[w].recent /\ (InMap(w) \/ work[w].at \in Protected) => core.protector

OverlapInv == "overlap" \in upset => upset \cap {"unwaited", "lost"} # {}

AndroidInv ==
    /\ AndroidTypeOK /\ MainInv /\ StageInv /\ RecentInv /\ HandleInv /\ FdInv
    /\ KeptInv /\ WaitedInv /\ CoreInv /\ ProtectInv /\ OverlapInv

----------------------------------------------------------------------------
\* One worker moves.
LEMMA Moves ==
    ASSUME AndroidTypeOK, NEW w \in Worker, NEW a \in WorkStage, To(w, a)
    PROVE  /\ Worker' = Worker /\ work' \in [Worker -> WorkRec]
           /\ work'[w].at = a
           /\ \A v \in Worker : v # w => work'[v] = work[v]
           /\ \A v \in Worker : /\ work'[v].mode = work[v].mode /\ work'[v].inst = work[v].inst
                                /\ work'[v].recent = work[v].recent
BY DEF AndroidTypeOK, Worker, To, WorkRec

\* An early worker has no session.
LEMMA EarlyHasNone ==
    ASSUME StageInv, NEW w \in Worker, work[w].at \in Early
    PROVE  sess[w].at = "none" /\ ~sess[w].unopened /\ ~InMap(w) /\ ~Runs(w)
<1>1. sess[w] = NoSession
  BY DEF StageInv
<1>2. sess[w].at = "none" /\ ~sess[w].unopened
  BY <1>1 DEF NoSession
<1> QED BY <1>2 DEF InMap, Runs

\* The parts of the invariant that speak of the main thread and of generations
\* only do not mind how far a worker is.
LEMMA WorkerLeavesMain ==
    ASSUME AndroidInv, NEW w \in Worker, NEW a \in WorkStage \ {"none"}, To(w, a), UNCHANGED <<now, main>>
    PROVE  MainInv' /\ RecentInv'
<1>t. AndroidTypeOK /\ MainInv /\ RecentInv
  BY DEF AndroidInv
<1>m. /\ Worker' = Worker /\ work'[w].at = a
      /\ \A v \in Worker : v # w => work'[v] = work[v]
      /\ \A v \in Worker : work'[v].inst = work[v].inst /\ work'[v].recent = work[v].recent
  BY <1>t, Moves
<1>1. MainInv'
  BY <1>t DEF MainInv
<1>2. RecentInv'
  BY <1>m, <1>t DEF RecentInv
<1> QED BY <1>1, <1>2

\* What a worker does before its session: the service's handle and abort flag,
\* the sessions and the history stay as they are.
LEMMA EarlySteps ==
    ASSUME AndroidInv, NEW w \in Worker, NEW a \in (Early \ {"none"}) \cup {"over"}, To(w, a), work[w].at \in Early,
           UNCHANGED <<now, main, sess, upset>>,
           a \in {"build", "establish", "look"} => work[w].mode = "tun",
           svc' \in [1 .. Instances + 1 -> SvcRec],
           \A i \in 1 .. Instances + 1 : svc'[i].handle = svc[i].handle /\ svc'[i].abort = svc[i].abort,
           core' \in [hook : BOOLEAN, protector : BOOLEAN, writer : Nat],
           core'.hook = core.hook, core'.writer = core.writer, core.protector => core'.protector,
           a \in Protected => work[w].at \in Protected \/ core'.protector,
           fds' \subseteq fds \cup {w}, w \in fds' => a \in {"look", "start"} /\ work[w].mode = "tun"
    PROVE  AndroidInv'
<1>t. /\ AndroidTypeOK /\ MainInv /\ StageInv /\ RecentInv /\ HandleInv /\ FdInv
      /\ KeptInv /\ WaitedInv /\ CoreInv /\ ProtectInv /\ OverlapInv
  BY DEF AndroidInv
<1>a. a \in WorkStage \ {"none"}
  BY DEF WorkStage, Early
<1>m. /\ Worker' = Worker /\ work' \in [Worker -> WorkRec]
      /\ work'[w].at = a
      /\ \A v \in Worker : v # w => work'[v] = work[v]
      /\ \A v \in Worker : /\ work'[v].mode = work[v].mode /\ work'[v].inst = work[v].inst
                           /\ work'[v].recent = work[v].recent
  BY <1>a, <1>t, Moves
<1>n. sess[w] = NoSession /\ ~InMap(w) /\ ~Runs(w) /\ work[w].at \notin Minding /\ a \notin Minding
  <2>1. sess[w] = NoSession
    BY <1>t DEF StageInv
  <2>2. sess[w].at = "none"
    BY <2>1 DEF NoSession
  <2>3. ~InMap(w) /\ ~Runs(w)
    BY <2>2 DEF InMap, Runs
  <2>4. work[w].at \notin Minding /\ a \notin Minding
    BY DEF Early, Minding
  <2> QED BY <2>1, <2>3, <2>4
<1>r. \A h \in Worker : InMap(h)' = InMap(h) /\ Runs(h)' = Runs(h)
  BY DEF InMap, Runs
<1>1. AndroidTypeOK'
  BY <1>t, <1>m DEF AndroidTypeOK
<1>2. MainInv' /\ RecentInv'
  BY <1>a, WorkerLeavesMain
<1>3. StageInv'
  <2>1. sess[w].at = "none" /\ sess[w].at # "set up"
    BY <1>n DEF NoSession
  <2>2. a # "serve" /\ work[w].at # "serve"
    BY <1>n DEF Minding
  <2>3. \A v \in Worker : v # w /\ v \in fds' => v \in fds
    OBVIOUS
  <2> SUFFICES ASSUME NEW v \in Worker
               PROVE  /\ work'[v].at \in Early => sess[v] = NoSession
                      /\ work'[v].at = "serve" <=> sess[v].at = "set up"
                      /\ work'[v].at = "serve" => work'[v].mode = "dpi"
                      /\ work'[v].at \in {"build", "establish", "look"} \/ v \in fds' => work'[v].mode = "tun"
    BY <1>m DEF StageInv
  <2>4. CASE v = w
    BY <2>1, <2>2, <2>4, <1>m, <1>n
  <2>5. CASE v # w
    BY <2>3, <2>5, <1>m, <1>t DEF StageInv
  <2> QED BY <2>4, <2>5
<1>4. HandleInv'
  <2>1. \A i \in DOMAIN svc : svc[i].handle # 0 => svc[i].handle # w
    BY <1>t DEF HandleInv, Early
  <2>2. DOMAIN svc' = DOMAIN svc /\ DOMAIN svc = 1 .. Instances + 1
    BY <1>t DEF AndroidTypeOK
  <2> QED BY <2>1, <2>2, <1>t, <1>m DEF HandleInv
<1>5. FdInv'
  BY <1>t, <1>m DEF FdInv, AndroidTypeOK
<1>6. KeptInv'
  <2>1. svc'[now].handle = svc[now].handle /\ svc'[now].abort = svc[now].abort
    BY <1>t DEF AndroidTypeOK
  <2>2. \A v \in Worker : work'[v].at \in Minding => v # w /\ work'[v].at = work[v].at
    BY <1>m, <1>n
  <2>3. Deciding' = Deciding
    BY <1>m, <1>n, <2>2 DEF Deciding, Minding
  <2>4. \A v \in Worker : work[v].at \in Minding => work'[v].at = work[v].at
    BY <1>m, <1>n
  <2>5. \A v \in Deciding : v \in Worker
    BY DEF Deciding
  <2> QED BY <1>t, <1>m, <1>r, <2>1, <2>2, <2>3, <2>4, <2>5 DEF KeptInv, Minding
<1>7. WaitedInv'
  <2>1. svc'[now].handle = svc[now].handle
    BY <1>t DEF AndroidTypeOK
  <2>4. \A v \in Worker : work[v].at \in Minding => work'[v].at = work[v].at
    BY <1>m, <1>n
  <2> QED BY <1>t, <1>m, <1>r, <2>1, <2>4 DEF WaitedInv
<1>8. CoreInv'
  BY <1>t, <1>m, <1>r DEF CoreInv
<1>9. ProtectInv'
  BY <1>t, <1>m, <1>r, <1>n DEF ProtectInv
<1>10. OverlapInv'
  BY <1>t DEF OverlapInv
<1> QED BY <1>1, <1>2, <1>3, <1>4, <1>5, <1>6, <1>7, <1>8, <1>9, <1>10 DEF AndroidInv

\* A worker writes fields of its instance.
LEMMA MineSet ==
    ASSUME AndroidTypeOK, NEW w \in Worker, NEW r \in SvcRec, SetMine(w, r)
    PROVE  /\ svc' \in [1 .. Instances + 1 -> SvcRec]
           /\ work[w].inst \in 1 .. Instances + 1 /\ svc'[work[w].inst] = r
           /\ \A i \in 1 .. Instances + 1 : i # work[w].inst => svc'[i] = svc[i]
<1>1. work[w].inst \in 1 .. Instances + 1 /\ svc \in [1 .. Instances + 1 -> SvcRec]
  BY DEF AndroidTypeOK, WorkRec
<1> QED BY <1>1 DEF SetMine

LEMMA FieldsSet ==
    ASSUME NEW r \in SvcRec, NEW f \in Nat, NEW b \in BOOLEAN
    PROVE  /\ [r EXCEPT !.fd = f, !.stop = b] \in SvcRec
           /\ [r EXCEPT !.fd = f, !.stop = b].handle = r.handle
           /\ [r EXCEPT !.fd = f, !.stop = b].abort = r.abort
BY DEF SvcRec

\* Such a write, when it touches neither the handle nor the abort flag.
LEMMA QuietWrite ==
    ASSUME AndroidTypeOK, NEW w \in Worker, NEW f \in Nat, NEW b \in BOOLEAN,
           SetMine(w, [Mine(w) EXCEPT !.fd = f, !.stop = b])
    PROVE  /\ svc' \in [1 .. Instances + 1 -> SvcRec]
           /\ \A i \in 1 .. Instances + 1 : svc'[i].handle = svc[i].handle /\ svc'[i].abort = svc[i].abort
<1>1. Mine(w) \in SvcRec /\ work[w].inst \in 1 .. Instances + 1
  BY DEF AndroidTypeOK, WorkRec, Mine
<1> DEFINE r == [Mine(w) EXCEPT !.fd = f, !.stop = b]
<1>2. r \in SvcRec /\ r.handle = Mine(w).handle /\ r.abort = Mine(w).abort
  BY <1>1, FieldsSet
<1>3. SetMine(w, r)
  OBVIOUS
<1> HIDE DEF r
<1>4. /\ svc' \in [1 .. Instances + 1 -> SvcRec] /\ svc'[work[w].inst] = r
      /\ \A i \in 1 .. Instances + 1 : i # work[w].inst => svc'[i] = svc[i]
  BY <1>2, <1>3, MineSet
<1> QED BY <1>1, <1>2, <1>4 DEF Mine

LEMMA FlagsOfMine ==
    ASSUME AndroidTypeOK, NEW w \in Worker
    PROVE  /\ Mine(w) \in SvcRec /\ Mine(w).fd \in Nat /\ Mine(w).stop \in BOOLEAN
           /\ (Mine(w).stop \/ IsActiveGeneration(w)) \in BOOLEAN
<1>1. Mine(w) \in SvcRec
  BY DEF AndroidTypeOK, WorkRec, Mine
<1>2. Mine(w).fd \in Nat /\ Mine(w).stop \in BOOLEAN
  BY <1>1 DEF SvcRec
<1>3. (Mine(w).stop \/ IsActiveGeneration(w)) \in BOOLEAN
  OBVIOUS
<1> QED BY <1>1, <1>2, <1>3

LEMMA SvcUntouched ==
    ASSUME AndroidTypeOK, svc' = svc
    PROVE  /\ svc' \in [1 .. Instances + 1 -> SvcRec]
           /\ \A i \in 1 .. Instances + 1 : svc'[i].handle = svc[i].handle /\ svc'[i].abort = svc[i].abort
BY DEF AndroidTypeOK

\* The looks, the protector, the device.
LEMMA BeforeTheSession ==
    ASSUME AndroidInv, NEW w \in Worker,
           \/ Probed(w) \/ InstallProtector(w) \/ Built(w) \/ Establish(w) \/ Look(w)
           \/ WorkerFails(w) /\ work[w].at # "serve"
    PROVE  AndroidInv'
<1>t. AndroidTypeOK /\ StageInv /\ FdInv
  BY DEF AndroidInv
<1>f. /\ Mine(w) \in SvcRec /\ Mine(w).fd \in Nat /\ Mine(w).stop \in BOOLEAN
      /\ (Mine(w).stop \/ IsActiveGeneration(w)) \in BOOLEAN
      /\ core \in [hook : BOOLEAN, protector : BOOLEAN, writer : Nat]
  BY <1>t, FlagsOfMine DEF AndroidTypeOK
<1>g. w \in Nat /\ 0 \in Nat
  BY <1>t DEF AndroidTypeOK
<1>d. w \in fds /\ work[w].at \in Early => work[w].at \in {"look", "start"} /\ work[w].mode = "tun"
  <2> SUFFICES ASSUME w \in fds, work[w].at \in Early PROVE work[w].at \in {"look", "start"} /\ work[w].mode = "tun"
    OBVIOUS
  <2>1. sess[w] = NoSession
    BY <1>t DEF StageInv
  <2>2. sess[w].at = "none" /\ sess[w].unopened = FALSE
    BY <2>1 DEF NoSession
  <2> QED BY <2>2, <1>t DEF StageInv, FdInv
<1>1. CASE Probed(w)
  <2>1. PICK a \in {"install", "over"} : To(w, a)
    BY <1>1 DEF Probed
  <2>2. work[w].at = "probe" /\ UNCHANGED <<svc, now, main, sess, fds, core, upset>>
    BY <1>1 DEF Probed
  <2>3. work[w].at \in Early /\ a \in (Early \ {"none"}) \cup {"over"} /\ a \notin Protected /\ w \notin fds
    BY <2>2, <1>d DEF Early, Protected, Minding
  <2> QED BY <2>1, <2>2, <2>3, <1>t, <1>f, SvcUntouched, EarlySteps
<1>2. CASE InstallProtector(w)
  <2>1. PICK a \in {"build", "start"} : To(w, a) /\ (a = "build" => work[w].mode = "tun")
    BY <1>2 DEF InstallProtector
  <2>2. work[w].at = "install" /\ UNCHANGED <<svc, now, main, sess, fds, upset>> /\ core' = [core EXCEPT !.protector = TRUE]
    BY <1>2 DEF InstallProtector
  <2>3. work[w].at \in Early /\ a \in (Early \ {"none"}) \cup {"over"} /\ w \notin fds
    BY <2>2, <1>d DEF Early
  <2>4. /\ core' \in [hook : BOOLEAN, protector : BOOLEAN, writer : Nat]
        /\ core'.hook = core.hook /\ core'.writer = core.writer /\ core'.protector
    BY <2>2, <1>f
  <2> QED BY <2>1, <2>2, <2>3, <2>4, <1>t, SvcUntouched, EarlySteps
<1>3. CASE Built(w)
  <2>1. PICK a \in {"establish", "over"} : To(w, a)
    BY <1>3 DEF Built
  <2>2. work[w].at = "build" /\ UNCHANGED <<now, main, sess, fds, core, upset>>
    BY <1>3 DEF Built
  <2>3. /\ work[w].at \in Early /\ a \in (Early \ {"none"}) \cup {"over"} /\ work[w].at \in Protected
        /\ w \notin fds /\ work[w].mode = "tun"
    BY <2>2, <1>d, <1>t DEF Early, Protected, Minding, StageInv
  <2>4. /\ svc' \in [1 .. Instances + 1 -> SvcRec]
        /\ \A i \in 1 .. Instances + 1 : svc'[i].handle = svc[i].handle /\ svc'[i].abort = svc[i].abort
    <3>1. CASE IsActiveGeneration(w)
      BY <3>1, <1>3, <1>t, SvcUntouched DEF Built
    <3>2. CASE ~IsActiveGeneration(w)
      <4>1. SetMine(w, [Mine(w) EXCEPT !.stop = TRUE])
        BY <3>2, <1>3 DEF Built
      <4>2. [Mine(w) EXCEPT !.stop = TRUE] = [Mine(w) EXCEPT !.fd = Mine(w).fd, !.stop = TRUE]
        BY <1>f DEF SvcRec
      <4> QED BY <4>1, <4>2, <1>f, <1>t, QuietWrite
    <3> QED BY <3>1, <3>2
  <2> QED BY <2>1, <2>2, <2>3, <2>4, <1>f, EarlySteps
<1>4. CASE Establish(w)
  <2>1. To(w, "look") /\ work[w].at = "establish" /\ UNCHANGED <<now, main, sess, core, upset>> /\ fds' = fds \cup {w}
    BY <1>4 DEF Establish
  <2>2. work[w].at \in Early /\ "look" \in (Early \ {"none"}) \cup {"over"} /\ work[w].at \in Protected /\ work[w].mode = "tun"
    BY <2>1, <1>t DEF Early, Protected, Minding, StageInv
  <2>3. SetMine(w, [Mine(w) EXCEPT !.fd = w, !.stop = Mine(w).stop])
    <3>1. [Mine(w) EXCEPT !.fd = w] = [Mine(w) EXCEPT !.fd = w, !.stop = Mine(w).stop]
      BY <1>f DEF SvcRec
    <3> QED BY <3>1, <1>4 DEF Establish
  <2>4. /\ svc' \in [1 .. Instances + 1 -> SvcRec]
        /\ \A i \in 1 .. Instances + 1 : svc'[i].handle = svc[i].handle /\ svc'[i].abort = svc[i].abort
    BY <2>3, <1>f, <1>g, <1>t, QuietWrite
  <2> QED BY <2>1, <2>2, <2>4, <1>f, EarlySteps
<1>5. CASE Look(w)
  <2>1. work[w].at = "look" /\ UNCHANGED <<now, main, sess, core, upset>>
    BY <1>5 DEF Look
  <2>2. work[w].at \in Early /\ work[w].at \in Protected /\ work[w].mode = "tun" /\ "start" \in Early \ {"none"}
    BY <2>1, <1>t DEF Early, Protected, Minding, StageInv
  <2>3. CASE IsActiveGeneration(w)
    <3>1. To(w, "start") /\ UNCHANGED <<svc, fds>>
      BY <1>5, <2>3 DEF Look
    <3> QED BY <2>1, <2>2, <3>1, <1>f, <1>t, SvcUntouched, EarlySteps
  <2>4. CASE ~IsActiveGeneration(w)
    <3>1. To(w, "over") /\ fds' = fds \ {w} /\ SetMine(w, [Mine(w) EXCEPT !.fd = 0, !.stop = TRUE])
      BY <1>5, <2>4 DEF Look
    <3>2. /\ svc' \in [1 .. Instances + 1 -> SvcRec]
          /\ \A i \in 1 .. Instances + 1 : svc'[i].handle = svc[i].handle /\ svc'[i].abort = svc[i].abort
      BY <3>1, <1>g, <1>t, QuietWrite
    <3>3. "over" \notin Protected
      BY DEF Protected, Minding
    <3> QED BY <2>1, <2>2, <3>1, <3>2, <3>3, <1>f, EarlySteps
  <2> QED BY <2>3, <2>4
<1>6. CASE WorkerFails(w) /\ work[w].at # "serve"
  <2>1. /\ To(w, "over") /\ UNCHANGED <<now, main, upset>> /\ UNCHANGED <<sess, core>>
        /\ work[w].at \in {"probe", "build", "establish", "start"}
    BY <1>6 DEF WorkerFails
  <2>2. work[w].at \in Early /\ "over" \notin Protected
    BY <2>1 DEF Early, Protected, Minding
  <2>3. /\ svc' \in [1 .. Instances + 1 -> SvcRec]
        /\ \A i \in 1 .. Instances + 1 : svc'[i].handle = svc[i].handle /\ svc'[i].abort = svc[i].abort
    <3> DEFINE f == IF work[w].at = "start" /\ work[w].mode = "tun" THEN 0 ELSE Mine(w).fd
               b == Mine(w).stop \/ IsActiveGeneration(w)
    <3>1. SetMine(w, [Mine(w) EXCEPT !.fd = f, !.stop = b])
      BY <1>6 DEF WorkerFails
    <3>2. f \in Nat /\ b \in BOOLEAN
      BY <1>f, <1>g
    <3> HIDE DEF f, b
    <3> QED BY <3>1, <3>2, <1>t, QuietWrite
  <2>4. fds' \subseteq fds /\ w \notin fds'
    <3>1. CASE work[w].at = "start" /\ work[w].mode = "tun"
      BY <3>1, <1>6 DEF WorkerFails
    <3>2. CASE ~(work[w].at = "start" /\ work[w].mode = "tun")
      BY <3>2, <1>6, <2>1, <2>2, <1>d DEF WorkerFails
    <3> QED BY <3>1, <3>2
  <2> QED BY <2>1, <2>2, <2>3, <2>4, <1>f, EarlySteps
<1> QED BY <1>1, <1>2, <1>3, <1>4, <1>5, <1>6

----------------------------------------------------------------------------
\* One session changes.
LEMMA SessionSet ==
    ASSUME AndroidTypeOK, NEW w \in Worker, NEW r \in SessRec, sess' = [sess EXCEPT ![w] = r]
    PROVE  /\ sess' \in [Worker -> SessRec] /\ sess'[w] = r
           /\ \A h \in Worker : h # w => sess'[h] = sess[h]
           /\ \A h \in Worker : h # w => InMap(h)' = InMap(h) /\ Runs(h)' = Runs(h)
<1>1. sess' \in [Worker -> SessRec] /\ sess'[w] = r /\ \A h \in Worker : h # w => sess'[h] = sess[h]
  BY DEF AndroidTypeOK
<1>2. \A h \in Worker : h # w => InMap(h)' = InMap(h) /\ Runs(h)' = Runs(h)
  BY <1>1 DEF InMap, Runs
<1> QED BY <1>1, <1>2

\* Nothing in the service changes.
LEMMA HandlesKept ==
    ASSUME AndroidInv, NEW w \in Worker, NEW a \in WorkStage \ {"none"}, To(w, a),
           a \in {"check", "over"} \/ work[w].at \notin {"check", "over"},
           DOMAIN svc' = DOMAIN svc, \A i \in DOMAIN svc : svc'[i].handle \in {0, svc[i].handle}
    PROVE  HandleInv'
<1>t. AndroidTypeOK /\ HandleInv
  BY DEF AndroidInv
<1>m. Worker' = Worker /\ work'[w].at = a /\ \A v \in Worker : v # w => work'[v] = work[v]
  BY <1>t, Moves
<1> QED BY <1>t, <1>m DEF HandleInv

\* A step that leaves the fields of the present instance and the workers that
\* are about to decide alone, and starts no session that nobody minds.
LEMMA KeptFrame ==
    ASSUME AndroidTypeOK, KeptInv, Worker' = Worker, "lost" \in upset => "lost" \in upset',
           svc'[now'].handle = svc[now].handle, svc'[now'].abort = svc[now].abort, main' = main,
           \A v \in Worker : work'[v].recent = work[v].recent,
           \A v \in Worker : work'[v].at \in {"hold", "check"} => work'[v].at = work[v].at,
           \A v \in Worker : Runs(v)' => \/ work'[v].at \in Minding
                                         \/ Runs(v) /\ work[v].at \notin Minding
    PROVE  KeptInv'
<1> SUFFICES ASSUME "lost" \notin upset'
             PROVE /\ \A w \in Worker : work'[w].recent => svc[now].handle \in {0, w}
                   /\ \A w \in Deciding' : work'[w].recent /\ main = AtRest /\ ~svc[now].abort
                   /\ \A w \in Worker : work'[w].at = "check" => svc[now].handle = w
                   /\ main.at \in {"wait", "clear"} => main.h = svc[now].handle
                   /\ main.at = "begin anew" => svc[now].handle = 0
                   /\ \A h \in Worker : Runs(h)' =>
                        \/ work'[h].at \in Minding
                        \/ svc[now].handle = h /\ main.at \notin {"wait", "clear"}
  BY DEF KeptInv, AtRest
<1>0. "lost" \notin upset
  OBVIOUS
<1>1. \A w \in Deciding' : w \in Deciding /\ w \in Worker
  BY DEF Deciding
<1>2. \A w \in Deciding' : work'[w].recent /\ main = AtRest /\ ~svc[now].abort
  BY <1>0, <1>1 DEF KeptInv
<1>3. /\ \A w \in Worker : work'[w].recent => svc[now].handle \in {0, w}
      /\ main.at \in {"wait", "clear"} => main.h = svc[now].handle
      /\ main.at = "begin anew" => svc[now].handle = 0
  BY <1>0 DEF KeptInv
<1>4. \A w \in Worker : work'[w].at = "check" => svc[now].handle = w
  BY <1>0 DEF KeptInv
<1>5. \A h \in Worker : Runs(h)' =>
                        \/ work'[h].at \in Minding
                        \/ svc[now].handle = h /\ main.at \notin {"wait", "clear"}
  BY <1>0 DEF KeptInv
<1> QED BY <1>2, <1>3, <1>4, <1>5

\* StartTun, StartProxy, StartStandaloneDpi.
LEMMA StartCoreKeeps ==
    ASSUME AndroidInv, NEW w \in Worker, StartCore(w)
    PROVE  AndroidInv'
<1>t. /\ AndroidTypeOK /\ MainInv /\ StageInv /\ RecentInv /\ HandleInv /\ FdInv
      /\ KeptInv /\ WaitedInv /\ CoreInv /\ ProtectInv /\ OverlapInv
  BY DEF AndroidInv
<1>1. PICK a \in {"serve", "got"}, s \in {"set up", "new"} :
        /\ To(w, a) /\ LogSetup(w, s)
        /\ a = "serve" <=> s = "set up"
        /\ a = "serve" <=> work[w].mode = "dpi"
  BY DEF StartCore
<1>2. work[w].at = "start" /\ UNCHANGED <<svc, now, main, fds>>
  BY DEF StartCore
<1>a. a \in WorkStage \ {"none"} /\ work[w].at \in Early /\ a \notin Early
  BY <1>2 DEF WorkStage, Minding, Early
<1>m. /\ Worker' = Worker /\ work' \in [Worker -> WorkRec]
      /\ work'[w].at = a
      /\ \A v \in Worker : v # w => work'[v] = work[v]
      /\ \A v \in Worker : /\ work'[v].mode = work[v].mode /\ work'[v].inst = work[v].inst
                           /\ work'[v].recent = work[v].recent
  BY <1>1, <1>a, <1>t, Moves
<1>c. /\ core \in [hook : BOOLEAN, protector : BOOLEAN, writer : Nat]
      /\ core' = [core EXCEPT !.writer = w] /\ w \in Nat \ {0}
  BY <1>1, <1>t DEF AndroidTypeOK, LogSetup
<1>s. /\ sess' \in [Worker -> SessRec]
      /\ sess'[w].at = s /\ sess'[w].old = core.writer /\ sess'[w].unopened = FALSE
      /\ \A h \in Worker : h # w => sess'[h] = sess[h]
      /\ \A h \in Worker : h # w => InMap(h)' = InMap(h) /\ Runs(h)' = Runs(h)
  <2> DEFINE r == [NoSession EXCEPT !.at = s, !.old = core.writer]
  <2>1. r \in SessRec /\ r.at = s /\ r.old = core.writer /\ r.unopened = FALSE
    BY <1>c DEF NoSession, SessRec, SessStage
  <2>2. sess' = [sess EXCEPT ![w] = r]
    BY <1>1 DEF LogSetup
  <2> HIDE DEF r
  <2> QED BY <2>1, <2>2, <1>t, SessionSet
<1>o. ~InMap(w)
  BY <1>a, <1>t, EarlyHasNone
<1>u. /\ upset \subseteq upset' /\ ("lost" \in upset' <=> "lost" \in upset) /\ ("test" \in upset' <=> "test" \in upset)
      /\ "overlap" \in upset' <=> "overlap" \in upset \/ Others(w) # {}
      /\ "unwaited" \in upset' <=> "unwaited" \in upset \/ ~(IsActiveGeneration(w) /\ Undecided = {})
      /\ upset' \subseteq {"lost", "overlap", "unwaited", "test"}
  <2>1. upset' = upset \cup (IF Others(w) # {} THEN {"overlap"} ELSE {})
                       \cup (IF IsActiveGeneration(w) /\ Undecided = {} THEN {} ELSE {"unwaited"})
    BY <1>1 DEF LogSetup
  <2>2. upset \subseteq {"lost", "overlap", "unwaited", "test"}
    BY <1>t DEF AndroidTypeOK
  <2> DEFINE P == Others(w) # {}
             Q == IsActiveGeneration(w) /\ Undecided = {}
  <2>3. upset' = upset \cup (IF P THEN {"overlap"} ELSE {}) \cup (IF Q THEN {} ELSE {"unwaited"})
    BY <2>1
  <2> HIDE DEF P, Q
  <2>4. /\ upset \subseteq upset' /\ ("lost" \in upset' <=> "lost" \in upset) /\ ("test" \in upset' <=> "test" \in upset)
        /\ "overlap" \in upset' <=> "overlap" \in upset \/ P
        /\ "unwaited" \in upset' <=> "unwaited" \in upset \/ ~Q
        /\ upset' \subseteq {"lost", "overlap", "unwaited", "test"}
    BY <2>2, <2>3
  <2> QED BY <2>4 DEF P, Q
<1>3. AndroidTypeOK'
  <2>1. core' \in [hook : BOOLEAN, protector : BOOLEAN, writer : Nat]
    BY <1>c
  <2> QED BY <2>1, <1>t, <1>m, <1>s, <1>u, <1>2 DEF AndroidTypeOK
<1>4. MainInv' /\ RecentInv'
  BY <1>1, <1>2, <1>a, WorkerLeavesMain
<1>5. StageInv'
  <2> SUFFICES ASSUME NEW v \in Worker
               PROVE  /\ work'[v].at \in Early => sess'[v] = NoSession
                      /\ work'[v].at = "serve" <=> sess'[v].at = "set up"
                      /\ work'[v].at = "serve" => work'[v].mode = "dpi"
                      /\ work'[v].at \in {"build", "establish", "look"} \/ v \in fds => work'[v].mode = "tun"
    BY <1>m, <1>2 DEF StageInv
  <2>1. CASE v = w
    BY <2>1, <1>1, <1>m, <1>s, <1>a, <1>t DEF StageInv
  <2>2. CASE v # w
    BY <2>2, <1>m, <1>s, <1>t DEF StageInv
  <2> QED BY <2>1, <2>2
<1>6. HandleInv'
  BY <1>1, <1>2, <1>a, HandlesKept
<1>7. FdInv'
  <2>1. w \in fds => s = "new"
    BY <1>1, <1>t DEF StageInv
  <2>2. \A h \in fds : h \in Worker
    BY <1>t DEF AndroidTypeOK
  <2> QED BY <2>1, <2>2, <1>m, <1>s, <1>t, <1>2 DEF FdInv
<1>8. KeptInv'
  <2>1. a \in Minding /\ a \notin {"hold", "check"}
    BY DEF Minding
  <2>2. \A v \in Worker : Runs(v)' => work'[v].at \in Minding \/ (Runs(v) /\ work[v].at \notin Minding)
    BY <2>1, <1>m, <1>s
  <2> QED BY <2>1, <2>2, <1>2, <1>m, <1>t, <1>u, KeptFrame
<1>9. WaitedInv'
  <2>1. a \in Minding
    BY DEF Minding
  <2>2. upset' \cap {"lost", "unwaited"} = {} => upset \cap {"lost", "unwaited"} = {}
    BY <1>u
  <2> QED BY <2>1, <2>2, <1>2, <1>m, <1>s, <1>t DEF WaitedInv
<1>10. CoreInv'
  <2> SUFFICES ASSUME upset' \cap {"overlap", "test"} = {}
               PROVE  /\ \A g, h \in Worker : InMap(g)' /\ InMap(h)' => g = h
                      /\ \A h \in Worker : InMap(h)' => core'.writer = h /\ sess'[h].old = 0
                      /\ (\A h \in Worker : ~InMap(h)') => core'.writer = 0
                      /\ core'.hook <=> \E h \in Worker : sess'[h].at = "run" /\ work'[h].mode # "dpi"
    BY <1>m DEF CoreInv
  <2>1. upset \cap {"overlap", "test"} = {} /\ Others(w) = {}
    BY <1>u
  <2>2. \A h \in Worker : ~InMap(h)
    BY <2>1, <1>o DEF Others
  <2>3. core.writer = 0 /\ (core.hook <=> \E h \in Worker : sess[h].at = "run" /\ work[h].mode # "dpi")
    BY <2>1, <2>2, <1>t DEF CoreInv
  <2>4. \A h \in Worker : InMap(h)' => h = w
    BY <2>2, <1>s
  <2>5. InMap(w)'
    BY <1>s DEF InMap
  <2>6. core'.writer = w /\ core'.hook = core.hook
    BY <1>c
  <2>7. \A h \in Worker : sess'[h].at # "run"
    BY <1>s, <2>2 DEF InMap
  <2>8. \A h \in Worker : sess[h].at # "run"
    BY <2>2 DEF InMap
  <2> QED BY <2>3, <2>4, <2>5, <2>6, <2>7, <2>8, <1>s
<1>11. ProtectInv'
  <2>1. "start" \in Protected
    BY DEF Protected
  <2>2. core'.protector = core.protector
    BY <1>c
  <2> QED BY <2>1, <2>2, <1>2, <1>m, <1>s, <1>t DEF ProtectInv
<1>12. OverlapInv'
  <2> SUFFICES ASSUME "overlap" \in upset', "unwaited" \notin upset', "lost" \notin upset' PROVE FALSE
    BY DEF OverlapInv
  <2>1. "unwaited" \notin upset /\ "lost" \notin upset /\ "overlap" \notin upset
    BY <1>u, <1>t DEF OverlapInv
  <2>2. PICK h \in Worker \ {w} : InMap(h)
    BY <2>1, <1>u DEF Others
  <2>3. work[w].recent /\ Undecided = {}
    BY <1>u DEF IsActiveGeneration
  <2>4. work[h].at \notin Minding
    BY <2>3 DEF Undecided, Minding
  <2>5. svc[now].handle = h
    BY <2>1, <2>2, <2>4, <1>t DEF WaitedInv
  <2>6. svc[now].handle \in {0, w}
    BY <2>1, <2>3, <1>t DEF KeptInv
  <2>7. h # 0
    BY <1>t DEF AndroidTypeOK
  <2> QED BY <2>5, <2>6, <2>7
<1> QED BY <1>3, <1>4, <1>5, <1>6, <1>7, <1>8, <1>9, <1>10, <1>11, <1>12 DEF AndroidInv

\* Stop of the core only ever marks a session.
LEMMA CancelledFacts ==
    ASSUME AndroidTypeOK, NEW k, sess' = Cancelled(k)
    PROVE  /\ sess' \in [Worker -> SessRec]
           /\ \A h \in Worker : /\ sess'[h].at = sess[h].at /\ sess'[h].old = sess[h].old
                                /\ sess'[h].unopened = sess[h].unopened
           /\ \A h \in Worker : InMap(h)' = InMap(h) /\ (Runs(h)' => Runs(h) /\ h # k)
           /\ \A h \in Worker : sess[h] = NoSession => sess'[h] = NoSession
<1>1. \A h \in Worker : sess'[h] = IF h = k /\ InMap(k) THEN [sess[h] EXCEPT !.cancelled = TRUE] ELSE sess[h]
  BY DEF Cancelled
<1>2. \A h \in Worker : sess[h] \in SessRec
  BY DEF AndroidTypeOK
<1>3. sess' \in [Worker -> SessRec]
  <2>1. \A h \in Worker : sess'[h] \in SessRec
    BY <1>1, <1>2 DEF SessRec
  <2> QED BY <2>1 DEF Cancelled
<1>4. \A h \in Worker : sess'[h].at = sess[h].at /\ sess'[h].old = sess[h].old /\ sess'[h].unopened = sess[h].unopened
  BY <1>1, <1>2 DEF SessRec
<1>5. \A h \in Worker : InMap(h)' = InMap(h)
  BY <1>4 DEF InMap
<1>6. ASSUME NEW h \in Worker, Runs(h)' PROVE Runs(h) /\ h # k
  <2>1. CASE h = k /\ InMap(k)
    <3>1. sess'[h].cancelled
      BY <2>1, <1>1, <1>2 DEF SessRec
    <3> QED BY <3>1, <1>6 DEF Runs
  <2>2. CASE ~(h = k /\ InMap(k))
    <3>1. sess'[h] = sess[h]
      BY <2>2, <1>1
    <3>2. Runs(h) /\ InMap(h)
      BY <3>1, <1>6 DEF Runs, InMap
    <3> QED BY <3>2, <2>2
  <2> QED BY <2>1, <2>2
<1>7. \A h \in Worker : sess[h] = NoSession => sess'[h] = NoSession
  <2> SUFFICES ASSUME NEW h \in Worker, sess[h] = NoSession PROVE sess'[h] = NoSession
    OBVIOUS
  <2>1. sess[h].at = "none"
    BY DEF NoSession
  <2>2. ~InMap(h)
    BY <2>1 DEF InMap
  <2> QED BY <2>2, <1>1
<1> QED BY <1>3, <1>4, <1>5, <1>6, <1>7

\* The stages of workers and sessions stay in step when the sessions' stages,
\* and those of the workers that matter, do.
LEMMA StagesFrame ==
    ASSUME AndroidTypeOK, StageInv, Worker' = Worker, fds' \subseteq fds,
           \A v \in Worker : sess'[v].at = sess[v].at /\ (sess[v] = NoSession => sess'[v] = NoSession),
           \A v \in Worker : work'[v].mode = work[v].mode,
           \A v \in Worker : \/ work'[v].at = work[v].at
                             \/ work'[v].at \in {"hold", "check", "over"} /\ work[v].at # "serve"
    PROVE  StageInv'
<1> SUFFICES ASSUME NEW v \in Worker
             PROVE  /\ work'[v].at \in Early => sess'[v] = NoSession
                    /\ work'[v].at = "serve" <=> sess'[v].at = "set up"
                    /\ work'[v].at = "serve" => work'[v].mode = "dpi"
                    /\ work'[v].at \in {"build", "establish", "look"} \/ v \in fds' => work'[v].mode = "tun"
  BY DEF StageInv
<1>1. CASE work'[v].at = work[v].at
  BY <1>1 DEF StageInv
<1>2. CASE work'[v].at \in {"hold", "check", "over"} /\ work[v].at # "serve"
  <2>1. work'[v].at \notin Early /\ work'[v].at # "serve" /\ work'[v].at \notin {"build", "establish", "look"}
    BY <1>2 DEF Early
  <2> QED BY <2>1, <1>2 DEF StageInv
<1> QED BY <1>1, <1>2

\* The service learns of a session, or looks once more at what it has.
LEMMA CoreFrame ==
    ASSUME CoreInv, Worker' = Worker, core'.hook = core.hook, core'.writer = core.writer,
           upset' \cap {"overlap", "test"} = upset \cap {"overlap", "test"},
           \A v \in Worker : /\ work'[v].mode = work[v].mode /\ (InMap(v)' <=> InMap(v))
                             /\ sess'[v].old = sess[v].old
                             /\ sess'[v].at = "run" <=> sess[v].at = "run"
    PROVE  CoreInv'
BY DEF CoreInv

LEMMA ServeKeeps ==
    ASSUME AndroidInv, NEW w \in Worker, Serve(w)
    PROVE  AndroidInv'
<1>t. /\ AndroidTypeOK /\ MainInv /\ StageInv /\ RecentInv /\ HandleInv /\ FdInv
      /\ KeptInv /\ WaitedInv /\ CoreInv /\ ProtectInv /\ OverlapInv
  BY DEF AndroidInv
<1>1. work[w].at = "serve" /\ To(w, "got") /\ UNCHANGED <<svc, now, main, fds, core, upset>>
  BY DEF Serve
<1>a. "got" \in WorkStage \ {"none"}
  BY DEF WorkStage, Minding
<1>m. /\ Worker' = Worker /\ work' \in [Worker -> WorkRec]
      /\ work'[w].at = "got"
      /\ \A v \in Worker : v # w => work'[v] = work[v]
      /\ \A v \in Worker : /\ work'[v].mode = work[v].mode /\ work'[v].inst = work[v].inst
                           /\ work'[v].recent = work[v].recent
  BY <1>1, <1>a, <1>t, Moves
<1>s. /\ sess' \in [Worker -> SessRec]
      /\ sess'[w].at = "new" /\ sess'[w].old = sess[w].old /\ sess[w].at = "set up"
      /\ \A h \in Worker : h # w => sess'[h] = sess[h]
      /\ \A h \in Worker : h # w => InMap(h)' = InMap(h) /\ Runs(h)' = Runs(h)
  <2> DEFINE r == [sess[w] EXCEPT !.at = "new"]
  <2>0. sess[w] \in SessRec
    BY <1>t DEF AndroidTypeOK
  <2>1. r \in SessRec /\ r.at = "new" /\ r.old = sess[w].old
    BY <2>0 DEF SessRec, SessStage
  <2>2. sess' = [sess EXCEPT ![w] = r]
    BY <1>t DEF Serve, AndroidTypeOK
  <2>3. sess[w].at = "set up"
    BY <1>1, <1>t DEF StageInv
  <2> HIDE DEF r
  <2> QED BY <2>1, <2>2, <2>3, <1>t, SessionSet
<1>i. \A h \in Worker : InMap(h)' <=> InMap(h)
  <2>1. InMap(w) /\ InMap(w)'
    BY <1>s DEF InMap
  <2> QED BY <2>1, <1>s
<1>3. AndroidTypeOK'
  BY <1>t, <1>m, <1>s, <1>1 DEF AndroidTypeOK
<1>4. MainInv' /\ RecentInv'
  BY <1>1, <1>a, WorkerLeavesMain
<1>5. StageInv'
  <2> SUFFICES ASSUME NEW v \in Worker
               PROVE  /\ work'[v].at \in Early => sess'[v] = NoSession
                      /\ work'[v].at = "serve" <=> sess'[v].at = "set up"
                      /\ work'[v].at = "serve" => work'[v].mode = "dpi"
                      /\ work'[v].at \in {"build", "establish", "look"} \/ v \in fds => work'[v].mode = "tun"
    BY <1>m, <1>1 DEF StageInv
  <2>1. CASE v = w
    <3>1. "got" \notin Early
      BY DEF Early
    <3> QED BY <2>1, <3>1, <1>1, <1>m, <1>s, <1>t DEF StageInv
  <2>2. CASE v # w
    BY <2>2, <1>m, <1>s, <1>t DEF StageInv
  <2> QED BY <2>1, <2>2
<1>6. HandleInv'
  BY <1>1, <1>a, HandlesKept
<1>7. FdInv'
  <2>1. \A h \in fds : h \in Worker
    BY <1>t DEF AndroidTypeOK
  <2> QED BY <2>1, <1>m, <1>s, <1>t, <1>1 DEF FdInv
<1>m1. "got" \in Minding /\ "serve" \in Minding /\ "serve" \in Protected
  BY DEF Minding, Protected
<1>8. KeptInv'
  <2>2. \A v \in Worker : Runs(v)' => work'[v].at \in Minding \/ (Runs(v) /\ work[v].at \notin Minding)
    BY <1>m1, <1>m, <1>s
  <2> QED BY <2>2, <1>1, <1>m, <1>t, KeptFrame
<1>9. WaitedInv'
  BY <1>m1, <1>1, <1>m, <1>i, <1>t DEF WaitedInv
<1>10. CoreInv'
  <2>1. \A h \in Worker : sess'[h].old = sess[h].old /\ (sess'[h].at = "run" <=> sess[h].at = "run")
    BY <1>s
  <2> QED BY <2>1, <1>1, <1>m, <1>i, <1>t, CoreFrame
<1>11. ProtectInv'
  BY <1>m1, <1>1, <1>m, <1>i, <1>t DEF ProtectInv
<1>12. OverlapInv'
  BY <1>t, <1>1 DEF OverlapInv
<1> QED BY <1>3, <1>4, <1>5, <1>6, <1>7, <1>8, <1>9, <1>10, <1>11, <1>12 DEF AndroidInv

\* The listener cannot be opened: StartStandaloneDpi takes everything back.
LEMMA ServeFailsKeeps ==
    ASSUME AndroidInv, NEW w \in Worker, WorkerFails(w), work[w].at = "serve"
    PROVE  AndroidInv'
<1>t. /\ AndroidTypeOK /\ MainInv /\ StageInv /\ RecentInv /\ HandleInv /\ FdInv
      /\ KeptInv /\ WaitedInv /\ CoreInv /\ ProtectInv /\ OverlapInv
  BY DEF AndroidInv
<1>1. /\ To(w, "over") /\ UNCHANGED <<now, main, fds, upset>>
      /\ sess' = [sess EXCEPT ![w] = Gone] /\ core' = [core EXCEPT !.writer = sess[w].old]
  BY DEF WorkerFails
<1>a. "over" \in WorkStage \ {"none"}
  BY DEF WorkStage
<1>m. /\ Worker' = Worker /\ work' \in [Worker -> WorkRec]
      /\ work'[w].at = "over"
      /\ \A v \in Worker : v # w => work'[v] = work[v]
      /\ \A v \in Worker : /\ work'[v].mode = work[v].mode /\ work'[v].inst = work[v].inst
                           /\ work'[v].recent = work[v].recent
  BY <1>1, <1>a, <1>t, Moves
<1>s. /\ sess' \in [Worker -> SessRec] /\ sess'[w].at = "gone"
      /\ \A h \in Worker : h # w => sess'[h] = sess[h]
      /\ \A h \in Worker : h # w => InMap(h)' = InMap(h) /\ Runs(h)' = Runs(h)
  <2>1. Gone \in SessRec /\ Gone.at = "gone"
    BY DEF Gone, NoSession, SessRec, SessStage
  <2> QED BY <2>1, <1>1, <1>t, SessionSet
<1>o. ~InMap(w)' /\ ~Runs(w)' /\ InMap(w) /\ sess[w].at = "set up"
  <2>1. sess[w].at = "set up"
    BY <1>t DEF StageInv
  <2> QED BY <2>1, <1>s DEF InMap, Runs
<1>c. /\ core \in [hook : BOOLEAN, protector : BOOLEAN, writer : Nat] /\ sess[w].old \in Nat
      /\ core' \in [hook : BOOLEAN, protector : BOOLEAN, writer : Nat]
      /\ core'.writer = sess[w].old /\ core'.hook = core.hook /\ core'.protector = core.protector
  <2>1. core \in [hook : BOOLEAN, protector : BOOLEAN, writer : Nat] /\ sess[w] \in SessRec
    BY <1>t DEF AndroidTypeOK
  <2>2. sess[w].old \in Nat
    BY <2>1 DEF SessRec
  <2> QED BY <2>1, <2>2, <1>1
<1>v. /\ svc' \in [1 .. Instances + 1 -> SvcRec]
      /\ \A i \in 1 .. Instances + 1 : svc'[i].handle = svc[i].handle /\ svc'[i].abort = svc[i].abort
  <2> DEFINE b == Mine(w).stop \/ IsActiveGeneration(w)
  <2>1. SetMine(w, [Mine(w) EXCEPT !.fd = Mine(w).fd, !.stop = b])
    BY DEF WorkerFails
  <2>2. Mine(w).fd \in Nat /\ b \in BOOLEAN
    BY <1>t, FlagsOfMine
  <2> HIDE DEF b
  <2> QED BY <2>1, <2>2, <1>t, QuietWrite
<1>d. DOMAIN svc' = DOMAIN svc /\ DOMAIN svc = 1 .. Instances + 1 /\ now \in 1 .. Instances + 1
  BY <1>v, <1>t DEF AndroidTypeOK
<1>3. AndroidTypeOK'
  BY <1>t, <1>m, <1>s, <1>c, <1>v, <1>1 DEF AndroidTypeOK
<1>4. MainInv' /\ RecentInv'
  BY <1>1, <1>a, WorkerLeavesMain
<1>5. StageInv'
  <2> SUFFICES ASSUME NEW v \in Worker
               PROVE  /\ work'[v].at \in Early => sess'[v] = NoSession
                      /\ work'[v].at = "serve" <=> sess'[v].at = "set up"
                      /\ work'[v].at = "serve" => work'[v].mode = "dpi"
                      /\ work'[v].at \in {"build", "establish", "look"} \/ v \in fds => work'[v].mode = "tun"
    BY <1>m, <1>1 DEF StageInv
  <2>1. CASE v = w
    <3>1. "over" \notin Early
      BY DEF Early
    <3> QED BY <2>1, <3>1, <1>1, <1>m, <1>s, <1>t DEF StageInv
  <2>2. CASE v # w
    BY <2>2, <1>m, <1>s, <1>t DEF StageInv
  <2> QED BY <2>1, <2>2
<1>6. HandleInv'
  BY <1>1, <1>a, <1>v, <1>d, HandlesKept
<1>7. FdInv'
  <2>1. \A h \in fds : h \in Worker /\ h # w
    BY <1>t DEF AndroidTypeOK, StageInv
  <2> QED BY <2>1, <1>m, <1>s, <1>t, <1>1 DEF FdInv
<1>8. KeptInv'
  <2>2. \A v \in Worker : Runs(v)' => work'[v].at \in Minding \/ (Runs(v) /\ work[v].at \notin Minding)
    BY <1>m, <1>s, <1>o
  <2>3. svc'[now'].handle = svc[now].handle /\ svc'[now'].abort = svc[now].abort
    BY <1>v, <1>d, <1>1
  <2> QED BY <2>2, <2>3, <1>1, <1>m, <1>t, KeptFrame
<1>9. WaitedInv'
  <2>1. svc'[now'].handle = svc[now].handle
    BY <1>v, <1>d, <1>1
  <2> QED BY <2>1, <1>1, <1>m, <1>o, <1>s, <1>t DEF WaitedInv
<1>10. CoreInv'
  <2> SUFFICES ASSUME upset \cap {"overlap", "test"} = {}
               PROVE  /\ \A g, h \in Worker : InMap(g)' /\ InMap(h)' => g = h
                      /\ \A h \in Worker : InMap(h)' => core'.writer = h /\ sess'[h].old = 0
                      /\ (\A h \in Worker : ~InMap(h)') => core'.writer = 0
                      /\ core'.hook <=> \E h \in Worker : sess'[h].at = "run" /\ work'[h].mode # "dpi"
    BY <1>m, <1>1 DEF CoreInv
  <2>1. \A h \in Worker : h # w => ~InMap(h)
    BY <1>o, <1>t DEF CoreInv
  <2>2. \A h \in Worker : ~InMap(h)'
    BY <2>1, <1>s, <1>o
  <2>3. sess[w].old = 0
    BY <1>o, <1>t DEF CoreInv
  <2>4. \A h \in Worker : sess[h].at # "run" /\ sess'[h].at # "run"
    BY <2>1, <2>2, <1>o DEF InMap
  <2>5. ~core.hook
    BY <2>4, <1>t DEF CoreInv
  <2> QED BY <2>2, <2>3, <2>4, <2>5, <1>c
<1>11. ProtectInv'
  <2>1. "over" \notin Protected
    BY DEF Protected, Minding
  <2> QED BY <2>1, <1>1, <1>m, <1>o, <1>s, <1>c, <1>t DEF ProtectInv
<1>12. OverlapInv'
  BY <1>t, <1>1 DEF OverlapInv
<1> QED BY <1>3, <1>4, <1>5, <1>6, <1>7, <1>8, <1>9, <1>10, <1>11, <1>12 DEF AndroidInv

\* What a minding worker's look leaves alone, whatever it finds.
LEMMA LooksFrame ==
    ASSUME AndroidInv, NEW w \in Worker, NEW a \in {"hold", "check", "over"}, To(w, a),
           work[w].at \in {"got", "hold", "check"},
           a \in {"check", "over"} \/ work[w].at # "check",
           UNCHANGED <<now, main, fds, core>>,
           sess' = sess \/ \E k \in Nat : sess' = Cancelled(k),
           svc' \in [1 .. Instances + 1 -> SvcRec],
           upset \subseteq upset', upset' \subseteq upset \cup {"lost", "unwaited"}
    PROVE  /\ AndroidTypeOK' /\ MainInv' /\ RecentInv' /\ StageInv' /\ FdInv'
           /\ CoreInv' /\ ProtectInv' /\ OverlapInv'
           /\ Worker' = Worker /\ work'[w].at = a
           /\ \A v \in Worker : v # w => work'[v] = work[v]
           /\ \A v \in Worker : work'[v].recent = work[v].recent
           /\ \A h \in Worker : (InMap(h)' <=> InMap(h)) /\ (Runs(h)' => Runs(h))
<1>t. /\ AndroidTypeOK /\ MainInv /\ StageInv /\ RecentInv /\ HandleInv /\ FdInv
      /\ KeptInv /\ WaitedInv /\ CoreInv /\ ProtectInv /\ OverlapInv
  BY DEF AndroidInv
<1>a. a \in WorkStage \ {"none"}
  BY DEF WorkStage, Minding
<1>m. /\ Worker' = Worker /\ work' \in [Worker -> WorkRec]
      /\ work'[w].at = a
      /\ \A v \in Worker : v # w => work'[v] = work[v]
      /\ \A v \in Worker : /\ work'[v].mode = work[v].mode /\ work'[v].inst = work[v].inst
                           /\ work'[v].recent = work[v].recent
  BY <1>a, <1>t, Moves
<1>s. /\ sess' \in [Worker -> SessRec]
      /\ \A h \in Worker : /\ sess'[h].at = sess[h].at /\ sess'[h].old = sess[h].old
                           /\ sess'[h].unopened = sess[h].unopened
      /\ \A h \in Worker : InMap(h)' = InMap(h) /\ (Runs(h)' => Runs(h))
      /\ \A h \in Worker : sess[h] = NoSession => sess'[h] = NoSession
  <2>1. CASE sess' = sess
    BY <2>1, <1>t DEF InMap, Runs, AndroidTypeOK
  <2>2. CASE \E k \in Nat : sess' = Cancelled(k)
    BY <2>2, <1>t, CancelledFacts
  <2> QED BY <2>1, <2>2
<1>u. /\ upset' \subseteq {"lost", "overlap", "unwaited", "test"}
      /\ upset' \cap {"overlap", "test"} = upset \cap {"overlap", "test"}
  BY <1>t DEF AndroidTypeOK
<1>1. AndroidTypeOK'
  BY <1>t, <1>m, <1>s, <1>u DEF AndroidTypeOK
<1>2. MainInv' /\ RecentInv'
  BY <1>a, WorkerLeavesMain
<1>3. StageInv'
  <2>1. work[w].at # "serve"
    OBVIOUS
  <2> QED BY <2>1, <1>t, <1>m, <1>s, StagesFrame
<1>4. FdInv'
  <2>1. \A h \in fds : h \in Worker
    BY <1>t DEF AndroidTypeOK
  <2>2. \A h \in Worker : work[h].at \in {"look", "start"} => work'[h].at = work[h].at
    BY <1>m
  <2> QED BY <2>1, <2>2, <1>s, <1>t DEF FdInv
<1>5. CoreInv'
  BY <1>t, <1>m, <1>s, <1>u, CoreFrame
<1>6. ProtectInv'
  <2>1. \A v \in Worker : work'[v].at \in Protected => work[v].at \in Protected
    BY <1>m DEF Protected, Minding
  <2> QED BY <2>1, <1>m, <1>s, <1>t DEF ProtectInv
<1>7. OverlapInv'
  BY <1>t, <1>u DEF OverlapInv
<1> QED BY <1>1, <1>2, <1>3, <1>4, <1>5, <1>6, <1>7, <1>m, <1>s

\* What a worker that decides has in hand, as long as no handle was lost.
LEMMA Decider ==
    ASSUME AndroidInv, NEW w \in Worker, work[w].at \in {"hold", "check"}, "lost" \notin upset
    PROVE  /\ work[w].recent /\ main = AtRest /\ main.at = "idle" /\ work[w].inst = now /\ ~svc[now].abort
           /\ Mine(w) = svc[now] /\ IsActiveGeneration(w)
           /\ work[w].at = "check" => svc[now].handle = w
           /\ \A v \in Worker : work[v].at \in {"hold", "check"} => v = w
<1>t. AndroidTypeOK /\ RecentInv /\ KeptInv
  BY DEF AndroidInv
<1>1. \A v \in Worker : work[v].at \in {"hold", "check"} => work[v].recent /\ main = AtRest /\ ~svc[now].abort
  BY <1>t DEF KeptInv, Deciding
<1>2. work[w].recent /\ main = AtRest /\ ~svc[now].abort /\ work[w].inst = now
  BY <1>1, <1>t DEF RecentInv
<1>3. \A v \in Worker : work[v].at \in {"hold", "check"} => v = w
  BY <1>1, <1>2, <1>t DEF RecentInv
<1>4. work[w].at = "check" => svc[now].handle = w
  BY <1>t DEF KeptInv
<1>5. Mine(w) = svc[now]
  BY <1>2 DEF Mine
<1>6. IsActiveGeneration(w)
  BY <1>2, <1>5 DEF IsActiveGeneration
<1>7. main.at = "idle"
  BY <1>2 DEF AtRest
<1> QED BY <1>2, <1>3, <1>4, <1>5, <1>6, <1>7

LEMMA GotHandleKeeps ==
    ASSUME AndroidInv, NEW w \in Worker, GotHandle(w)
    PROVE  AndroidInv'
<1>t. /\ AndroidTypeOK /\ MainInv /\ StageInv /\ RecentInv /\ HandleInv /\ FdInv
      /\ KeptInv /\ WaitedInv /\ CoreInv /\ ProtectInv /\ OverlapInv
  BY DEF AndroidInv
<1>0. work[w].at = "got" /\ UNCHANGED <<now, main, fds, core>>
  BY DEF GotHandle
<1>g. "got" \in Minding
  BY DEF Minding
<1>1. CASE IsActiveGeneration(w)
  <2>1. /\ To(w, "hold") /\ UNCHANGED <<svc, sess>>
        /\ upset' = upset \cup (IF main.at # "idle" THEN {"lost"} ELSE {})
    BY <1>1 DEF GotHandle, Upset
  <2>2. "hold" \in WorkStage \ {"none"} /\ "hold" \in Minding
    BY DEF WorkStage, Minding
  <2>3. /\ AndroidTypeOK' /\ MainInv' /\ RecentInv' /\ StageInv' /\ FdInv'
        /\ CoreInv' /\ ProtectInv' /\ OverlapInv'
        /\ Worker' = Worker /\ work'[w].at = "hold"
        /\ \A v \in Worker : v # w => work'[v] = work[v]
        /\ \A v \in Worker : work'[v].recent = work[v].recent
        /\ \A h \in Worker : (InMap(h)' <=> InMap(h)) /\ (Runs(h)' => Runs(h))
    <3>1. svc' \in [1 .. Instances + 1 -> SvcRec] /\ upset \subseteq upset' /\ upset' \subseteq upset \cup {"lost", "unwaited"}
      BY <2>1, <1>t DEF AndroidTypeOK
    <3> QED BY <3>1, <2>1, <1>0, LooksFrame
  <2>4. HandleInv'
    BY <2>1, <2>2, <1>0, HandlesKept
  <2>5. KeptInv'
    <3> SUFFICES ASSUME "lost" \notin upset'
                 PROVE /\ \A v \in Worker : work'[v].recent => svc[now].handle \in {0, v}
                       /\ \A v \in Deciding' : work'[v].recent /\ main = AtRest /\ ~svc[now].abort
                       /\ \A v \in Worker : work'[v].at = "check" => svc[now].handle = v
                       /\ main.at \in {"wait", "clear"} => main.h = svc[now].handle
                       /\ main.at = "begin anew" => svc[now].handle = 0
                       /\ \A h \in Worker : Runs(h)' =>
                            \/ work'[h].at \in Minding
                            \/ svc[now].handle = h /\ main.at \notin {"wait", "clear"}
      BY <2>1, <2>3, <1>0 DEF KeptInv, AtRest
    <3>1. "lost" \notin upset /\ main.at = "idle" /\ main = AtRest
      BY <2>1, <1>t DEF MainInv
    <3>2. work[w].recent /\ ~svc[now].abort
      BY <1>1, <1>t DEF IsActiveGeneration, Mine, RecentInv
    <3>3. \A v \in Deciding' : v \in Worker /\ (v = w \/ v \in Deciding)
      BY <2>3 DEF Deciding
    <3>4. \A v \in Deciding : work[v].recent
      BY <3>1, <1>t DEF KeptInv
    <3>5. \A v \in Deciding' : work'[v].recent /\ main = AtRest /\ ~svc[now].abort
      BY <3>1, <3>2, <3>3, <3>4, <2>3
    <3>6. \A v \in Worker : work'[v].recent => svc[now].handle \in {0, v}
      BY <3>1, <2>3, <1>t DEF KeptInv
    <3>7. \A v \in Worker : work'[v].at = "check" => svc[now].handle = v
      BY <3>1, <2>3, <1>t DEF KeptInv
    <3>8. \A h \in Worker : Runs(h)' =>
                            \/ work'[h].at \in Minding
                            \/ svc[now].handle = h /\ main.at \notin {"wait", "clear"}
      BY <3>1, <2>2, <2>3, <1>t DEF KeptInv
    <3> QED BY <3>1, <3>5, <3>6, <3>7, <3>8
  <2>6. WaitedInv'
    <3>1. upset' \cap {"lost", "unwaited"} = {} => upset \cap {"lost", "unwaited"} = {}
      BY <2>1
    <3> QED BY <3>1, <2>1, <2>2, <2>3, <1>0, <1>t DEF WaitedInv
  <2> QED BY <2>3, <2>4, <2>5, <2>6 DEF AndroidInv
<1>2. CASE ~IsActiveGeneration(w)
  <2>1. /\ To(w, "over") /\ sess' = Cancelled(w) /\ w \in Nat
        /\ upset' = upset \cup {"unwaited"} \cup (IF work[w].mode = "tun" /\ Mine(w).handle # 0 THEN {"lost"} ELSE {})
    BY <1>2, <1>t DEF GotHandle, AndroidTypeOK
  <2>2. "over" \in WorkStage \ {"none"}
    BY DEF WorkStage
  <2>3. /\ svc' \in [1 .. Instances + 1 -> SvcRec]
        /\ \A i \in 1 .. Instances + 1 : svc'[i].handle \in {0, svc[i].handle} /\ svc'[i].abort = svc[i].abort
        /\ "lost" \notin upset' => \A i \in 1 .. Instances + 1 : svc'[i].handle = svc[i].handle
    <3>1. CASE work[w].mode = "tun"
      <4> DEFINE r == [Mine(w) EXCEPT !.handle = 0, !.fd = 0, !.stop = TRUE]
      <4>1. Mine(w) \in SvcRec
        BY <1>t, FlagsOfMine
      <4>2. r \in SvcRec /\ r.handle = 0 /\ r.abort = Mine(w).abort
        BY <4>1 DEF SvcRec
      <4>3. SetMine(w, r)
        BY <3>1, <1>2 DEF GotHandle
      <4>4. "lost" \notin upset' => Mine(w).handle = 0
        BY <3>1, <2>1
      <4> HIDE DEF r
      <4>5. /\ svc' \in [1 .. Instances + 1 -> SvcRec] /\ svc'[work[w].inst] = r
            /\ \A i \in 1 .. Instances + 1 : i # work[w].inst => svc'[i] = svc[i]
        BY <4>2, <4>3, <1>t, MineSet
      <4> QED BY <4>2, <4>4, <4>5 DEF Mine
    <3>2. CASE work[w].mode # "tun"
      BY <3>2, <1>2, <1>t DEF GotHandle, AndroidTypeOK
    <3> QED BY <3>1, <3>2
  <2>d. DOMAIN svc' = DOMAIN svc /\ DOMAIN svc = 1 .. Instances + 1 /\ now \in 1 .. Instances + 1
    BY <2>3, <1>t DEF AndroidTypeOK
  <2>4. /\ AndroidTypeOK' /\ MainInv' /\ RecentInv' /\ StageInv' /\ FdInv'
        /\ CoreInv' /\ ProtectInv' /\ OverlapInv'
        /\ Worker' = Worker /\ work'[w].at = "over"
        /\ \A v \in Worker : v # w => work'[v] = work[v]
        /\ \A v \in Worker : work'[v].recent = work[v].recent
        /\ \A h \in Worker : (InMap(h)' <=> InMap(h)) /\ (Runs(h)' => Runs(h))
    <3>1. upset \subseteq upset' /\ upset' \subseteq upset \cup {"lost", "unwaited"}
      BY <2>1
    <3> QED BY <3>1, <2>1, <2>3, <1>0, LooksFrame
  <2>5. HandleInv'
    BY <2>1, <2>2, <2>3, <2>d, <1>0, HandlesKept
  <2>6. KeptInv'
    <3>1. CASE "lost" \in upset'
      BY <3>1 DEF KeptInv
    <3>2. CASE "lost" \notin upset'
      <4>1. svc'[now'].handle = svc[now].handle /\ svc'[now'].abort = svc[now].abort
        BY <3>2, <2>3, <2>d, <1>0
      <4>2. ~Runs(w)'
        BY <2>1, <1>t, CancelledFacts
      <4>3. \A v \in Worker : Runs(v)' => work'[v].at \in Minding \/ (Runs(v) /\ work[v].at \notin Minding)
        BY <4>2, <2>4
      <4> QED BY <4>1, <4>3, <3>2, <2>1, <2>4, <1>0, <1>t, KeptFrame
    <3> QED BY <3>1, <3>2
  <2>7. WaitedInv'
    BY <2>1 DEF WaitedInv
  <2> QED BY <2>4, <2>5, <2>6, <2>7 DEF AndroidInv
<1> QED BY <1>1, <1>2

LEMMA HoldHandleKeeps ==
    ASSUME AndroidInv, NEW w \in Worker, HoldHandle(w)
    PROVE  AndroidInv'
<1>t. /\ AndroidTypeOK /\ MainInv /\ StageInv /\ RecentInv /\ HandleInv /\ FdInv
      /\ KeptInv /\ WaitedInv /\ CoreInv /\ ProtectInv /\ OverlapInv
  BY DEF AndroidInv
<1>0. work[w].at = "hold" /\ To(w, "check") /\ UNCHANGED <<now, main, sess, fds, core, upset>>
  BY DEF HoldHandle
<1>g. "check" \in Minding /\ "hold" \in Minding /\ w \in Nat \ {0}
  BY <1>t DEF Minding, AndroidTypeOK
<1>1. /\ svc' \in [1 .. Instances + 1 -> SvcRec] /\ work[w].inst \in 1 .. Instances + 1
      /\ svc'[work[w].inst].handle = w /\ svc'[work[w].inst].abort = Mine(w).abort
      /\ \A i \in 1 .. Instances + 1 : i # work[w].inst => svc'[i] = svc[i]
  <2> DEFINE r == [Mine(w) EXCEPT !.handle = w]
  <2>1. Mine(w) \in SvcRec
    BY <1>t, FlagsOfMine
  <2>2. r \in SvcRec /\ r.handle = w /\ r.abort = Mine(w).abort
    BY <2>1, <1>g DEF SvcRec
  <2>3. SetMine(w, r)
    BY DEF HoldHandle
  <2> HIDE DEF r
  <2> QED BY <2>2, <2>3, <1>t, MineSet
<1>2. /\ AndroidTypeOK' /\ MainInv' /\ RecentInv' /\ StageInv' /\ FdInv'
      /\ CoreInv' /\ ProtectInv' /\ OverlapInv'
      /\ Worker' = Worker /\ work'[w].at = "check"
      /\ \A v \in Worker : v # w => work'[v] = work[v]
      /\ \A v \in Worker : work'[v].recent = work[v].recent
      /\ \A h \in Worker : (InMap(h)' <=> InMap(h)) /\ (Runs(h)' => Runs(h))
  BY <1>0, <1>1, LooksFrame
<1>3. HandleInv'
  <2>1. DOMAIN svc' = 1 .. Instances + 1 /\ DOMAIN svc = 1 .. Instances + 1
    BY <1>1, <1>t DEF AndroidTypeOK
  <2> QED BY <2>1, <1>1, <1>2, <1>t DEF HandleInv
<1>4. "lost" \notin upset =>
        /\ svc'[now].handle = w /\ svc'[now].abort = svc[now].abort
        /\ work[w].recent /\ main = AtRest /\ main.at = "idle" /\ ~svc[now].abort
        /\ svc[now].handle \in {0, w}
        /\ \A v \in Worker : work[v].at \in {"hold", "check"} => v = w
  <2> SUFFICES ASSUME "lost" \notin upset
               PROVE  /\ svc'[now].handle = w /\ svc'[now].abort = svc[now].abort
                      /\ work[w].recent /\ main = AtRest /\ main.at = "idle" /\ ~svc[now].abort
                      /\ svc[now].handle \in {0, w}
                      /\ \A v \in Worker : work[v].at \in {"hold", "check"} => v = w
    OBVIOUS
  <2>1. /\ work[w].recent /\ main = AtRest /\ main.at = "idle" /\ work[w].inst = now /\ ~svc[now].abort
        /\ Mine(w) = svc[now] /\ \A v \in Worker : work[v].at \in {"hold", "check"} => v = w
    BY <1>0, Decider
  <2>2. svc[now].handle \in {0, w}
    BY <2>1, <1>t DEF KeptInv
  <2> QED BY <2>1, <2>2, <1>1
<1>5. KeptInv'
  <2> SUFFICES ASSUME "lost" \notin upset
               PROVE /\ \A v \in Worker : work'[v].recent => svc'[now].handle \in {0, v}
                     /\ \A v \in Deciding' : work'[v].recent /\ main = AtRest /\ ~svc'[now].abort
                     /\ \A v \in Worker : work'[v].at = "check" => svc'[now].handle = v
                     /\ main.at \in {"wait", "clear"} => main.h = svc'[now].handle
                     /\ main.at = "begin anew" => svc'[now].handle = 0
                     /\ \A h \in Worker : Runs(h)' =>
                          \/ work'[h].at \in Minding
                          \/ svc'[now].handle = h /\ main.at \notin {"wait", "clear"}
    BY <1>0, <1>2 DEF KeptInv, AtRest
  <2>1. \A v \in Worker : work'[v].recent => v = w
    BY <1>2, <1>4, <1>t DEF RecentInv
  <2>2. \A v \in Deciding' : v = w
    BY <1>2, <1>4 DEF Deciding
  <2>3. \A h \in Worker : Runs(h)' => work'[h].at \in Minding
    <3> SUFFICES ASSUME NEW h \in Worker, Runs(h)', h # w PROVE work[h].at \in Minding
      BY <1>2, <1>g
    <3>1. Runs(h) /\ h # 0
      BY <1>2, <1>t DEF AndroidTypeOK
    <3> QED BY <3>1, <1>4, <1>t DEF KeptInv
  <2>4. \A v \in Worker : work'[v].at = "check" => v = w
    BY <1>2, <1>4
  <2> QED BY <2>1, <2>2, <2>3, <2>4, <1>2, <1>4
<1>6. WaitedInv'
  <2> SUFFICES ASSUME upset \cap {"lost", "unwaited"} = {}, NEW h \in Worker, InMap(h)'
               PROVE  work'[h].at \in Minding
    BY <1>0, <1>2 DEF WaitedInv
  <2>1. InMap(h) /\ h # 0 /\ "lost" \notin upset
    BY <1>2, <1>t DEF AndroidTypeOK
  <2>2. h = w \/ work[h].at \in Minding
    BY <2>1, <1>4, <1>t DEF WaitedInv
  <2> QED BY <2>2, <1>2, <1>g
<1> QED BY <1>2, <1>3, <1>5, <1>6 DEF AndroidInv

LEMMA CheckHandleKeeps ==
    ASSUME AndroidInv, NEW w \in Worker, CheckHandle(w)
    PROVE  AndroidInv'
<1>t. /\ AndroidTypeOK /\ MainInv /\ StageInv /\ RecentInv /\ HandleInv /\ FdInv
      /\ KeptInv /\ WaitedInv /\ CoreInv /\ ProtectInv /\ OverlapInv
  BY DEF AndroidInv
<1>0. work[w].at = "check" /\ To(w, "over") /\ UNCHANGED <<now, main, fds, core, upset>>
  BY DEF CheckHandle
<1>a. "over" \in WorkStage \ {"none"}
  BY DEF WorkStage
<1> DEFINE stale == IF work[w].mode = "tun" THEN ~IsActiveGeneration(w) ELSE Mine(w).abort
<1>1. CASE stale
  <2>1. "lost" \in upset
    <3> SUFFICES ASSUME "lost" \notin upset PROVE FALSE
      OBVIOUS
    <3>1. IsActiveGeneration(w) /\ ~Mine(w).abort
      BY <1>0, Decider
    <3> QED BY <3>1, <1>1
  <2>2. sess' = Cancelled(Mine(w).handle) /\ Mine(w).handle \in Nat
    <3>1. Mine(w) \in SvcRec
      BY <1>t, FlagsOfMine
    <3> QED BY <3>1, <1>1 DEF CheckHandle, SvcRec
  <2>3. /\ svc' \in [1 .. Instances + 1 -> SvcRec]
        /\ \A i \in 1 .. Instances + 1 : svc'[i].handle \in {0, svc[i].handle}
    <3> DEFINE f == IF work[w].mode = "tun" THEN 0 ELSE Mine(w).fd
               r == [Mine(w) EXCEPT !.handle = 0, !.fd = f, !.stop = TRUE]
    <3>1. Mine(w) \in SvcRec /\ f \in Nat
      BY <1>t, FlagsOfMine
    <3>2. SetMine(w, r)
      BY <1>1 DEF CheckHandle
    <3> HIDE DEF f
    <3>3. r \in SvcRec /\ r.handle = 0
      BY <3>1 DEF SvcRec
    <3> HIDE DEF r
    <3>4. /\ svc' \in [1 .. Instances + 1 -> SvcRec] /\ svc'[work[w].inst] = r
          /\ \A i \in 1 .. Instances + 1 : i # work[w].inst => svc'[i] = svc[i]
      BY <3>2, <3>3, <1>t, MineSet
    <3> QED BY <3>3, <3>4
  <2>4. /\ AndroidTypeOK' /\ MainInv' /\ RecentInv' /\ StageInv' /\ FdInv'
        /\ CoreInv' /\ ProtectInv' /\ OverlapInv'
    <3> HIDE DEF stale
    <3> QED BY <2>2, <2>3, <1>0, LooksFrame
  <2>5. HandleInv'
    <3>1. DOMAIN svc' = DOMAIN svc /\ DOMAIN svc = 1 .. Instances + 1
      BY <2>3, <1>t DEF AndroidTypeOK
    <3> QED BY <3>1, <2>3, <1>0, <1>a, HandlesKept
  <2>6. KeptInv' /\ WaitedInv'
    BY <2>1, <1>0 DEF KeptInv, WaitedInv
  <2> QED BY <2>4, <2>5, <2>6 DEF AndroidInv
<1>2. CASE ~stale
  <2>1. UNCHANGED <<sess, svc>>
    BY <1>2 DEF CheckHandle
  <2>2. svc' \in [1 .. Instances + 1 -> SvcRec]
    BY <2>1, <1>t DEF AndroidTypeOK
  <2> HIDE DEF stale
  <2>3. /\ AndroidTypeOK' /\ MainInv' /\ RecentInv' /\ StageInv' /\ FdInv'
        /\ CoreInv' /\ ProtectInv' /\ OverlapInv'
        /\ Worker' = Worker /\ work'[w].at = "over"
        /\ \A v \in Worker : v # w => work'[v] = work[v]
        /\ \A v \in Worker : work'[v].recent = work[v].recent
        /\ \A h \in Worker : (InMap(h)' <=> InMap(h)) /\ (Runs(h)' => Runs(h))
    BY <2>1, <2>2, <1>0, LooksFrame
  <2>4. HandleInv'
    BY <2>1, <1>0, <1>a, HandlesKept
  <2>5. "lost" \notin upset => svc[now].handle = w /\ main = AtRest /\ main.at = "idle"
    BY <1>0, Decider
  <2>6. KeptInv'
    <3> SUFFICES ASSUME "lost" \notin upset
                 PROVE /\ \A v \in Worker : work'[v].recent => svc[now].handle \in {0, v}
                       /\ \A v \in Deciding' : work'[v].recent /\ main = AtRest /\ ~svc[now].abort
                       /\ \A v \in Worker : work'[v].at = "check" => svc[now].handle = v
                       /\ main.at \in {"wait", "clear"} => main.h = svc[now].handle
                       /\ main.at = "begin anew" => svc[now].handle = 0
                       /\ \A h \in Worker : Runs(h)' =>
                            \/ work'[h].at \in Minding
                            \/ svc[now].handle = h /\ main.at \notin {"wait", "clear"}
      BY <1>0, <2>1, <2>3 DEF KeptInv, AtRest
    <3>1. \A v \in Worker : v # w => work[v].at \notin {"hold", "check"}
      BY <1>0, Decider
    <3>2. Deciding' = {}
      BY <3>1, <2>3 DEF Deciding
    <3>3. \A v \in Worker : work'[v].recent => svc[now].handle \in {0, v}
      BY <2>3, <1>t DEF KeptInv
    <3>4. \A v \in Worker : work'[v].at # "check"
      BY <3>1, <2>3
    <3>5. \A h \in Worker : Runs(h)' =>
                            \/ work'[h].at \in Minding
                            \/ svc[now].handle = h /\ main.at \notin {"wait", "clear"}
      BY <2>3, <2>5, <1>t DEF KeptInv
    <3> QED BY <2>5, <3>2, <3>3, <3>4, <3>5
  <2>7. WaitedInv'
    BY <2>1, <2>3, <2>5, <1>0, <1>t DEF WaitedInv
  <2> QED BY <2>3, <2>4, <2>6, <2>7 DEF AndroidInv
<1> QED BY <1>1, <1>2

----------------------------------------------------------------------------
\* The service does not notice the goroutine of a session.
LEMMA SessionFrame ==
    ASSUME AndroidInv, NEW h \in Worker, NEW r \in SessRec, sess' = [sess EXCEPT ![h] = r],
           UNCHANGED <<svc, now, main, work, upset>>, fds' \subseteq fds,
           sess[h].at \in {"new", "run", "unhooked"}, r.at \in {"run", "unhooked", "gone"},
           InMap(h)' => InMap(h), Runs(h)' => Runs(h),
           core' \in [hook : BOOLEAN, protector : BOOLEAN, writer : Nat], core'.protector = core.protector
    PROVE  /\ AndroidTypeOK' /\ MainInv' /\ RecentInv' /\ StageInv' /\ HandleInv'
           /\ KeptInv' /\ WaitedInv' /\ ProtectInv' /\ OverlapInv'
           /\ Worker' = Worker /\ sess'[h] = r
           /\ \A g \in Worker : g # h => sess'[g] = sess[g] /\ InMap(g)' = InMap(g)
<1>t. /\ AndroidTypeOK /\ MainInv /\ StageInv /\ RecentInv /\ HandleInv /\ FdInv
      /\ KeptInv /\ WaitedInv /\ CoreInv /\ ProtectInv /\ OverlapInv
  BY DEF AndroidInv
<1>w. Worker' = Worker
  BY DEF Worker
<1>s. /\ sess' \in [Worker -> SessRec] /\ sess'[h] = r
      /\ \A g \in Worker : g # h => sess'[g] = sess[g] /\ InMap(g)' = InMap(g)
      /\ \A g \in Worker : (InMap(g)' => InMap(g)) /\ (Runs(g)' => Runs(g))
  BY <1>t, SessionSet
<1>1. AndroidTypeOK'
  BY <1>t, <1>w, <1>s DEF AndroidTypeOK
<1>2. MainInv' /\ RecentInv' /\ OverlapInv'
  BY <1>t, <1>w DEF MainInv, RecentInv, OverlapInv, AtRest
<1>3. StageInv'
  <2>1. work[h].at \notin Early /\ work[h].at # "serve"
    BY <1>t, EarlyHasNone DEF StageInv
  <2> SUFFICES ASSUME NEW v \in Worker
               PROVE  /\ work[v].at \in Early => sess'[v] = NoSession
                      /\ work[v].at = "serve" <=> sess'[v].at = "set up"
                      /\ work[v].at = "serve" => work[v].mode = "dpi"
                      /\ work[v].at \in {"build", "establish", "look"} \/ v \in fds' => work[v].mode = "tun"
    BY <1>w DEF StageInv
  <2>2. CASE v = h
    BY <2>1, <2>2, <1>s, <1>t DEF StageInv
  <2>3. CASE v # h
    BY <2>3, <1>s, <1>t DEF StageInv
  <2> QED BY <2>2, <2>3
<1>4. HandleInv'
  BY <1>t, <1>w DEF HandleInv
<1>5. KeptInv'
  <2>1. \A v \in Worker : Runs(v)' => work'[v].at \in Minding \/ (Runs(v) /\ work[v].at \notin Minding)
    BY <1>s
  <2> QED BY <2>1, <1>w, <1>t, KeptFrame
<1>6. WaitedInv'
  BY <1>t, <1>w, <1>s DEF WaitedInv
<1>7. ProtectInv'
  BY <1>t, <1>w, <1>s DEF ProtectInv
<1> QED BY <1>1, <1>2, <1>3, <1>4, <1>5, <1>6, <1>7, <1>w, <1>s

\* The core's globals when the session h, alone in the map, changes stage.
LEMMA LoneSession ==
    ASSUME CoreInv, upset \cap {"overlap", "test"} = {}, NEW h \in Worker, InMap(h)
    PROVE  /\ core.writer = h /\ sess[h].old = 0
           /\ \A g \in Worker : g # h => ~InMap(g) /\ sess[g].at # "run"
           /\ core.hook <=> sess[h].at = "run" /\ work[h].mode # "dpi"
<1>1. core.writer = h /\ sess[h].old = 0 /\ \A g \in Worker : g # h => ~InMap(g)
  BY DEF CoreInv
<1>2. \A g \in Worker : g # h => sess[g].at # "run"
  BY <1>1 DEF InMap
<1> QED BY <1>1, <1>2 DEF CoreInv

LEMMA SessionStepsKeep ==
    ASSUME AndroidInv, NEW h \in Worker, SessionSteps(h)
    PROVE  AndroidInv'
<1>t. /\ AndroidTypeOK /\ MainInv /\ StageInv /\ RecentInv /\ HandleInv /\ FdInv
      /\ KeptInv /\ WaitedInv /\ CoreInv /\ ProtectInv /\ OverlapInv
  BY DEF AndroidInv
<1>c. /\ core \in [hook : BOOLEAN, protector : BOOLEAN, writer : Nat]
      /\ sess \in [Worker -> SessRec] /\ sess[h] \in SessRec /\ sess[h].old \in Nat
      /\ sess[h].unopened \in BOOLEAN
  <2>1. sess[h] \in SessRec
    BY <1>t DEF AndroidTypeOK
  <2> QED BY <2>1, <1>t DEF AndroidTypeOK, SessRec
<1>f. \A g \in fds : g \in Worker
  BY <1>t DEF AndroidTypeOK
<1>1. CASE Launch(h)
  <2> DEFINE r == [sess[h] EXCEPT !.at = "run"]
             b == core.hook \/ work[h].mode # "dpi"
  <2>1. /\ sess[h].at = "new" /\ sess' = [sess EXCEPT ![h] = r] /\ core' = [core EXCEPT !.hook = b]
        /\ UNCHANGED <<svc, now, main, work, upset>> /\ fds' = fds
    BY <1>1, <1>c DEF Launch
  <2>b. b \in BOOLEAN
    OBVIOUS
  <2>r. r \in SessRec /\ r.at = "run" /\ r.old = sess[h].old /\ r.unopened = sess[h].unopened /\ r.cancelled = sess[h].cancelled
    BY <1>c DEF SessRec, SessStage
  <2> HIDE DEF r
  <2>2. /\ core' \in [hook : BOOLEAN, protector : BOOLEAN, writer : Nat]
        /\ core'.protector = core.protector /\ core'.writer = core.writer /\ core'.hook = b
    <3> HIDE DEF b
    <3> QED BY <2>1, <2>b, <1>c
  <2>h. core'.hook <=> (core.hook \/ work[h].mode # "dpi")
    BY <2>2
  <2> HIDE DEF b
  <2>i. InMap(h) /\ InMap(h)' /\ (Runs(h)' => Runs(h))
    <3>1. sess'[h] = r
      BY <2>1, <1>c
    <3> QED BY <3>1, <2>1, <2>r DEF InMap, Runs
  <2>3. /\ AndroidTypeOK' /\ MainInv' /\ RecentInv' /\ StageInv' /\ HandleInv'
        /\ KeptInv' /\ WaitedInv' /\ ProtectInv' /\ OverlapInv'
        /\ Worker' = Worker /\ sess'[h] = r
        /\ \A g \in Worker : g # h => sess'[g] = sess[g] /\ InMap(g)' = InMap(g)
    BY <2>1, <2>r, <2>2, <2>i, SessionFrame
  <2>4. FdInv'
    BY <2>1, <2>r, <2>3, <1>f, <1>t DEF FdInv
  <2>5. CoreInv'
    <3> SUFFICES ASSUME upset \cap {"overlap", "test"} = {}
                 PROVE  /\ \A g, k \in Worker : InMap(g)' /\ InMap(k)' => g = k
                        /\ \A k \in Worker : InMap(k)' => core'.writer = k /\ sess'[k].old = 0
                        /\ (\A k \in Worker : ~InMap(k)') => core'.writer = 0
                        /\ core'.hook <=> \E k \in Worker : sess'[k].at = "run" /\ work[k].mode # "dpi"
      BY <2>1, <2>3 DEF CoreInv
    <3>1. /\ core.writer = h /\ sess[h].old = 0 /\ ~core.hook
          /\ \A g \in Worker : g # h => ~InMap(g) /\ sess[g].at # "run"
      BY <2>1, <2>i, <1>t, LoneSession
    <3>2. core'.hook <=> work[h].mode # "dpi"
      BY <3>1, <2>h
    <3>3. \A g \in Worker : g # h => ~InMap(g)' /\ sess'[g].at # "run"
      BY <3>1, <2>3
    <3>4. sess'[h].at = "run" /\ sess'[h].old = 0
      BY <3>1, <2>3, <2>r
    <3> QED BY <3>1, <3>2, <3>3, <3>4, <2>2, <2>i
  <2> QED BY <2>3, <2>4, <2>5 DEF AndroidInv
<1>2. CASE RunReturns(h)
  <2>0. PICK opened \in BOOLEAN :
          /\ opened \/ work[h].mode = "tun"
          /\ sess' = [sess EXCEPT ![h].at = "unhooked", ![h].unopened = ~opened]
          /\ fds' = IF opened THEN fds \ {h} ELSE fds
    BY <1>2 DEF RunReturns
  <2> DEFINE u == ~opened
             r == [sess[h] EXCEPT !.at = "unhooked", !.unopened = u]
             b == core.hook /\ work[h].mode = "dpi"
  <2>1. /\ sess[h].at = "run" /\ sess' = [sess EXCEPT ![h] = r] /\ core' = [core EXCEPT !.hook = b]
        /\ UNCHANGED <<svc, now, main, work, upset>> /\ fds' \subseteq fds
    BY <1>2, <2>0, <1>c DEF RunReturns
  <2>b. b \in BOOLEAN /\ u \in BOOLEAN
    OBVIOUS
  <2>u. h \in fds' => u
    BY <2>0
  <2> HIDE DEF u
  <2>r. r \in SessRec /\ r.at = "unhooked" /\ r.old = sess[h].old /\ r.unopened = u
    BY <2>b, <1>c DEF SessRec, SessStage
  <2> HIDE DEF r
  <2>2. /\ core' \in [hook : BOOLEAN, protector : BOOLEAN, writer : Nat]
        /\ core'.protector = core.protector /\ core'.writer = core.writer /\ core'.hook = b
    <3> HIDE DEF b
    <3> QED BY <2>1, <2>b, <1>c
  <2>h. core'.hook <=> (core.hook /\ work[h].mode = "dpi")
    BY <2>2
  <2> HIDE DEF b
  <2>i. InMap(h) /\ InMap(h)' /\ ~Runs(h)'
    <3>1. sess'[h] = r
      BY <2>1, <1>c
    <3> QED BY <3>1, <2>1, <2>r DEF InMap, Runs
  <2>3. /\ AndroidTypeOK' /\ MainInv' /\ RecentInv' /\ StageInv' /\ HandleInv'
        /\ KeptInv' /\ WaitedInv' /\ ProtectInv' /\ OverlapInv'
        /\ Worker' = Worker /\ sess'[h] = r
        /\ \A g \in Worker : g # h => sess'[g] = sess[g] /\ InMap(g)' = InMap(g)
    BY <2>1, <2>r, <2>2, <2>i, SessionFrame
  <2>4. FdInv'
    <3> SUFFICES ASSUME NEW g \in fds'
                 PROVE  work[g].at \in {"look", "start"} \/ sess'[g].at \in {"new", "run"} \/ sess'[g].unopened
      BY <2>1 DEF FdInv
    <3>1. CASE g = h
      BY <3>1, <2>u, <2>r, <2>3
    <3>2. CASE g # h
      BY <3>2, <2>1, <2>3, <1>f, <1>t DEF FdInv
    <3> QED BY <3>1, <3>2
  <2>5. CoreInv'
    <3> SUFFICES ASSUME upset \cap {"overlap", "test"} = {}
                 PROVE  /\ \A g, k \in Worker : InMap(g)' /\ InMap(k)' => g = k
                        /\ \A k \in Worker : InMap(k)' => core'.writer = k /\ sess'[k].old = 0
                        /\ (\A k \in Worker : ~InMap(k)') => core'.writer = 0
                        /\ core'.hook <=> \E k \in Worker : sess'[k].at = "run" /\ work[k].mode # "dpi"
      BY <2>1, <2>3 DEF CoreInv
    <3>1. /\ core.writer = h /\ sess[h].old = 0 /\ (core.hook <=> work[h].mode # "dpi")
          /\ \A g \in Worker : g # h => ~InMap(g) /\ sess[g].at # "run"
      BY <2>1, <2>i, <1>t, LoneSession
    <3>2. ~core'.hook
      BY <3>1, <2>h
    <3>3. \A g \in Worker : g # h => ~InMap(g)' /\ sess'[g].at # "run"
      BY <3>1, <2>3
    <3>4. sess'[h].at = "unhooked" /\ sess'[h].old = 0
      BY <3>1, <2>3, <2>r
    <3> QED BY <3>1, <3>2, <3>3, <3>4, <2>2, <2>i
  <2> QED BY <2>3, <2>4, <2>5 DEF AndroidInv
<1>3. CASE CleanUp(h)
  <2> DEFINE r == [Gone EXCEPT !.unopened = sess[h].unopened]
  <2>1. /\ sess[h].at = "unhooked" /\ sess' = [sess EXCEPT ![h] = r] /\ core' = [core EXCEPT !.writer = sess[h].old]
        /\ UNCHANGED <<svc, now, main, work, upset>> /\ fds' = fds
    BY <1>3 DEF CleanUp
  <2>r. r \in SessRec /\ r.at = "gone" /\ r.unopened = sess[h].unopened
    BY <1>c DEF SessRec, SessStage, Gone, NoSession
  <2> HIDE DEF r
  <2>2. /\ core' \in [hook : BOOLEAN, protector : BOOLEAN, writer : Nat]
        /\ core'.protector = core.protector /\ core'.writer = sess[h].old /\ core'.hook = core.hook
    BY <2>1, <1>c
  <2>i. InMap(h) /\ ~InMap(h)' /\ ~Runs(h)'
    <3>1. sess'[h] = r
      BY <2>1, <1>c
    <3> QED BY <3>1, <2>1, <2>r DEF InMap, Runs
  <2>3. /\ AndroidTypeOK' /\ MainInv' /\ RecentInv' /\ StageInv' /\ HandleInv'
        /\ KeptInv' /\ WaitedInv' /\ ProtectInv' /\ OverlapInv'
        /\ Worker' = Worker /\ sess'[h] = r
        /\ \A g \in Worker : g # h => sess'[g] = sess[g] /\ InMap(g)' = InMap(g)
    BY <2>1, <2>r, <2>2, <2>i, SessionFrame
  <2>4. FdInv'
    BY <2>1, <2>r, <2>3, <1>f, <1>t DEF FdInv
  <2>5. CoreInv'
    <3> SUFFICES ASSUME upset \cap {"overlap", "test"} = {}
                 PROVE  /\ \A g, k \in Worker : InMap(g)' /\ InMap(k)' => g = k
                        /\ \A k \in Worker : InMap(k)' => core'.writer = k /\ sess'[k].old = 0
                        /\ (\A k \in Worker : ~InMap(k)') => core'.writer = 0
                        /\ core'.hook <=> \E k \in Worker : sess'[k].at = "run" /\ work[k].mode # "dpi"
      BY <2>1, <2>3 DEF CoreInv
    <3>1. /\ sess[h].old = 0 /\ ~core.hook
          /\ \A g \in Worker : g # h => ~InMap(g) /\ sess[g].at # "run"
      BY <2>1, <2>i, <1>t, LoneSession
    <3>3. \A g \in Worker : ~InMap(g)' /\ sess'[g].at # "run"
      BY <3>1, <2>3, <2>i, <2>r
    <3> QED BY <3>1, <3>3, <2>2
  <2> QED BY <2>3, <2>4, <2>5 DEF AndroidInv
<1> QED BY <1>1, <1>2, <1>3 DEF SessionSteps

LEMMA SelfTestKeeps ==
    ASSUME AndroidInv, SelfTest
    PROVE  AndroidInv'
<1>t. /\ AndroidTypeOK /\ MainInv /\ StageInv /\ RecentInv /\ HandleInv /\ FdInv
      /\ KeptInv /\ WaitedInv /\ CoreInv /\ ProtectInv /\ OverlapInv
  BY DEF AndroidInv
<1>1. /\ core' = [core EXCEPT !.hook = FALSE] /\ upset' = upset \cup {"test"}
      /\ UNCHANGED <<svc, now, main, work, sess, fds>> /\ Worker' = Worker
  BY DEF SelfTest, Worker
<1>2. core' \in [hook : BOOLEAN, protector : BOOLEAN, writer : Nat] /\ core'.protector = core.protector
  BY <1>1, <1>t DEF AndroidTypeOK
<1>3. AndroidTypeOK'
  BY <1>1, <1>2, <1>t DEF AndroidTypeOK
<1>4. MainInv' /\ StageInv' /\ RecentInv' /\ HandleInv' /\ FdInv'
  BY <1>1, <1>t DEF MainInv, AtRest, StageInv, RecentInv, HandleInv, FdInv
<1>5. KeptInv'
  BY <1>1, <1>t DEF KeptInv, Deciding, AtRest, Runs
<1>6. WaitedInv'
  <2>1. upset' \cap {"lost", "unwaited"} = {} => upset \cap {"lost", "unwaited"} = {}
    BY <1>1
  <2> QED BY <2>1, <1>1, <1>t DEF WaitedInv, InMap
<1>7. CoreInv'
  BY <1>1 DEF CoreInv
<1>8. ProtectInv'
  BY <1>1, <1>2, <1>t DEF ProtectInv, InMap
<1>9. OverlapInv'
  BY <1>1, <1>t DEF OverlapInv
<1> QED BY <1>3, <1>4, <1>5, <1>6, <1>7, <1>8, <1>9 DEF AndroidInv

----------------------------------------------------------------------------
\* The main thread.

LEMMA AgedFacts ==
    ASSUME AndroidTypeOK
    PROVE  /\ DOMAIN Aged = Worker /\ Aged \in [Worker -> WorkRec]
           /\ \A v \in Worker : /\ Aged[v].at = work[v].at /\ Aged[v].mode = work[v].mode
                                /\ Aged[v].inst = work[v].inst /\ ~Aged[v].recent
<1>1. \A v \in Worker : work[v] \in WorkRec
  BY DEF AndroidTypeOK
<1>2. \A v \in Worker : Aged[v] = [work[v] EXCEPT !.recent = FALSE]
  BY DEF Aged
<1>3. \A v \in Worker : /\ Aged[v] \in WorkRec
                        /\ Aged[v].at = work[v].at /\ Aged[v].mode = work[v].mode
                        /\ Aged[v].inst = work[v].inst /\ ~Aged[v].recent
  BY <1>1, <1>2 DEF WorkRec
<1>4. DOMAIN Aged = Worker /\ Aged \in [Worker -> WorkRec]
  BY <1>3 DEF Aged
<1> QED BY <1>3, <1>4

\* A command that is being carried out has no worker beside it that decides,
\* or the handle is lost.
LEMMA NobodyDecides ==
    ASSUME AndroidInv, main.at # "idle", "lost" \notin upset
    PROVE  \A v \in Worker : work[v].at \notin {"hold", "check"}
BY Decider

\* A command arrives: a start, a stop or a destroy.
LEMMA CommandKeeps ==
    ASSUME AndroidInv, OnStart \/ OnStop \/ OnDestroy
    PROVE  AndroidInv'
<1>t. /\ AndroidTypeOK /\ MainInv /\ StageInv /\ RecentInv /\ HandleInv /\ FdInv
      /\ KeptInv /\ WaitedInv /\ CoreInv /\ ProtectInv /\ OverlapInv
  BY DEF AndroidInv
<1>1. PICK c \in {"start", "stop", "destroy"} :
        /\ Command(c) /\ Listening /\ UNCHANGED <<now, sess, fds, core>>
        /\ (c = "start" /\ work' = work) \/ work' = Aged
  BY DEF OnStart, OnStop, OnDestroy
<1>2. /\ main' = [at |-> "begin", then |-> c, h |-> 0] /\ main = AtRest /\ now <= Instances
      /\ upset' = upset \cup (IF Deciding # {} THEN {"lost"} ELSE {})
  BY <1>1 DEF Command, Upset, Listening
<1>3. main'.at = "begin" /\ main'.then = c /\ main.at = "idle" /\ main' \in [at : MainStage, then : {"none", "start", "stop", "destroy"}, h : Nat]
  BY <1>2 DEF AtRest, MainStage
<1>m. /\ Worker' = Worker /\ work' \in [Worker -> WorkRec]
      /\ \A v \in Worker : /\ work'[v].at = work[v].at /\ work'[v].mode = work[v].mode
                           /\ work'[v].inst = work[v].inst
                           /\ work'[v].recent => work[v].recent /\ c = "start"
  <2>1. CASE c = "start" /\ work' = work
    BY <2>1, <1>t DEF Worker, AndroidTypeOK
  <2>2. CASE work' = Aged
    BY <2>2, <1>t, AgedFacts DEF Worker
  <2> QED BY <1>1, <2>1, <2>2
<1>v. /\ svc' \in [1 .. Instances + 1 -> SvcRec]
      /\ \A i \in 1 .. Instances + 1 : svc'[i].handle = svc[i].handle
  <2>1. CASE OnStop
    <3>1. svc' = [svc EXCEPT ![now].abort = TRUE]
      BY <2>1 DEF OnStop
    <3>2. svc \in [1 .. Instances + 1 -> SvcRec] /\ now \in 1 .. Instances + 1
      BY <1>t DEF AndroidTypeOK
    <3> QED BY <3>1, <3>2 DEF SvcRec
  <2>2. CASE OnStart \/ OnDestroy
    BY <2>2, <1>t DEF OnStart, OnDestroy, AndroidTypeOK
  <2> QED BY <2>1, <2>2
<1>s. svc'[now].handle = svc[now].handle /\ DOMAIN svc' = DOMAIN svc /\ DOMAIN svc = 1 .. Instances + 1
  BY <1>v, <1>t DEF AndroidTypeOK
<1>i. \A h \in Worker : InMap(h)' = InMap(h) /\ Runs(h)' = Runs(h)
  BY <1>1 DEF InMap, Runs
<1>u. /\ upset' \subseteq {"lost", "overlap", "unwaited", "test"} /\ upset \subseteq upset'
      /\ upset' \cap {"overlap", "test"} = upset \cap {"overlap", "test"}
      /\ "lost" \notin upset' => Deciding = {}
  <2>1. upset \subseteq {"lost", "overlap", "unwaited", "test"}
    BY <1>t DEF AndroidTypeOK
  <2> QED BY <2>1, <1>2
<1>4. AndroidTypeOK'
  BY <1>1, <1>3, <1>m, <1>v, <1>u, <1>t DEF AndroidTypeOK
<1>5. MainInv'
  <2>1. main' # AtRest
    BY <1>3 DEF AtRest
  <2> QED BY <2>1, <1>1, <1>2, <1>3 DEF MainInv, AtRest
<1>6. StageInv'
  BY <1>1, <1>m, <1>t DEF StageInv
<1>7. RecentInv'
  BY <1>1, <1>3, <1>m, <1>t DEF RecentInv
<1>8. HandleInv'
  BY <1>m, <1>v, <1>s, <1>t DEF HandleInv
<1>9. FdInv'
  BY <1>1, <1>m, <1>t DEF FdInv, AndroidTypeOK
<1>10. KeptInv'
  <2> SUFFICES ASSUME "lost" \notin upset'
               PROVE /\ \A v \in Worker : work'[v].recent => svc'[now].handle \in {0, v}
                     /\ Deciding' = {}
                     /\ \A v \in Worker : work'[v].at = "check" => svc'[now].handle = v
                     /\ \A h \in Worker : Runs(h)' => work'[h].at \in Minding \/ svc'[now].handle = h
    BY <1>1, <1>3, <1>m DEF KeptInv
  <2>1. Deciding = {} /\ "lost" \notin upset
    BY <1>u
  <2>2. Deciding' = {}
    BY <2>1, <1>m DEF Deciding
  <2>3. \A v \in Worker : work'[v].recent => svc'[now].handle \in {0, v}
    BY <2>1, <1>m, <1>s, <1>t DEF KeptInv
  <2>4. \A v \in Worker : work'[v].at = "check" => svc'[now].handle = v
    BY <2>1, <1>m, <1>s, <1>t DEF KeptInv
  <2>5. \A h \in Worker : Runs(h)' => work'[h].at \in Minding \/ svc'[now].handle = h
    BY <2>1, <1>m, <1>s, <1>i, <1>t DEF KeptInv
  <2> QED BY <2>2, <2>3, <2>4, <2>5
<1>11. WaitedInv'
  <2>1. upset' \cap {"lost", "unwaited"} = {} => upset \cap {"lost", "unwaited"} = {}
    BY <1>u
  <2> QED BY <2>1, <1>1, <1>3, <1>m, <1>s, <1>i, <1>t DEF WaitedInv
<1>12. CoreInv'
  BY <1>1, <1>m, <1>i, <1>u, <1>t, CoreFrame
<1>13. ProtectInv'
  BY <1>1, <1>3, <1>m, <1>i, <1>t DEF ProtectInv
<1>14. OverlapInv'
  BY <1>u, <1>t DEF OverlapInv
<1> QED BY <1>4, <1>5, <1>6, <1>7, <1>8, <1>9, <1>10, <1>11, <1>12, <1>13, <1>14 DEF AndroidInv

\* A start without a usable profile changes nothing that matters here.
LEMMA OnStartEmptyKeeps ==
    ASSUME AndroidInv, OnStartEmpty
    PROVE  AndroidInv'
<1>t. /\ AndroidTypeOK /\ MainInv /\ StageInv /\ RecentInv /\ HandleInv /\ FdInv
      /\ KeptInv /\ WaitedInv /\ CoreInv /\ ProtectInv /\ OverlapInv
  BY DEF AndroidInv
<1>1. /\ svc' = [svc EXCEPT ![now].stop = TRUE] /\ UNCHANGED <<now, main, work, sess, fds, core, upset>>
      /\ Worker' = Worker
  BY DEF OnStartEmpty, Worker
<1>2. svc \in [1 .. Instances + 1 -> SvcRec] /\ now \in 1 .. Instances + 1
  BY <1>t DEF AndroidTypeOK
<1>3. /\ svc' \in [1 .. Instances + 1 -> SvcRec]
      /\ \A i \in 1 .. Instances + 1 : svc'[i].handle = svc[i].handle /\ svc'[i].abort = svc[i].abort
  BY <1>1, <1>2 DEF SvcRec
<1>4. AndroidTypeOK'
  BY <1>1, <1>3, <1>t DEF AndroidTypeOK
<1>5. MainInv' /\ StageInv' /\ RecentInv' /\ FdInv' /\ OverlapInv'
  BY <1>1, <1>t DEF MainInv, AtRest, StageInv, RecentInv, FdInv, OverlapInv
<1>6. HandleInv'
  BY <1>1, <1>2, <1>3, <1>t DEF HandleInv
<1>7. KeptInv'
  <2>1. \A v \in Worker : Runs(v)' => work'[v].at \in Minding \/ (Runs(v) /\ work[v].at \notin Minding)
    BY <1>1 DEF Runs
  <2> QED BY <2>1, <1>1, <1>2, <1>3, <1>t, KeptFrame
<1>8. WaitedInv'
  BY <1>1, <1>2, <1>3, <1>t DEF WaitedInv, InMap
<1>9. CoreInv' /\ ProtectInv'
  BY <1>1, <1>t DEF CoreInv, ProtectInv, InMap
<1> QED BY <1>4, <1>5, <1>6, <1>7, <1>8, <1>9 DEF AndroidInv

\* stopActive up to its wait.
LEMMA StopActiveKeeps ==
    ASSUME AndroidInv, StopActive
    PROVE  AndroidInv'
<1>t. /\ AndroidTypeOK /\ MainInv /\ StageInv /\ RecentInv /\ HandleInv /\ FdInv
      /\ KeptInv /\ WaitedInv /\ CoreInv /\ ProtectInv /\ OverlapInv
  BY DEF AndroidInv
<1> DEFINE k == svc[now].handle
           a == IF k # 0 THEN "wait" ELSE "clear"
<1>1. /\ main.at = "begin" /\ main' = [main EXCEPT !.at = a, !.h = k]
      /\ core' = [core EXCEPT !.protector = FALSE] /\ sess' = Cancelled(k)
      /\ UNCHANGED <<svc, now, work, upset>> /\ fds' \subseteq fds /\ Worker' = Worker
  BY DEF StopActive, Worker
<1>k. k \in Nat /\ a \in {"wait", "clear"} /\ (a = "clear" => k = 0)
  <2>1. svc[now] \in SvcRec
    BY <1>t DEF AndroidTypeOK
  <2> QED BY <2>1 DEF SvcRec
<1>s. /\ sess' \in [Worker -> SessRec]
      /\ \A h \in Worker : /\ sess'[h].at = sess[h].at /\ sess'[h].old = sess[h].old
                           /\ sess'[h].unopened = sess[h].unopened
      /\ \A h \in Worker : InMap(h)' = InMap(h) /\ (Runs(h)' => Runs(h) /\ h # k)
      /\ \A h \in Worker : sess[h] = NoSession => sess'[h] = NoSession
  <2> HIDE DEF k
  <2> QED BY <1>1, <1>t, CancelledFacts
<1>h. svc[now].handle = k
  OBVIOUS
<1> HIDE DEF k, a
<1>2. /\ main' \in [at : MainStage, then : {"none", "start", "stop", "destroy"}, h : Nat]
      /\ main'.at = a /\ main'.h = k /\ main'.then = main.then
  BY <1>1, <1>k, <1>t DEF AndroidTypeOK, MainStage
<1>3. /\ core' \in [hook : BOOLEAN, protector : BOOLEAN, writer : Nat]
      /\ core'.hook = core.hook /\ core'.writer = core.writer
  BY <1>1, <1>t DEF AndroidTypeOK
<1>4. AndroidTypeOK'
  BY <1>1, <1>2, <1>3, <1>s, <1>t DEF AndroidTypeOK
<1>5. MainInv'
  <2>1. main' # AtRest
    BY <1>2, <1>k DEF AtRest
  <2> QED BY <2>1, <1>1, <1>2, <1>k, <1>t DEF MainInv, AtRest
<1>6. StageInv'
  BY <1>1, <1>s, <1>t, StagesFrame
<1>7. RecentInv' /\ HandleInv' /\ OverlapInv'
  BY <1>1, <1>2, <1>t DEF RecentInv, HandleInv, OverlapInv
<1>8. FdInv'
  BY <1>1, <1>s, <1>t DEF FdInv, AndroidTypeOK
<1>9. KeptInv'
  <2> SUFFICES ASSUME "lost" \notin upset
               PROVE /\ \A v \in Worker : work[v].recent => k \in {0, v}
                     /\ Deciding' = {}
                     /\ \A v \in Worker : work[v].at # "check"
                     /\ \A h \in Worker : Runs(h)' => work[h].at \in Minding
    BY <1>1, <1>2, <1>h, <1>k DEF KeptInv
  <2>1. \A v \in Worker : work[v].at \notin {"hold", "check"}
    BY <1>1, NobodyDecides
  <2>2. Deciding' = {}
    BY <2>1, <1>1 DEF Deciding
  <2>3. \A v \in Worker : work[v].recent => k \in {0, v}
    BY <1>h, <1>t DEF KeptInv
  <2>4. \A h \in Worker : Runs(h)' => work[h].at \in Minding
    BY <1>h, <1>s, <1>t DEF KeptInv
  <2> QED BY <2>1, <2>2, <2>3, <2>4
<1>10. WaitedInv'
  <2>1. \A h \in Worker : h # 0
    BY <1>t DEF AndroidTypeOK
  <2> QED BY <2>1, <1>1, <1>2, <1>h, <1>k, <1>s, <1>t DEF WaitedInv
<1>11. CoreInv'
  BY <1>1, <1>3, <1>s, <1>t, CoreFrame
<1>12. ProtectInv'
  BY <1>2, <1>k DEF ProtectInv
<1> QED BY <1>4, <1>5, <1>6, <1>7, <1>8, <1>9, <1>10, <1>11, <1>12 DEF AndroidInv

\* Its wait: the session has ended, or the wait is noted.
LEMMA WaitCoreStoppedKeeps ==
    ASSUME AndroidInv, WaitCoreStopped
    PROVE  AndroidInv'
<1>t. /\ AndroidTypeOK /\ MainInv /\ StageInv /\ RecentInv /\ HandleInv /\ FdInv
      /\ KeptInv /\ WaitedInv /\ CoreInv /\ ProtectInv /\ OverlapInv
  BY DEF AndroidInv
<1>1. /\ main.at = "wait" /\ main' = [main EXCEPT !.at = "clear"]
      /\ upset' = upset \cup (IF InMap(main.h) THEN {"unwaited"} ELSE {})
      /\ UNCHANGED <<svc, now, work, sess, fds, core>> /\ Worker' = Worker
  BY DEF WaitCoreStopped, Upset, Worker
<1>2. /\ main' \in [at : MainStage, then : {"none", "start", "stop", "destroy"}, h : Nat]
      /\ main'.at = "clear" /\ main'.h = main.h /\ main'.then = main.then
  BY <1>1, <1>t DEF AndroidTypeOK, MainStage
<1>u. /\ upset' \subseteq {"lost", "overlap", "unwaited", "test"} /\ upset \subseteq upset'
      /\ upset' \cap {"overlap", "test"} = upset \cap {"overlap", "test"}
      /\ "lost" \in upset' <=> "lost" \in upset
  <2>1. upset \subseteq {"lost", "overlap", "unwaited", "test"}
    BY <1>t DEF AndroidTypeOK
  <2> QED BY <2>1, <1>1
<1>i. \A h \in Worker : InMap(h)' = InMap(h) /\ Runs(h)' = Runs(h)
  BY <1>1 DEF InMap, Runs
<1>4. AndroidTypeOK'
  BY <1>1, <1>2, <1>u, <1>t DEF AndroidTypeOK
<1>5. MainInv'
  <2>1. main' # AtRest
    BY <1>2 DEF AtRest
  <2> QED BY <2>1, <1>1, <1>2, <1>t DEF MainInv, AtRest
<1>6. StageInv' /\ HandleInv' /\ FdInv'
  BY <1>1, <1>t DEF StageInv, HandleInv, FdInv
<1>7. RecentInv'
  BY <1>1, <1>2, <1>t DEF RecentInv
<1>8. KeptInv'
  <2> SUFFICES ASSUME "lost" \notin upset
               PROVE /\ \A v \in Worker : work[v].recent => svc[now].handle \in {0, v}
                     /\ Deciding' = {}
                     /\ \A v \in Worker : work[v].at # "check"
                     /\ main.h = svc[now].handle
                     /\ \A h \in Worker : Runs(h)' => work[h].at \in Minding
    BY <1>1, <1>2, <1>u DEF KeptInv
  <2>1. \A v \in Worker : work[v].at \notin {"hold", "check"}
    BY <1>1, NobodyDecides
  <2>2. Deciding' = {}
    BY <2>1, <1>1 DEF Deciding
  <2>3. /\ \A v \in Worker : work[v].recent => svc[now].handle \in {0, v}
        /\ main.h = svc[now].handle
    BY <1>1, <1>t DEF KeptInv
  <2>4. \A h \in Worker : Runs(h)' => work[h].at \in Minding
    BY <1>1, <1>i, <1>t DEF KeptInv
  <2> QED BY <2>1, <2>2, <2>3, <2>4
<1>9. WaitedInv'
  <2> SUFFICES ASSUME upset' \cap {"lost", "unwaited"} = {}, NEW h \in Worker, InMap(h)
               PROVE  work[h].at \in Minding
    BY <1>1, <1>i DEF WaitedInv
  <2>1. upset \cap {"lost", "unwaited"} = {} /\ "lost" \notin upset /\ ~InMap(main.h)
    BY <1>1
  <2>2. main.h = svc[now].handle
    BY <2>1, <1>1, <1>t DEF KeptInv
  <2> QED BY <2>1, <2>2, <1>t DEF WaitedInv
<1>10. CoreInv'
  BY <1>1, <1>i, <1>u, <1>t, CoreFrame
<1>11. ProtectInv'
  BY <1>2 DEF ProtectInv
<1>12. OverlapInv'
  BY <1>u, <1>t DEF OverlapInv
<1> QED BY <1>4, <1>5, <1>6, <1>7, <1>8, <1>9, <1>10, <1>11, <1>12 DEF AndroidInv

\* The rest of stopActive and of the command.
LEMMA ClearFieldsKeeps ==
    ASSUME AndroidInv, ClearFields
    PROVE  AndroidInv'
<1>t. /\ AndroidTypeOK /\ MainInv /\ StageInv /\ RecentInv /\ HandleInv /\ FdInv
      /\ KeptInv /\ WaitedInv /\ CoreInv /\ ProtectInv /\ OverlapInv
  BY DEF AndroidInv
<1>1. /\ main.at = "clear" /\ UNCHANGED <<work, sess, fds, core, upset>> /\ Worker' = Worker
      /\ main' = IF main.then = "start" THEN [main EXCEPT !.at = "begin anew"] ELSE AtRest
      /\ now' = IF main.then = "destroy" THEN now + 1 ELSE now
  BY DEF ClearFields, Worker
<1>n. now \in 1 .. Instances + 1 /\ now <= Instances /\ Instances \in Nat /\ main.then \in {"start", "stop", "destroy"}
  BY <1>1, <1>t, AndroidBounds DEF AndroidTypeOK, MainInv
<1>2. now' \in 1 .. Instances + 1 /\ (main.then # "destroy" => now' = now)
  <2>1. CASE main.then = "destroy"
    <3>1. now' = now + 1
      BY <2>1, <1>1
    <3> QED BY <3>1, <2>1, <1>n
  <2>2. CASE main.then # "destroy"
    <3>1. now' = now
      BY <2>2, <1>1
    <3> QED BY <3>1, <1>n
  <2> QED BY <2>1, <2>2
<1>3. /\ main' \in [at : MainStage, then : {"none", "start", "stop", "destroy"}, h : Nat]
      /\ main.then = "start" => main'.at = "begin anew" /\ main'.then = "start"
      /\ main.then # "start" => main' = AtRest /\ main'.at = "idle" /\ main'.then = "none"
  BY <1>1, <1>t DEF AndroidTypeOK, MainStage, AtRest
<1>v. /\ svc' \in [1 .. Instances + 1 -> SvcRec] /\ svc'[now].handle = 0
      /\ \A i \in 1 .. Instances + 1 : i # now => svc'[i] = svc[i]
  <2> DEFINE b == svc[now].stop \/ main.then = "stop"
             r == [svc[now] EXCEPT !.handle = 0, !.fd = 0, !.stop = b]
  <2>1. svc[now] \in SvcRec /\ svc \in [1 .. Instances + 1 -> SvcRec]
    BY <1>t DEF AndroidTypeOK
  <2>2. svc' = [svc EXCEPT ![now] = r]
    BY DEF ClearFields
  <2>3. b \in BOOLEAN
    OBVIOUS
  <2> HIDE DEF b
  <2>4. r \in SvcRec /\ r.handle = 0
    BY <2>1, <2>3 DEF SvcRec
  <2> HIDE DEF r
  <2> QED BY <2>1, <2>2, <2>4, <1>n
<1>r. main.then # "start" => \A w \in Worker : ~work[w].recent
  BY <1>n, <1>t DEF RecentInv
<1>i. \A h \in Worker : InMap(h)' = InMap(h) /\ Runs(h)' = Runs(h)
  BY <1>1 DEF InMap, Runs
<1>4. AndroidTypeOK'
  BY <1>1, <1>2, <1>3, <1>v, <1>t DEF AndroidTypeOK
<1>5. MainInv'
  <2>1. CASE main.then = "start"
    <3>0. main'.at = "begin anew" /\ AtRest.at = "idle"
      BY <2>1, <1>3 DEF AtRest
    <3>1. main' # AtRest
      BY <3>0
    <3> QED BY <3>0, <3>1, <2>1, <1>2, <1>3, <1>n DEF MainInv, AtRest
  <2>2. CASE main.then # "start"
    BY <2>2, <1>3 DEF MainInv, AtRest
  <2> QED BY <2>1, <2>2
<1>6. StageInv' /\ FdInv' /\ OverlapInv'
  BY <1>1, <1>t DEF StageInv, FdInv, OverlapInv
<1>7. RecentInv'
  BY <1>1, <1>2, <1>3, <1>r, <1>t DEF RecentInv
<1>8. HandleInv'
  <2>1. DOMAIN svc' = 1 .. Instances + 1 /\ DOMAIN svc = 1 .. Instances + 1
    BY <1>v, <1>t DEF AndroidTypeOK
  <2> QED BY <2>1, <1>1, <1>v, <1>t DEF HandleInv
<1>m. "lost" \notin upset => /\ \A v \in Worker : work[v].at \notin {"hold", "check"}
                             /\ \A h \in Worker : Runs(h)' => work[h].at \in Minding
  BY <1>1, <1>i, <1>t, NobodyDecides DEF KeptInv
<1>9. KeptInv'
  <2> SUFFICES ASSUME "lost" \notin upset
               PROVE /\ \A v \in Worker : work[v].recent => svc'[now'].handle \in {0, v}
                     /\ Deciding' = {}
                     /\ \A v \in Worker : work[v].at # "check"
                     /\ main'.at \notin {"wait", "clear"}
                     /\ main'.at = "begin anew" => svc'[now'].handle = 0
                     /\ \A h \in Worker : Runs(h)' => work[h].at \in Minding
    BY <1>1 DEF KeptInv
  <2>1. Deciding' = {}
    BY <1>m, <1>1 DEF Deciding
  <2>2. \A v \in Worker : work[v].recent => svc'[now'].handle \in {0, v}
    BY <1>2, <1>r, <1>v
  <2>3. main'.at \notin {"wait", "clear"} /\ (main'.at = "begin anew" => svc'[now'].handle = 0)
    BY <1>2, <1>3, <1>v
  <2> QED BY <2>1, <2>2, <2>3, <1>m
<1>10. WaitedInv'
  <2> SUFFICES ASSUME upset \cap {"lost", "unwaited"} = {}, NEW h \in Worker, InMap(h)
               PROVE  work[h].at \in Minding
    BY <1>1, <1>i DEF WaitedInv
  <2> QED BY <1>1, <1>t DEF WaitedInv
<1>11. CoreInv'
  BY <1>1, <1>i, <1>t, CoreFrame
<1>12. ProtectInv'
  BY <1>1, <1>3, <1>r DEF ProtectInv
<1> QED BY <1>4, <1>5, <1>6, <1>7, <1>8, <1>9, <1>10, <1>11, <1>12 DEF AndroidInv

\* A start begins a generation.
LEMMA BeginGenerationKeeps ==
    ASSUME AndroidInv, BeginGeneration
    PROVE  AndroidInv'
<1>t. /\ AndroidTypeOK /\ MainInv /\ StageInv /\ RecentInv /\ HandleInv /\ FdInv
      /\ KeptInv /\ WaitedInv /\ CoreInv /\ ProtectInv /\ OverlapInv
  BY DEF AndroidInv
<1>0. PICK w \in Worker :
        /\ work[w].at = "none"
        /\ work' = [Aged EXCEPT ![w] = [@ EXCEPT !.at = "probe", !.inst = now, !.recent = TRUE]]
  BY DEF BeginGeneration
<1>1. /\ main.at = "begin anew" /\ main' = AtRest /\ svc' = [svc EXCEPT ![now].abort = FALSE]
      /\ UNCHANGED <<now, sess, fds, core, upset>>
  BY DEF BeginGeneration
<1>2. /\ main' \in [at : MainStage, then : {"none", "start", "stop", "destroy"}, h : Nat]
      /\ main'.at = "idle" /\ main'.then = "none" /\ now \in 1 .. Instances + 1
  BY <1>1, <1>t DEF AndroidTypeOK, MainStage, AtRest
<1>m. /\ Worker' = Worker /\ work' \in [Worker -> WorkRec]
      /\ work'[w].at = "probe" /\ work'[w].inst = now
      /\ \A v \in Worker : v # w => work'[v].at = work[v].at
      /\ \A v \in Worker : work'[v].mode = work[v].mode
      /\ \A v \in Worker : work'[v].recent => v = w
  <2>1. /\ DOMAIN Aged = Worker /\ Aged \in [Worker -> WorkRec]
        /\ \A v \in Worker : /\ Aged[v].at = work[v].at /\ Aged[v].mode = work[v].mode
                             /\ Aged[v].inst = work[v].inst /\ ~Aged[v].recent
    BY <1>t, AgedFacts
  <2> DEFINE A == Aged
             r == [A[w] EXCEPT !.at = "probe", !.inst = now, !.recent = TRUE]
  <2>2. work' = [A EXCEPT ![w] = r]
    BY <1>0
  <2>3. /\ DOMAIN A = Worker /\ A \in [Worker -> WorkRec] /\ A[w] \in WorkRec
        /\ \A v \in Worker : A[v].at = work[v].at /\ A[v].mode = work[v].mode /\ ~A[v].recent
    BY <2>1
  <2> HIDE DEF A
  <2>4. r \in WorkRec /\ r.at = "probe" /\ r.inst = now /\ r.mode = work[w].mode
    BY <2>3, <1>2 DEF WorkRec, WorkStage, Early
  <2> HIDE DEF r
  <2>5. work' \in [Worker -> WorkRec] /\ DOMAIN work' = Worker
    BY <2>2, <2>3, <2>4
  <2>6. work'[w] = r /\ \A v \in Worker : v # w => work'[v] = A[v]
    BY <2>2, <2>3
  <2> QED BY <2>3, <2>4, <2>5, <2>6 DEF Worker
<1>v. /\ svc' \in [1 .. Instances + 1 -> SvcRec]
      /\ \A i \in 1 .. Instances + 1 : svc'[i].handle = svc[i].handle
  <2>1. svc \in [1 .. Instances + 1 -> SvcRec]
    BY <1>t DEF AndroidTypeOK
  <2> QED BY <2>1, <1>1, <1>2 DEF SvcRec
<1>n. sess[w].at = "none" /\ ~InMap(w) /\ ~Runs(w) /\ w \notin fds
  <2>1. work[w].at \in Early /\ work[w].at \notin {"look", "start"}
    BY <1>0 DEF Early
  <2>2. sess[w].at = "none" /\ ~sess[w].unopened /\ ~InMap(w) /\ ~Runs(w)
    BY <2>1, <1>t, EarlyHasNone
  <2> QED BY <2>1, <2>2, <1>t DEF FdInv
<1>i. \A h \in Worker : InMap(h)' = InMap(h) /\ Runs(h)' = Runs(h)
  BY <1>1 DEF InMap, Runs
<1>4. AndroidTypeOK'
  BY <1>1, <1>2, <1>m, <1>v, <1>t DEF AndroidTypeOK
<1>5. MainInv'
  BY <1>1, <1>2 DEF MainInv, AtRest
<1>6. StageInv'
  <2>1. "none" \in Early /\ "probe" \in Early
    BY DEF Early
  <2> SUFFICES ASSUME NEW v \in Worker
               PROVE  /\ work'[v].at \in Early => sess[v] = NoSession
                      /\ work'[v].at = "serve" <=> sess[v].at = "set up"
                      /\ work'[v].at = "serve" => work'[v].mode = "dpi"
                      /\ work'[v].at \in {"build", "establish", "look"} \/ v \in fds => work'[v].mode = "tun"
    BY <1>m, <1>1 DEF StageInv
  <2>2. CASE v = w
    BY <2>1, <2>2, <1>0, <1>m, <1>n, <1>t DEF StageInv
  <2>3. CASE v # w
    BY <2>3, <1>m, <1>t DEF StageInv
  <2> QED BY <2>2, <2>3
<1>7. RecentInv'
  BY <1>1, <1>2, <1>m, <1>t DEF RecentInv
<1>8. HandleInv'
  <2>1. DOMAIN svc' = 1 .. Instances + 1 /\ DOMAIN svc = 1 .. Instances + 1
    BY <1>v, <1>t DEF AndroidTypeOK
  <2>2. \A i \in DOMAIN svc : svc[i].handle # w
    BY <2>1, <1>0, <1>t DEF HandleInv, AndroidTypeOK
  <2> QED BY <2>1, <2>2, <1>m, <1>v, <1>t DEF HandleInv
<1>9. FdInv'
  <2>1. \A h \in fds : h \in Worker /\ h # w
    BY <1>n, <1>t DEF AndroidTypeOK
  <2> QED BY <2>1, <1>1, <1>m, <1>t DEF FdInv
<1>z. "lost" \notin upset => svc[now].handle = 0 /\ svc'[now].handle = 0
  BY <1>1, <1>2, <1>v, <1>t DEF KeptInv
<1>o. \A h \in Worker : h # 0
  BY <1>t DEF AndroidTypeOK
<1>10. KeptInv'
  <2> SUFFICES ASSUME "lost" \notin upset
               PROVE /\ Deciding' = {} /\ svc'[now].handle = 0
                     /\ \A v \in Worker : work'[v].at # "check"
                     /\ \A h \in Worker : Runs(h)' => work'[h].at \in Minding
    BY <1>1, <1>2, <1>m DEF KeptInv
  <2>1. \A v \in Worker : work'[v].at \notin {"hold", "check"}
    BY <1>1, <1>m, NobodyDecides
  <2>2. Deciding' = {}
    BY <2>1, <1>m DEF Deciding
  <2>3. \A h \in Worker : Runs(h) => work[h].at \in Minding
    BY <1>z, <1>o, <1>t DEF KeptInv
  <2>4. \A h \in Worker : Runs(h)' => work'[h].at \in Minding
    BY <2>3, <1>i, <1>m, <1>n
  <2> QED BY <2>1, <2>2, <2>4, <1>z
<1>11. WaitedInv'
  <2> SUFFICES ASSUME upset \cap {"lost", "unwaited"} = {}, NEW h \in Worker, InMap(h)
               PROVE  work'[h].at \in Minding
    BY <1>1, <1>i, <1>m DEF WaitedInv
  <2>1. work[h].at \in Minding
    BY <1>z, <1>o, <1>t DEF WaitedInv
  <2> QED BY <2>1, <1>m, <1>n
<1>12. CoreInv'
  BY <1>1, <1>m, <1>i, <1>t, CoreFrame
<1>13. ProtectInv'
  <2>1. "probe" \notin Protected
    BY DEF Protected, Minding
  <2> QED BY <2>1, <1>m, <1>n, <1>i DEF ProtectInv
<1>14. OverlapInv'
  BY <1>1, <1>t DEF OverlapInv
<1> QED BY <1>4, <1>5, <1>6, <1>7, <1>8, <1>9, <1>10, <1>11, <1>12, <1>13, <1>14 DEF AndroidInv

----------------------------------------------------------------------------
LEMMA AndroidInitHolds == AndroidInit => AndroidInv
<1> SUFFICES ASSUME AndroidInit PROVE AndroidInv
  OBVIOUS
<1>0. PICK plan \in Plans :
         /\ work = [w \in 1 .. Len(plan) |-> [at |-> "none", mode |-> plan[w], inst |-> 1, recent |-> FALSE]]
         /\ sess = [w \in 1 .. Len(plan) |-> NoSession]
  BY DEF AndroidInit
<1>1. /\ svc = [i \in 1 .. Instances + 1 |-> [handle |-> 0, fd |-> 0, abort |-> FALSE, stop |-> FALSE]]
      /\ now = 1 /\ main = AtRest /\ fds = {} /\ upset = {}
      /\ core = [hook |-> FALSE, protector |-> FALSE, writer |-> 0]
  BY DEF AndroidInit
<1>2. Worker = 1 .. Len(plan) /\ Worker \subseteq Nat \ {0}
  BY <1>0, AndroidBounds DEF Worker
<1>3. Instances \in Nat \ {0} /\ now \in 1 .. Instances + 1 /\ 1 \in 1 .. Instances + 1
  BY <1>1, AndroidBounds
<1>4. \A w \in Worker : /\ work[w].at = "none" /\ ~work[w].recent /\ sess[w] = NoSession
                        /\ sess[w].at = "none" /\ ~InMap(w) /\ ~Runs(w)
  BY <1>0, <1>2 DEF NoSession, InMap, Runs
<1>5. AndroidTypeOK
  <2>1. work \in [Worker -> WorkRec]
    <3>1. \A w \in Worker : plan[w] \in {"tun", "proxy", "dpi"}
      BY <1>2, AndroidBounds
    <3> QED BY <3>1, <1>0, <1>2, <1>3 DEF WorkRec, WorkStage, Early
  <2>2. sess \in [Worker -> SessRec]
    <3>1. NoSession \in SessRec
      BY DEF NoSession, SessRec, SessStage
    <3> QED BY <3>1, <1>0, <1>2
  <2>3. svc \in [1 .. Instances + 1 -> SvcRec]
    BY <1>1 DEF SvcRec
  <2>4. main \in [at : MainStage, then : {"none", "start", "stop", "destroy"}, h : Nat]
    BY <1>1 DEF AtRest, MainStage
  <2> QED BY <2>1, <2>2, <2>3, <2>4, <1>1, <1>2, <1>3 DEF AndroidTypeOK
<1>m. main.at = "idle" /\ main.then = "none"
  BY <1>1 DEF AtRest
<1>6. MainInv
  BY <1>1, <1>m DEF MainInv
<1>7. StageInv
  BY <1>1, <1>4 DEF StageInv
<1>8. RecentInv
  BY <1>4, <1>m DEF RecentInv
<1>9. HandleInv
  BY <1>1 DEF HandleInv
<1>10. FdInv /\ OverlapInv
  BY <1>1 DEF FdInv, OverlapInv
<1>11. KeptInv
  <2>1. Deciding = {}
    BY <1>4 DEF Deciding
  <2> QED BY <2>1, <1>4, <1>m DEF KeptInv
<1>12. WaitedInv /\ CoreInv
  BY <1>1, <1>4 DEF WaitedInv, CoreInv
<1>13. ProtectInv
  BY <1>4 DEF ProtectInv
<1> QED BY <1>5, <1>6, <1>7, <1>8, <1>9, <1>10, <1>11, <1>12, <1>13 DEF AndroidInv

LEMMA AndroidStepKeeps == AndroidInv /\ [AndroidNext]_androidVars => AndroidInv'
<1> SUFFICES ASSUME AndroidInv, [AndroidNext]_androidVars PROVE AndroidInv'
  OBVIOUS
<1>1. CASE UNCHANGED androidVars
  <2>1. UNCHANGED <<svc, now, main, work, sess, fds, core, upset>> /\ Worker' = Worker
    BY <1>1 DEF androidVars, Worker
  <2>2. AndroidTypeOK' /\ MainInv' /\ StageInv' /\ RecentInv' /\ HandleInv' /\ FdInv'
    BY <2>1 DEF AndroidInv, AndroidTypeOK, MainInv, AtRest, StageInv, RecentInv, HandleInv, FdInv
  <2>3. KeptInv' /\ WaitedInv' /\ CoreInv' /\ ProtectInv' /\ OverlapInv'
    BY <2>1 DEF AndroidInv, KeptInv, WaitedInv, CoreInv, ProtectInv, OverlapInv, Deciding, Runs, InMap, AtRest
  <2> QED BY <2>2, <2>3 DEF AndroidInv
<1>2. CASE OnStart \/ OnStop \/ OnDestroy \/ OnStartEmpty \/ StopActive \/ WaitCoreStopped \/ ClearFields
           \/ BeginGeneration
  BY <1>2, CommandKeeps, OnStartEmptyKeeps, StopActiveKeeps, WaitCoreStoppedKeeps, ClearFieldsKeeps, BeginGenerationKeeps
<1>3. ASSUME NEW w \in Worker, WorkerSteps(w) PROVE AndroidInv'
  BY <1>3, BeforeTheSession, ServeFailsKeeps, StartCoreKeeps, ServeKeeps, GotHandleKeeps, HoldHandleKeeps,
     CheckHandleKeeps DEF WorkerSteps
<1>4. ASSUME NEW w \in Worker, SessionSteps(w) PROVE AndroidInv'
  BY <1>4, SessionStepsKeep
<1>5. CASE SelfTest
  BY <1>5, SelfTestKeeps
<1> QED BY <1>1, <1>2, <1>3, <1>4, <1>5 DEF AndroidNext

\* The invariant of the Android service and its core, for every plan of starts
\* and every number of instances.
THEOREM AndroidInvariant == AndroidSpec => []AndroidInv
BY AndroidInitHolds, AndroidStepKeeps, PTL DEF AndroidSpec

\* A session nobody has stopped can be stopped, and every open TUN descriptor
\* has an owner (VolterVpnService.stopActive, startTunInternal; vpn.Run).
THEOREM NoSessionOutOfReach == AndroidSpec => []SessionsReachable
<1>1. AndroidInv => SessionsReachable
  BY DEF AndroidInv, KeptInv, FdInv, SessionsReachable, Minding
<1> QED BY <1>1, AndroidInvariant, PTL

\* The hook, the log writer and the protector belong to the session that runs,
\* unless sessions overlapped or a self-test ran; and sessions overlap only
\* after a wait that ran out, a lost handle or a stale worker's session
\* (bind.go: logSetup, installSocketProtect and the deferred calls).
THEOREM GlobalsBelong == AndroidSpec => []GlobalsOwned
<1>1. AndroidInv => GlobalsOwned
  <2> SUFFICES ASSUME AndroidInv PROVE GlobalsOwned
    OBVIOUS
  <2>t. AndroidTypeOK /\ CoreInv /\ ProtectInv /\ OverlapInv
    BY DEF AndroidInv
  <2>1. ASSUME upset \cap {"overlap", "test"} = {}
        PROVE  /\ \A h \in Worker : sess[h].at = "run" /\ work[h].mode # "dpi" => core.hook
               /\ \A h \in Worker : sess[h].at \in {"new", "run"} => core.writer = h
               /\ (\A h \in Worker : sess[h].at \in {"none", "gone"}) => core.writer = 0 /\ ~core.hook
    <3>1. \A h \in Worker : sess[h].at \in {"new", "run"} => InMap(h)
      BY DEF InMap
    <3>2. \A h \in Worker : sess[h].at \in {"none", "gone"} => ~InMap(h) /\ sess[h].at # "run"
      BY DEF InMap
    <3> QED BY <3>1, <3>2, <2>1, <2>t DEF CoreInv
  <2>2. ASSUME main = AtRest, NEW h \in Worker, Runs(h), work[h].recent PROVE core.protector
    <3>1. main.at = "idle" /\ InMap(h)
      BY <2>2 DEF AtRest, Runs, InMap
    <3> QED BY <3>1, <2>2, <2>t DEF ProtectInv
  <2> QED BY <2>1, <2>2, <2>t DEF GlobalsOwned, OverlapInv
<1> QED BY <1>1, AndroidInvariant, PTL
=============================================================================
