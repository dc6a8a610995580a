---------------------------- MODULE UdpSessions ----------------------------
(***************************************************************************)
(* UdpSessions: the table of UDP sessions (one datagram channel each), the *)
(* selector thread that reads their replies, and the writers that queue    *)
(* replies to the clients.  SessionHandler.handleUdp runs one handler      *)
(* thread per client channel; it owns one writer and feeds onFrame.        *)
(*                                                                         *)
(* The table is a ConcurrentHashMap without a lock around it: closeSession *)
(* is called by handlers (send failure, eviction, end of the channel) and  *)
(* by the selector (read failure, idle clean-up) for a session that was    *)
(* looked up earlier, and removes whatever the key now maps to.            *)
(*                                                                         *)
(* Time is left out: any session in the table may be the oldest one or an  *)
(* idle one.  So is what the frames carry, and the writers' queues.        *)
(***************************************************************************)
EXTENDS Integers, FiniteSets

CONSTANTS
  Writer,        \* client channels: a handler thread and a writer each, used once
  Flow,          \* (address type, source port, destination) of a frame
  Key,           \* the writer and flow pairs the clients use
  Gen,           \* tells the sessions created for one key apart
  Session,       \* the session objects, each of a key and a generation
  MaxSessions,   \* MAX_UDP_SESSIONS
  EvictBatch,    \* EVICT_BATCH
  MaxHandlers,   \* threads that can run handleUdp: those of the pools
  None

ASSUME NameAssumption ==
  /\ IsFiniteSet(Writer) /\ None \notin Gen /\ Key \subseteq Writer \X Flow
  /\ Session \subseteq Key \X Gen
ASSUME LimitAssumption ==
  {MaxSessions, EvictBatch, MaxHandlers} \subseteq Nat \ {0}

KeyOf(s) == s[1]
WriterOf(s) == s[1][1]
NoSession == <<<<None, None>>, None>>

VARIABLES
  table,     \* sessions: what each key maps to
  created,   \* the session objects made so far, each once
  opened,    \* those whose datagram channel is open
  hpc, hflow, hand, evicted,   \* handler: stage, frame, session in hand, evictions
  spc, target,                 \* selector: stage, session it works on
  \* History, none of it read by the code: sessions a stale closeSession
  \* removed without closing; channels a failed createSession left open;
  \* handlers one of whose evictions has removed a session; how often a
  \* handler went past a full table on evictions that had removed nothing,
  \* since the table was last below its cap.
  orphans, stray, useful, blind

tableVars == <<table, opened, orphans, created, stray, blind>>
handlerVars == <<hpc, hflow, hand, evicted, useful>>
selectorVars == <<spc, target>>
vars == <<tableVars, handlerVars, selectorVars>>

TypeOK ==
  /\ table \in [Key -> Session \union {NoSession}]
  /\ opened \subseteq created /\ created \subseteq Session /\ orphans \subseteq Session
  /\ hpc \in [Writer -> {"none", "read", "evict", "evictClose", "create", "put", "send",
                         "sendClose", "leave", "sweep", "sweepClose", "gone"}]
  /\ hflow \in [Writer -> Flow \union {None}] /\ hand \in [Writer -> Session \union {NoSession}]
  /\ evicted \in [Writer -> 0..EvictBatch] /\ useful \subseteq Writer
  /\ stray \subseteq Session /\ blind \in Nat
  /\ spc \in {"select", "read", "close", "dead"} /\ target \in Session \union {NoSession}

Init ==
  /\ table = [k \in Key |-> NoSession]
  /\ opened = {} /\ created = {} /\ orphans = {} /\ stray = {} /\ useful = {} /\ blind = 0
  /\ hpc = [w \in Writer |-> "none"] /\ hflow = [w \in Writer |-> None]
  /\ hand = [w \in Writer |-> NoSession] /\ evicted = [w \in Writer |-> 0]
  /\ spc = "select" /\ target = NoSession

-----------------------------------------------------------------------------
Mapped == {table[k] : k \in Key} \ {NoSession}
HKey(w) == <<w, hflow[w]>>
HGoto(w, stage) == hpc' = [hpc EXCEPT ![w] = stage]

\* Mutant: a session that was only closed is still in the table.
CloseWithoutRemove(k, s) ==
  /\ opened' = opened \ {s}
  /\ UNCHANGED <<table, orphans, created, stray, blind>>

\* closeSession: removes by key, closes only if that was the session meant.
CloseSession(k, s) ==
  /\ table' = [table EXCEPT ![k] = NoSession]
  /\ opened' = IF table[k] = s THEN opened \ {s} ELSE opened
  /\ orphans' = orphans \union ({table[k]} \ {NoSession, s})
  /\ blind' = IF Cardinality(Mapped \ {table[k]}) < MaxSessions THEN 0 ELSE blind
  /\ UNCHANGED <<created, stray>>

-----------------------------------------------------------------------------
Handling == {w \in Writer : hpc[w] \notin {"none", "gone"}}

\* A client opens a UDP channel: handleUdp takes a thread and creates a writer.
ChannelOpens(w) ==
  /\ hpc[w] = "none" /\ Cardinality(Handling) < MaxHandlers
  /\ HGoto(w, "read")
  /\ UNCHANGED <<tableVars, hflow, hand, evicted, useful, selectorVars>>

\* The client sends a frame: onFrame looks its key up.
ReadFrame(w, f) ==
  /\ hpc[w] = "read" /\ <<w, f>> \in Key
  /\ HGoto(w, IF table[<<w, f>>] = NoSession THEN "evict" ELSE "send")
  /\ hflow' = [hflow EXCEPT ![w] = f]
  /\ hand' = [hand EXCEPT ![w] = table[<<w, f>>]]
  /\ UNCHANGED <<tableVars, evicted, useful, selectorVars>>

\* The client's connection ends.
ReadFails(w) ==
  /\ hpc[w] = "read"
  /\ HGoto(w, "leave")
  /\ UNCHANGED <<tableVars, hflow, hand, evicted, useful, selectorVars>>

\* Mutant: the cap lets one more in.
OverCapLate == Cardinality(Mapped) > MaxSessions

OverCap == Cardinality(Mapped) >= MaxSessions

\* evictIfNeeded: one turn of its loop looks for the oldest session ...
EvictIfNeeded(w) ==
  /\ hpc[w] = "evict"
  /\ IF OverCap /\ evicted[w] < EvictBatch
       THEN /\ HGoto(w, "evictClose") /\ \E s \in Mapped : hand' = [hand EXCEPT ![w] = s]
            /\ UNCHANGED <<evicted, useful, blind>>
       ELSE /\ HGoto(w, "create") /\ UNCHANGED hand
            /\ evicted' = [evicted EXCEPT ![w] = 0] /\ useful' = useful \ {w}
            /\ blind' = IF OverCap /\ w \notin useful THEN blind + 1 ELSE blind
  /\ UNCHANGED <<table, opened, orphans, created, stray, hflow, selectorVars>>

\* ... and closes it; it counts as an eviction if another thread was faster, too.
EvictClose(w) ==
  /\ hpc[w] = "evictClose"
  /\ useful' = IF table[KeyOf(hand[w])] = NoSession THEN useful ELSE useful \union {w}
  /\ CloseSession(KeyOf(hand[w]), hand[w])
  /\ evicted' = [evicted EXCEPT ![w] = @ + 1]
  /\ HGoto(w, "evict") /\ hand' = [hand EXCEPT ![w] = NoSession]
  /\ UNCHANGED <<hflow, selectorVars>>

\* createSession opens a channel ...
OpenChannel(w, s) ==
  LET fresh == {t \in Session \ created : KeyOf(t) = HKey(w)}
  IN /\ fresh # {} /\ s = CHOOSE t \in fresh : TRUE
     /\ opened' = opened \union {s} /\ created' = created \union {s}

\* ... sets its options, connects and registers it.
Create(w) ==
  /\ hpc[w] = "create"
  /\ \E s \in Session : OpenChannel(w, s) /\ hand' = [hand EXCEPT ![w] = s]
  /\ HGoto(w, "put")
  /\ UNCHANGED <<table, orphans, stray, blind, hflow, evicted, useful, selectorVars>>

\* No channel can be opened; or one of the calls that follow throws, and the
\* channel stays open: nothing closes it.
CreateFails(w) ==
  /\ hpc[w] = "create"
  /\ \/ UNCHANGED <<opened, created, stray>>
     \/ \E s \in Session : OpenChannel(w, s) /\ stray' = stray \union {s}
  /\ HGoto(w, "leave") /\ hflow' = [hflow EXCEPT ![w] = None]
  /\ UNCHANGED <<table, orphans, blind, hand, evicted, useful, selectorVars>>

\* putIfAbsent: the loser of a race closes its own session and uses the other.
Put(w) ==
  /\ hpc[w] = "put"
  /\ IF table[HKey(w)] = NoSession
       THEN /\ table' = [table EXCEPT ![HKey(w)] = hand[w]]
            /\ UNCHANGED <<opened, hand>>
       ELSE /\ opened' = opened \ {hand[w]}
            /\ hand' = [hand EXCEPT ![w] = table[HKey(w)]]
            /\ UNCHANGED table
  /\ HGoto(w, "send")
  /\ UNCHANGED <<orphans, created, stray, blind, hflow, evicted, useful, selectorVars>>

Send(w) ==
  /\ hpc[w] = "send" /\ hand[w] \in opened
  /\ HGoto(w, "read")
  /\ hand' = [hand EXCEPT ![w] = NoSession] /\ hflow' = [hflow EXCEPT ![w] = None]
  /\ UNCHANGED <<tableVars, evicted, useful, selectorVars>>

\* The send times out, or another thread has closed the channel.
SendFails(w) ==
  /\ hpc[w] = "send"
  /\ HGoto(w, "sendClose")
  /\ UNCHANGED <<tableVars, hflow, hand, evicted, useful, selectorVars>>

SendClose(w) ==
  /\ hpc[w] = "sendClose"
  /\ CloseSession(HKey(w), hand[w])
  /\ HGoto(w, "leave")
  /\ hand' = [hand EXCEPT ![w] = NoSession] /\ hflow' = [hflow EXCEPT ![w] = None]
  /\ UNCHANGED <<evicted, useful, selectorVars>>

\* Mutant: the writer goes, its sessions stay.
RemoveWriterOnly(w) ==
  /\ hpc[w] = "leave"
  /\ HGoto(w, "gone")
  /\ UNCHANGED <<tableVars, hflow, hand, evicted, useful, selectorVars>>

\* removeWriter closes the writer, cancels its loop ...
RemoveWriter(w) ==
  /\ hpc[w] = "leave"
  /\ HGoto(w, "sweep")
  /\ UNCHANGED <<tableVars, hflow, hand, evicted, useful, selectorVars>>

\* ... then goes through the table for the writer's sessions.
Sweep(w) ==
  /\ hpc[w] = "sweep"
  /\ LET own == {s \in Mapped : WriterOf(s) = w}
     IN \/ \E s \in own : HGoto(w, "sweepClose") /\ hand' = [hand EXCEPT ![w] = s]
        \/ own = {} /\ HGoto(w, "gone") /\ UNCHANGED hand
  /\ UNCHANGED <<tableVars, hflow, evicted, useful, selectorVars>>

SweepClose(w) ==
  /\ hpc[w] = "sweepClose"
  /\ CloseSession(KeyOf(hand[w]), hand[w])
  /\ HGoto(w, "sweep") /\ hand' = [hand EXCEPT ![w] = NoSession]
  /\ UNCHANGED <<hflow, evicted, useful, selectorVars>>

Handler(w) ==
  \/ EvictIfNeeded(w) \/ EvictClose(w) \/ Create(w) \/ CreateFails(w) \/ Put(w)
  \/ Send(w) \/ SendFails(w) \/ SendClose(w) \/ RemoveWriter(w) \/ Sweep(w) \/ SweepClose(w)

-----------------------------------------------------------------------------
SGoto(stage, s) == spc' = stage /\ target' = s

\* selectLoop takes a readable key and finds it valid.
Select(s) ==
  /\ spc = "select" /\ s \in opened \ stray
  /\ SGoto("read", s)
  /\ UNCHANGED <<tableVars, handlerVars>>

\* Another thread has closed the channel and cancelled its key since:
\* isReadable throws CancelledKeyException, which the loop does not catch, and
\* the selector thread is gone.
SelectorDies ==
  /\ spc = "read" /\ target \notin opened
  /\ SGoto("dead", NoSession)
  /\ UNCHANGED <<tableVars, handlerVars>>

\* A datagram: queued for the client, or dropped by a full queue.
ReadReply ==
  /\ spc = "read" /\ target \in opened
  /\ SGoto("select", NoSession)
  /\ UNCHANGED <<tableVars, handlerVars>>

\* The read fails, another thread has closed the channel after isReadable, or
\* the writer that should take the datagram is closed (removed, or its client
\* cannot be written to).
ReadReplyFails ==
  /\ spc = "read"
  /\ SGoto("close", target)
  /\ UNCHANGED <<tableVars, handlerVars>>

\* cleanupIdleSessions finds a session idle.
CleanupIdle(s) ==
  /\ spc = "select" /\ s \in Mapped
  /\ SGoto("close", s)
  /\ UNCHANGED <<tableVars, handlerVars>>

SelectorClose ==
  /\ spc = "close"
  /\ CloseSession(KeyOf(target), target)
  /\ SGoto("select", NoSession)
  /\ UNCHANGED handlerVars

Selector ==
  \/ SelectorDies \/ ReadReply \/ ReadReplyFails \/ SelectorClose

-----------------------------------------------------------------------------
Next ==
  \/ \E w \in Writer : \/ ChannelOpens(w) \/ ReadFails(w) \/ Handler(w)
                       \/ \E f \in Flow : ReadFrame(w, f)
  \/ \E s \in Session : Select(s) \/ CleanupIdle(s)
  \/ Selector

(***************************************************************************)
(* The threads run.  A client is free to send, stay or leave; a remote is  *)
(* free to answer; sessions are idle or not.                               *)
(***************************************************************************)
Fairness ==
  /\ \A w \in Writer : WF_vars(Handler(w))
  /\ WF_vars(Selector)

Spec == Init /\ [][Next]_vars /\ Fairness

-----------------------------------------------------------------------------
\* Every open channel is in the table under its key, in the hands of the
\* handler that has just created it, or is one of the two the code loses: the
\* session removed in passing by a thread that closed an earlier one of the
\* same key, and the channel of a createSession that failed after opening it;
\* and no channel in the table is closed, whichever threads evict, sweep and
\* clean up at once.
ChannelsAccounted ==
  /\ \A s \in opened :
       \/ table[KeyOf(s)] = s
       \/ \E w \in Writer : hpc[w] = "put" /\ hand[w] = s
       \/ s \in orphans \union stray
  /\ \A s \in Mapped : s \in opened /\ table[KeyOf(s)] = s

\* evictIfNeeded checks the cap before the session is put into the table, and
\* counts an eviction that found its session gone.  So the table outgrows the
\* cap, with no bound of its own; but for any number of handlers, by no more
\* than a session for each of them and one for each time a handler passed the
\* full table on EVICT_BATCH evictions that all came too late.
TableBounded == Cardinality(Mapped) < MaxSessions + MaxHandlers + blind

\* A handler that ends leaves no session behind in the table, and it ends,
\* while the selector and the other handlers close sessions under its hands.
HandlersEnd == \A w \in Writer :
  hpc[w] = "leave" ~> (hpc[w] = "gone" /\ \A s \in Mapped : WriterOf(s) # w)
=============================================================================
