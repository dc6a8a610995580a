--------------------------- MODULE ClientCoreProofs ---------------------------
(***************************************************************************)
(* Proofs about the client's core and its user interface.  The VPN         *)
(* session: for any number of channels, flows and keys replies find their  *)
(* flow and the watchdog's panic is confined to the shutdown.  The user    *)
(* interface: the update never runs a download that failed its checksum,   *)
(* the probes of the cloud list are used for the server they came from,    *)
(* and the list of profiles agrees with the files and its target index     *)
(* with the list.  The loops in the background: the table of nodes keeps   *)
(* the nearest ones and only what the filters let through, and a message   *)
(* kept at the seeds is counted once.                                      *)
(***************************************************************************)
EXTENDS VpnSession, TuiForms, SelfUpdate, CloudList, DhtTable, ControlPlane,
        FunctionTheorems, SequenceTheorems, FiniteSetTheorems, WellFoundedInduction, TLAPS

-----------------------------------------------------------------------------
\* The VPN session.
\* A dial has tries left; only QUIC has a shared connection to point to.
DialInv ==
    /\ phase \in {"conn", "streams", "chans"} => left > 0
    /\ phase \in {"conn", "streams"} => quic
    /\ ptr => quic

\* The watchdog is between its two reads only if the pointer was there, and
\* the pointer goes in the last steps of Run.
DogInv ==
    /\ dog = "alive" => quic /\ (ptr \/ phase \in {"assoc", "ended"})
    /\ crashed => quic /\ phase \in {"assoc", "ended"}

\* An association belongs to a flow that is there and has that key; a flow that
\* has deleted its mirror key is not found under it any more.
OwnInv ==
    /\ \A k \in Key : assoc[k] # None => Live(assoc[k]) /\ k \in Keys(assoc[k])
    /\ \A f \in Flow : flow[f] = "over2" => assoc[Mirror(KeyOf(f))] # f

\* A flow that met no other has no rival, so what it stored is still there.
MetInv == \A f \in Flow \ met : Live(f) => Rivals(f) = {}

FoundInv ==
    phase # "ended" =>
      \A f \in Flow \ met :
        /\ flow[f] \in {"half", "run", "send"} => assoc[KeyOf(f)] = f
        /\ flow[f] \in {"run", "send"} => assoc[Mirror(KeyOf(f))] = f

SessionInv == TypeOK /\ DialInv /\ DogInv /\ OwnInv /\ MetInv /\ FoundInv

LEMMA Facts ==
    /\ N \in Nat \ {0} /\ Attempts \in Nat \ {0} /\ Tries \in Nat \ {0} /\ MaxMisses \in Nat \ {0}
    /\ None \notin Flow
    /\ \A f \in Flow : KeyOf(f) \in Key /\ Mirror(KeyOf(f)) \in Key
    /\ 1 \in Chan
BY SessionAssumption DEF Chan

\* The channel a key is hashed to exists.
LEMMA PickIsChan == \A k : Pick(k) \in Chan
BY Facts DEF Pick

\* Before Run begins nothing is registered and nothing runs.
LEMMA InitInv == Init => SessionInv
<1> SUFFICES ASSUME Init PROVE SessionInv
  OBVIOUS
<1> USE Facts
<1>1. MuxTypeOK
  BY DEF Init, MuxTypeOK
<1>2. FlowTypeOK
  BY DEF Init, FlowTypeOK
<1>3. WatchTypeOK
  BY DEF Init, WatchTypeOK
<1>4. FlagTypeOK
  BY Zenon DEF Init, FlagTypeOK
<1>5. DialInv /\ DogInv
  BY DEF Init, DialInv, DogInv
<1>6. OwnInv /\ MetInv /\ FoundInv
  BY DEF Init, OwnInv, MetInv, FoundInv, Live
<1> QED BY <1>1, <1>2, <1>3, <1>4, <1>5, <1>6 DEF SessionInv, TypeOK

\* Whatever does not touch a flow or an association leaves the table right.
LEMMA FlowsUntouched ==
  ASSUME FlowTypeOK, OwnInv, MetInv, FoundInv, UNCHANGED flows, phase = "ended" => phase' = "ended"
  PROVE FlowTypeOK' /\ OwnInv' /\ MetInv' /\ FoundInv'
<1> USE DEF flows
<1>1. FlowTypeOK'
  BY DEF FlowTypeOK
<1>2. OwnInv'
  BY DEF OwnInv, Live, Keys
<1>3. MetInv'
  BY DEF MetInv, Live, Keys, Rivals
<1>4. FoundInv'
  BY DEF FoundInv
<1> QED BY <1>1, <1>2, <1>3, <1>4

\* Whatever leaves the flags and the watchdog alone keeps it where it may be.
LEMMA WatchUntouched ==
  ASSUME WatchTypeOK, FlagTypeOK, DogInv, UNCHANGED <<quic, ptr, watch, cancelled, crashed>>,
         phase \in {"assoc", "ended"} => phase' \in {"assoc", "ended"}
  PROVE WatchTypeOK' /\ FlagTypeOK' /\ DogInv'
<1> USE DEF watch
<1>1. WatchTypeOK' /\ DogInv'
  BY DEF WatchTypeOK, DogInv
<1>2. FlagTypeOK'
  BY DEF FlagTypeOK
<1> QED BY <1>1, <1>2

\* Whatever leaves Run and the multiplexer alone keeps the dial's account.
LEMMA MuxUntouched ==
  ASSUME MuxTypeOK, DialInv, UNCHANGED <<quic, phase, mux>>
  PROVE MuxTypeOK' /\ DialInv'
BY DEF mux, MuxTypeOK, DialInv

\* Run's dials touch no flow and no watchdog; they hand over the pointer only
\* with the last stream.
LEMMA DialKeeps ==
  ASSUME SessionInv, ~crashed, Run \/ DialConn \/ OpenStream \/ DialChan
  PROVE SessionInv'
<1> USE Facts DEF SessionInv, TypeOK
<1>1. UNCHANGED <<quic, flows, watch, cancelled, crashed>> /\ phase \in {"off", "conn", "streams", "chans"}
  BY DEF Run, DialConn, OpenStream, DialChan
<1>2. FlowTypeOK' /\ OwnInv' /\ MetInv' /\ FoundInv'
  BY <1>1, FlowsUntouched
<1>3. MuxTypeOK' /\ DialInv'
  <2>1. CASE Run
    BY <2>1 DEF MuxTypeOK, DialInv, Run
  <2>2. CASE DialConn
    BY <2>2 DEF MuxTypeOK, DialInv, DialConn, Chan
  <2>3. CASE OpenStream
    <3> /\ at \in Chan /\ (at < N => at + 1 \in Chan)
      BY DEF MuxTypeOK, Chan
    <3>1. CASE StreamFails /\ UNCHANGED <<quic, spare, stop>>
      BY <3>1, <2>3 DEF MuxTypeOK, DialInv, OpenStream, StreamFails
    <3>2. CASE ~StreamFails
      BY <3>2, <2>3 DEF MuxTypeOK, DialInv, OpenStream
    <3> QED BY <3>1, <3>2, <2>3 DEF OpenStream
  <2>4. CASE DialChan
    <3> /\ at \in Chan /\ (at < N => at + 1 \in Chan)
      BY DEF MuxTypeOK, Chan
    <3> QED BY <2>4 DEF MuxTypeOK, DialInv, DialChan
  <2> QED BY <2>1, <2>2, <2>3, <2>4
<1>4. WatchTypeOK' /\ DogInv'
  <2>1. ptr' = ptr \/ ptr' = TRUE
    BY DEF Run, DialConn, OpenStream, StreamFails, DialChan
  <2> QED BY <1>1, <2>1 DEF WatchTypeOK, DogInv, watch
<1>5. FlagTypeOK'
  <2>1. ptr' = ptr \/ ptr' = TRUE
    BY DEF Run, DialConn, OpenStream, StreamFails, DialChan
  <2> QED BY <1>1, <2>1, Zenon DEF FlagTypeOK
<1> QED BY <1>2, <1>3, <1>4, <1>5

\* The steps of Run after the dials, but for the last one, which clears the
\* associations.  The pointer is cleared on the way from "clear" to "assoc".
LEMMA RunKeeps ==
  ASSUME SessionInv, ~crashed, OpenDevice \/ Leave \/ CloseChan \/ CloseQuic \/ ClearPtr \/ Cancel
  PROVE SessionInv'
<1> USE Facts DEF SessionInv, TypeOK
<1>1. UNCHANGED <<quic, flows, crashed>>
  BY DEF OpenDevice, Leave, CloseChan, CloseQuic, ClearPtr, Cancel
<1>2. phase = "ended" => phase' = "ended"
  BY DEF OpenDevice, Leave, CloseChan, CloseQuic, ClearPtr, Cancel
<1>3. FlowTypeOK' /\ OwnInv' /\ MetInv' /\ FoundInv'
  BY <1>1, <1>2, FlowsUntouched
<1>4. MuxTypeOK' /\ DialInv'
  <2>1. CASE OpenDevice
    BY <2>1 DEF MuxTypeOK, DialInv, OpenDevice, mux
  <2>2. CASE Leave
    BY <2>2 DEF MuxTypeOK, DialInv, Leave, mux
  <2>3. CASE CloseChan
    <3> /\ at \in Chan /\ (at < N => at + 1 \in Chan)
      BY DEF MuxTypeOK, Chan
    <3> QED BY <2>3 DEF MuxTypeOK, DialInv, CloseChan
  <2>4. CASE CloseQuic
    BY <2>4 DEF MuxTypeOK, DialInv, CloseQuic, QuicShut
  <2>5. CASE ClearPtr
    BY <2>5 DEF MuxTypeOK, DialInv, ClearPtr
  <2>6. CASE Cancel
    BY <2>6, MuxUntouched DEF Cancel
  <2> QED BY <2>1, <2>2, <2>3, <2>4, <2>5, <2>6
<1>5. WatchTypeOK' /\ DogInv'
  <2>1. CASE OpenDevice
    BY <2>1 DEF WatchTypeOK, DogInv, OpenDevice, mux
  <2>2. CASE ClearPtr
    BY <2>2 DEF WatchTypeOK, DogInv, ClearPtr, watch
  <2>3. CASE Leave \/ CloseChan \/ CloseQuic \/ Cancel
    BY <2>3 DEF WatchTypeOK, DogInv, Leave, CloseChan, CloseQuic, Cancel, watch, mux
  <2> QED BY <2>1, <2>2, <2>3
<1>6. FlagTypeOK'
  <2>1. (ptr' = ptr \/ ptr' = FALSE) /\ (cancelled' = cancelled \/ cancelled' = TRUE)
    BY DEF OpenDevice, Leave, CloseChan, CloseQuic, ClearPtr, Cancel, mux
  <2> QED BY <1>1, <2>1, Zenon DEF FlagTypeOK
<1> QED BY <1>3, <1>4, <1>5, <1>6

\* The last step of Run.
LEMMA EndKeeps ==
  ASSUME SessionInv, ~crashed, ClearAssoc
  PROVE SessionInv'
<1> USE Facts DEF SessionInv, TypeOK
<1>1. WatchTypeOK' /\ FlagTypeOK' /\ DogInv'
  BY WatchUntouched DEF ClearAssoc, mux
<1>2. MuxTypeOK' /\ DialInv'
  BY DEF ClearAssoc, mux, MuxTypeOK, DialInv
<1>3. FlowTypeOK'
  BY DEF ClearAssoc, FlowTypeOK
<1>4. OwnInv' /\ FoundInv'
  BY DEF ClearAssoc, OwnInv, FoundInv
<1>5. MetInv'
  BY DEF ClearAssoc, MetInv, Rivals, Live, Keys
<1> QED BY <1>1, <1>2, <1>3, <1>4, <1>5

\* The network and the read loops touch neither a flow nor the pointer.
LEMMA LoopKeeps ==
  ASSUME SessionInv, ~crashed, Break \/ \E c \in Chan : LoopSteps(c) \/ ReadFailsLate(c)
  PROVE SessionInv'
<1> USE DEF SessionInv, TypeOK
<1> USE DEF LoopSteps
<1>1. UNCHANGED <<quic, phase, ptr, flows, watch, cancelled, crashed>>
  BY DEF Break, ReadFails, Reopen, Swap, ReadFailsLate
<1>2. FlowTypeOK' /\ OwnInv' /\ MetInv' /\ FoundInv'
  BY <1>1, FlowsUntouched
<1>3. WatchTypeOK' /\ FlagTypeOK' /\ DogInv'
  BY <1>1, WatchUntouched
<1>4. MuxTypeOK'
  <2>1. CASE Break
    BY <2>1 DEF MuxTypeOK, Break
  <2>2. ASSUME NEW c \in Chan, ReadFails(c) PROVE MuxTypeOK'
    BY <2>2 DEF MuxTypeOK, ReadFails
  <2>3. ASSUME NEW c \in Chan, ReadFailsLate(c) PROVE MuxTypeOK'
    BY <2>3 DEF MuxTypeOK, ReadFailsLate
  <2>4. ASSUME NEW c \in Chan, Reopen(c) PROVE MuxTypeOK'
    BY <2>4 DEF MuxTypeOK, Reopen
  <2>5. ASSUME NEW c \in Chan, Swap(c) PROVE MuxTypeOK'
    BY <2>5 DEF MuxTypeOK, Swap
  <2> QED BY <2>1, <2>2, <2>3, <2>4, <2>5
<1>5. DialInv'
  <2>1. left' = left
    BY DEF Break, ReadFails, Reopen, Swap, ReadFailsLate
  <2> QED BY <1>1, <2>1 DEF DialInv
<1> QED BY <1>2, <1>3, <1>4, <1>5

\* The watchdog: it is between its reads only after it saw the pointer, and
\* finds it gone only when Run has cleared it.
LEMMA DogKeeps ==
  ASSUME SessionInv, ~crashed, Tick \/ DogSteps \/ DogLeaves
  PROVE SessionInv'
<1> USE Facts DEF SessionInv, TypeOK
<1> USE DEF DogSteps
<1>1. UNCHANGED <<quic, phase, mux, flows>>
  BY DEF Tick, QuicAlive, Ping, DogLeaves
<1>2. ptr' = ptr
  BY <1>1 DEF mux
<1>3. MuxTypeOK' /\ DialInv' /\ FlowTypeOK' /\ OwnInv' /\ MetInv' /\ FoundInv'
  BY <1>1, MuxUntouched, FlowsUntouched
<1>4. WatchTypeOK'
  BY DEF WatchTypeOK, Tick, QuicAlive, Ping, DogLeaves
<1>5. DogInv'
  BY <1>1, <1>2 DEF DogInv, DialInv, Tick, QuicAlive, Ping, DogLeaves
<1>6. FlagTypeOK'
  <2>1. (crashed' = crashed \/ crashed' = TRUE) /\ (cancelled' = cancelled \/ cancelled' = TRUE)
    BY DEF Tick, QuicAlive, Ping, DogLeaves
  <2> QED BY <1>1, <1>2, <2>1, Zenon DEF FlagTypeOK
<1> QED BY <1>3, <1>4, <1>5, <1>6

\* Mirroring is its own inverse, so a flow and its rival see each other.
LEMMA Rivalry ==
  ASSUME NEW f \in Flow, NEW g \in Flow, NEW k \in Keys(f), k \in Keys(g), f # g, Live(g)
  PROVE g \in Rivals(f)
BY DEF Rivals

\* handleUDP registers a flow: whoever shares a key with it has now met a rival.
LEMMA RegisterKeeps ==
  ASSUME SessionInv, NEW f \in Flow, Register(f)
  PROVE FlowTypeOK' /\ OwnInv' /\ MetInv' /\ FoundInv'
<1> USE Facts DEF SessionInv, TypeOK
<1>1. /\ flow[f] = "idle" /\ phase' = phase /\ mu' = mu
      /\ flow' = [flow EXCEPT ![f] = "half"]
      /\ assoc' = [assoc EXCEPT ![KeyOf(f)] = f]
      /\ met' = (met \ {f}) \cup Rivals(f) \cup (IF Rivals(f) # {} THEN {f} ELSE {})
  BY DEF Register
<1>2. Rivals(f) \subseteq Flow
  BY DEF Rivals
<1>3. FlowTypeOK'
  BY <1>1, <1>2 DEF FlowTypeOK
<1>4. /\ flow'[f] = "half" /\ \A g \in Flow : g # f => flow'[g] = flow[g]
      /\ assoc'[KeyOf(f)] = f /\ \A k \in Key : k # KeyOf(f) => assoc'[k] = assoc[k]
  BY <1>1 DEF FlowTypeOK
<1>5. OwnInv'
  BY <1>4 DEF OwnInv, Live, Keys, FlowTypeOK
<1>6. MetInv'
  <2> SUFFICES ASSUME NEW g \in Flow, g \notin met', Live(g)', NEW h \in Flow, h # g, Live(h)',
                      NEW k \in Keys(g), k \in Keys(h)
               PROVE FALSE
    BY DEF MetInv, Rivals, Keys
  <2>1. CASE g = f
    <3>1. h \in Rivals(f)
      BY <2>1, <1>4, Rivalry DEF Live
    <3> QED BY <3>1, <2>1, <1>1
  <2>2. CASE h = f
    <3>1. Live(g) /\ g \in Rivals(f)
      BY <2>2, <1>4, Rivalry DEF Live
    <3> QED BY <3>1, <1>1
  <2>3. CASE g # f /\ h # f
    <3>1. Live(g) /\ Live(h) /\ g \notin met
      BY <2>3, <1>1, <1>4 DEF Live
    <3>2. h \in Rivals(g)
      BY <3>1, Rivalry
    <3> QED BY <3>1, <3>2 DEF MetInv
  <2> QED BY <2>1, <2>2, <2>3
<1>7. FoundInv'
  <2> SUFFICES ASSUME phase' # "ended", NEW g \in Flow, g \notin met'
               PROVE /\ flow'[g] \in {"half", "run", "send"} => assoc'[KeyOf(g)] = g
                     /\ flow'[g] \in {"run", "send"} => assoc'[Mirror(KeyOf(g))] = g
    BY DEF FoundInv
  <2>1. CASE g = f
    BY <2>1, <1>4
  <2>2. CASE g # f /\ ~Live(g)
    BY <2>2, <1>4 DEF Live
  <2>3. CASE g # f /\ Live(g)
    <3>1. KeyOf(f) \notin Keys(g) /\ g \notin met
      BY <2>3, <1>1, Rivalry DEF Keys
    <3> QED BY <3>1, <2>3, <1>1, <1>4 DEF FoundInv, Keys
  <2> QED BY <2>1, <2>2, <2>3
<1> QED BY <1>3, <1>5, <1>6, <1>7

\* A flow that stores or deletes one of its keys, whoever it finds there,
\* disturbs only the flows it met.
LEMMA StoreKeeps ==
  ASSUME SessionInv, NEW f \in Flow, NEW k \in Keys(f), NEW v \in {f, None}, NEW st,
         Live(f), st \in {"run", "over2"}, UNCHANGED <<phase, mu, met>>,
         flow' = [flow EXCEPT ![f] = st], assoc' = [assoc EXCEPT ![k] = v],
         st = "run" => flow[f] = "half" /\ k = Mirror(KeyOf(f)) /\ v = f,
         st = "over2" => k = Mirror(KeyOf(f)) /\ v = None
  PROVE FlowTypeOK' /\ OwnInv' /\ MetInv' /\ FoundInv'
<1> USE Facts DEF SessionInv, TypeOK
<1>0. k \in Key
  BY DEF Keys
<1>1. FlowTypeOK'
  BY DEF FlowTypeOK
<1>2. /\ flow'[f] = st /\ \A g \in Flow : g # f => flow'[g] = flow[g]
      /\ assoc'[k] = v /\ \A j \in Key : j # k => assoc'[j] = assoc[j]
  BY <1>0 DEF FlowTypeOK
<1>3. \A g \in Flow : Live(g)' <=> Live(g)
  BY <1>2 DEF Live
<1>4. OwnInv'
  <2>1. ASSUME NEW j \in Key, assoc'[j] # None PROVE flow'[assoc'[j]] # "idle" /\ j \in Keys(assoc'[j])
    <3>1. CASE j = k
      BY <3>1, <2>1, <1>2, <1>3 DEF Live
    <3>2. CASE j # k
      <4>1. assoc'[j] \in Flow /\ assoc'[j] = assoc[j]
        BY <3>2, <2>1, <1>1, <1>2 DEF FlowTypeOK
      <4> QED BY <4>1, <2>1, <1>3 DEF OwnInv, Live
    <3> QED BY <3>1, <3>2
  <2>2. ASSUME NEW g \in Flow, flow'[g] = "over2" PROVE assoc'[Mirror(KeyOf(g))] # g
    <3>1. CASE g = f
      BY <3>1, <2>2, <1>2
    <3>2. CASE g # f
      BY <3>2, <2>2, <1>2 DEF OwnInv
    <3> QED BY <3>1, <3>2
  <2> QED BY <2>1, <2>2 DEF OwnInv, Keys, Live
<1>5. MetInv'
  BY <1>3 DEF MetInv, Rivals, Keys
<1>6. FoundInv'
  <2> SUFFICES ASSUME phase' # "ended", NEW g \in Flow, g \notin met'
               PROVE /\ flow'[g] \in {"half", "run", "send"} => assoc'[KeyOf(g)] = g
                     /\ flow'[g] \in {"run", "send"} => assoc'[Mirror(KeyOf(g))] = g
    BY DEF FoundInv
  <2>1. CASE g = f
    BY <2>1, <1>2 DEF FoundInv
  <2>2. CASE g # f /\ ~Live(g)
    BY <2>2, <1>2 DEF Live
  <2>3. CASE g # f /\ Live(g)
    <3>1. k \notin Keys(g)
      BY <2>3, Rivalry DEF MetInv
    <3> QED BY <3>1, <2>3, <1>2 DEF FoundInv, Keys
  <2> QED BY <2>1, <2>2, <2>3
<1> QED BY <1>1, <1>4, <1>5, <1>6

\* The end of a flow: nothing it stored is left.
LEMMA UnregisterKeeps ==
  ASSUME SessionInv, NEW f \in Flow, Unregister(f)
  PROVE FlowTypeOK' /\ OwnInv' /\ MetInv' /\ FoundInv'
<1> USE Facts DEF SessionInv, TypeOK
<1>1. /\ flow[f] = "over2" /\ phase' = phase /\ mu' = mu /\ met' = met \ {f}
      /\ flow' = [flow EXCEPT ![f] = "idle"] /\ assoc' = [assoc EXCEPT ![KeyOf(f)] = None]
  BY DEF Unregister
<1>2. FlowTypeOK'
  BY <1>1 DEF FlowTypeOK
<1>3. /\ flow'[f] = "idle" /\ \A g \in Flow : g # f => flow'[g] = flow[g]
      /\ assoc'[KeyOf(f)] = None /\ \A k \in Key : k # KeyOf(f) => assoc'[k] = assoc[k]
  BY <1>1 DEF FlowTypeOK
<1>4. Live(f) /\ \A g \in Flow : Live(g)' => Live(g) /\ g # f
  BY <1>1, <1>3 DEF Live
<1>5. OwnInv'
  <2>1. ASSUME NEW k \in Key, assoc'[k] # None PROVE flow'[assoc'[k]] # "idle" /\ k \in Keys(assoc'[k])
    <3>1. assoc'[k] = assoc[k] /\ k # KeyOf(f)
      BY <2>1, <1>3
    <3>2. k \in Keys(assoc[k]) /\ Live(assoc[k]) /\ assoc[k] \in Flow
      BY <3>1, <2>1 DEF OwnInv, FlowTypeOK
    <3>3. assoc[k] # f
      BY <3>1, <3>2, <1>1 DEF OwnInv, Keys
    <3> QED BY <3>1, <3>2, <3>3, <1>3 DEF Live
  <2>2. ASSUME NEW g \in Flow, flow'[g] = "over2" PROVE assoc'[Mirror(KeyOf(g))] # g
    BY <2>2, <1>3 DEF OwnInv
  <2> QED BY <2>1, <2>2 DEF OwnInv, Keys, Live
<1>6. MetInv'
  BY <1>1, <1>4 DEF MetInv, Rivals, Keys
<1>7. FoundInv'
  <2> SUFFICES ASSUME phase' # "ended", NEW g \in Flow, g \notin met', Live(g)'
               PROVE /\ flow'[g] \in {"half", "run", "send"} => assoc'[KeyOf(g)] = g
                     /\ flow'[g] \in {"run", "send"} => assoc'[Mirror(KeyOf(g))] = g
    BY DEF FoundInv, Live
  <2>1. Live(g) /\ g # f /\ g \notin met
    BY <1>1, <1>4
  <2>2. KeyOf(f) \notin Keys(g)
    BY <2>1, <1>4, Rivalry DEF MetInv, Keys
  <2> QED BY <2>1, <2>2, <1>1, <1>3 DEF FoundInv, Keys
<1> QED BY <1>2, <1>5, <1>6, <1>7

\* A packet sent, or the end of the flow's reads: its associations stay.
LEMMA SendKeeps ==
  ASSUME SessionInv, NEW f \in Flow, SendBegins(f) \/ SendEnds(f) \/ FlowEnds(f)
  PROVE FlowTypeOK' /\ OwnInv' /\ MetInv' /\ FoundInv'
<1> USE Facts, PickIsChan DEF SessionInv, TypeOK
<1>1. PICK st \in {"run", "send", "over"} : flow' = [flow EXCEPT ![f] = st]
  BY DEF SendBegins, SendEnds, FlowEnds
<1>2. UNCHANGED <<phase, assoc, met>> /\ flow[f] \in {"run", "send"}
  BY DEF SendBegins, SendEnds, FlowEnds
<1>3. FlowTypeOK'
  BY DEF SendBegins, SendEnds, FlowEnds, FlowTypeOK
<1>4. flow'[f] = st /\ \A g \in Flow : g # f => flow'[g] = flow[g]
  BY <1>1 DEF FlowTypeOK
<1>5. \A g \in Flow : Live(g)' <=> Live(g)
  BY <1>2, <1>4 DEF Live
<1>6. OwnInv'
  BY <1>2, <1>4, <1>5 DEF OwnInv, FlowTypeOK, Keys
<1>7. MetInv'
  BY <1>2, <1>5 DEF MetInv, Rivals, Keys
<1>8. FoundInv'
  BY <1>2, <1>4 DEF FoundInv
<1> QED BY <1>3, <1>6, <1>7, <1>8

\* Every step of a flow's goroutine.
LEMMA FlowKeeps ==
  ASSUME SessionInv, ~crashed, NEW f \in Flow,
         Register(f) \/ FlowSteps(f) \/ SendBegins(f) \/ SendEnds(f) \/ FlowEnds(f)
  PROVE SessionInv'
<1> USE DEF FlowSteps
<1>1. UNCHANGED <<quic, phase, mux, watch, cancelled, crashed>>
  BY DEF Register, RegisterMirror, UnregisterMirror, Unregister, SendBegins, SendEnds, FlowEnds
<1>2. ptr' = ptr
  BY <1>1 DEF mux
<1>3. MuxTypeOK' /\ DialInv' /\ WatchTypeOK' /\ FlagTypeOK' /\ DogInv'
  BY <1>1, <1>2, MuxUntouched, WatchUntouched DEF SessionInv, TypeOK
<1>4. FlowTypeOK' /\ OwnInv' /\ MetInv' /\ FoundInv'
  <2>1. CASE RegisterMirror(f)
    BY <2>1, StoreKeeps DEF RegisterMirror, Live, Keys
  <2>2. CASE UnregisterMirror(f)
    BY <2>2, StoreKeeps DEF UnregisterMirror, DropMirror, Live, Keys
  <2> QED BY <2>1, <2>2, RegisterKeeps, UnregisterKeeps, SendKeeps
<1> QED BY <1>3, <1>4 DEF SessionInv, TypeOK

\* No step of Run, the network, a read loop, a flow or the watchdog breaks the
\* invariant.
LEMMA StepInv == SessionInv /\ [Next]_vars => SessionInv'
<1> SUFFICES ASSUME SessionInv, [Next]_vars PROVE SessionInv'
  OBVIOUS
<1>1. CASE UNCHANGED vars
  <2>1. UNCHANGED <<quic, phase, mux, flows, watch, ptr, cancelled, crashed>>
    BY <1>1 DEF vars, mux, flows, watch
  <2> QED BY <2>1, MuxUntouched, FlowsUntouched, WatchUntouched DEF SessionInv, TypeOK
<1>2. CASE Next
  BY <1>2, DialKeeps, RunKeeps, EndKeeps, LoopKeeps, FlowKeeps, DogKeeps DEF Next, RunSteps
<1> QED BY <1>1, <1>2

\* The invariant of every run of vpn.Run.
THEOREM SessionInvariant == Spec => []SessionInv
BY InitInv, StepInv, PTL DEF Spec

\* Whatever the order in which flows register, send and end (vpn.go:383-415,
\* 632-641), a reply finds its flow unless two flows mirrored each other.
THEOREM RepliesFound == Spec => []RepliesFindTheirFlow
<1>1. SessionInv => RepliesFindTheirFlow
  BY DEF SessionInv, OwnInv, FoundInv, RepliesFindTheirFlow, Keys
<1> QED BY <1>1, SessionInvariant, PTL

\* The watchdog's two reads of the connection (vpn.go:280) meet a nil pointer
\* only after Run stored it (vpn.go:375).
THEOREM PanicConfined == Spec => []PanicOnlyWhileStopping
<1>1. SessionInv => PanicOnlyWhileStopping
  BY DEF SessionInv, DogInv, PanicOnlyWhileStopping
<1> QED BY <1>1, SessionInvariant, PTL

-----------------------------------------------------------------------------
\* The update.  A download on its way from the checksum to the executable is
\* one that matched, or there was nothing to match.
Download == {"good", "bad"}

UpdInv ==
    /\ UpdTypeOK
    /\ step = "verify" => file.partial \in Download
    /\ step = "install" => file.new \in Download /\ (sum => file.new = "good")
    /\ RunsWhatWasChecked

LEMMA UpdStart == UpdInit => UpdInv
BY DEF UpdInit, UpdInv, UpdTypeOK, RunsWhatWasChecked

\* Steps that leave the files and what runs alone.
LEMMA UpdQuiet ==
    ASSUME UpdInv, CheckLatest \/ Asks \/ No \/ Yes \/ UNCHANGED updVars
    PROVE  UpdInv'
<1>1. UNCHANGED <<file, run, unsure, sum>> /\ (step' = step \/ step' = "asset")
  BY DEF CheckLatest, Asks, No, Yes, updVars
<1> QED BY <1>1 DEF UpdInv, UpdTypeOK, RunsWhatWasChecked

\* One step of runApplyUpdate, and the kill that may follow any of them.
LEMMA UpdApply ==
    ASSUME UpdInv, AssetForTag \/ OpenPartial \/ CopyPartial \/ Verify \/ Install \/ Exec \/ Killed
    PROVE  UpdInv'
<1> USE DEF UpdInv, UpdTypeOK, RunsWhatWasChecked, Download
<1>1. CASE AssetForTag
  BY <1>1 DEF AssetForTag
<1>2. CASE OpenPartial
  BY <1>2 DEF OpenPartial
<1>3. CASE CopyPartial
  BY <1>3 DEF CopyPartial
<1>4. CASE Verify
  BY <1>4 DEF Verify
<1>5. CASE Install
  <2>1. CASE step' = "idle" /\ file' = [file EXCEPT !.new = "none"] /\ UNCHANGED <<updUi, run, unsure>>
    BY <2>1
  <2>2. CASE /\ step' = "exec" /\ file' = [file EXCEPT !.new = "none", !.exe = file.new]
             /\ unsure' = (unsure \/ ~sum) /\ UNCHANGED <<updUi, run>>
    <3>1. step = "install"
      BY <1>5 DEF Install
    <3> QED BY <2>2, <3>1
  <2>3. CASE /\ step' = "idle" /\ run' = file.new /\ UNCHANGED file /\ unsure' = (unsure \/ ~sum)
    <3>1. step = "install"
      BY <1>5 DEF Install
    <3> QED BY <2>3, <3>1
  <2> QED BY <1>5, <2>1, <2>2, <2>3 DEF Install
<1>6. CASE Exec
  BY <1>6 DEF Exec
<1>7. CASE Killed
  BY <1>7 DEF Killed
<1> QED BY <1>1, <1>2, <1>3, <1>4, <1>5, <1>6, <1>7

\* The inductive invariant of the update, kept by every step and every kill.
THEOREM UpdInvariant == UpdSpec => []UpdInv
<1>1. UpdInv /\ [UpdNext]_updVars => UpdInv'
  BY UpdQuiet, UpdApply DEF UpdNext
<1> QED BY UpdStart, <1>1, PTL DEF UpdSpec

\* Whatever the server sends and whenever the process is killed, the client
\* runs and is started from the old executable or a download that matched its
\* checksum, unless the release had none (update.go, download.go,
\* apply_unix.go).
THEOREM UpdateIsChecked == UpdSpec => []RunsWhatWasChecked
BY UpdInvariant, PTL DEF UpdInv

-----------------------------------------------------------------------------
\* The cloud list.  Word of another server than the listed one is on its way,
\* or known, only under names the history has noted.
Host == Server \cup {Nil}
Words == {"", "unknown", "tcp only", "quic/tcp"}

CloudTypes ==
    /\ listing \in FetchCloud /\ saved \in FetchCloud
    /\ probes \subseteq [name : Entry, server : Host]
    /\ mode \in [Entry -> [is : Words, of : Host]]
    /\ v6 \in [Entry -> [is : BOOLEAN, of : Host]]

ProbesInv == \A p \in probes : p.server # At(listing, p.name) => p.name \in late
ModeInv == \A e \in Entry : mode[e].is = "tcp only" /\ mode[e].of # At(listing, e) => e \in moved \cup late
V6Inv == \A e \in Entry : v6[e].is /\ v6[e].of # At(listing, e) => e \in late

CloudInv == CloudTypes /\ ProbesInv /\ ModeInv /\ V6Inv

\* The probes of a list are of its servers.
LEMMA ProbesOfList == ASSUME NEW list \in FetchCloud
    PROVE \A p \in AutoProbe(list) : p.name \in Entry /\ p.server \in Host /\ p.server = At(list, p.name)
          /\ p \in [name : Entry, server : Host]
<1>1. \A e \in Entry : At(list, e) \in Host
  BY CloudAssumption DEF At, FetchCloud, Host
<1> HIDE DEF Host
<1> SUFFICES ASSUME NEW e \in Entry
             PROVE  [name |-> e, server |-> At(list, e)] \in [name : Entry, server : Host]
  BY <1>1 DEF AutoProbe
<1> QED BY <1>1

\* What a connect from the list goes by: the line, or the profile that replaces
\* it, and what is known under its name.
LEMMA ConnectFacts ==
    \A e \in Entry : /\ ConnectEntry(e).transport = "tcp" => Chosen(e).tcp \/ mode[e].is = "tcp only"
                     /\ ConnectEntry(e).tun6 => Chosen(e).tun6 \/ v6[e].is
BY DEF ConnectEntry, ApplyCloudConnectDefaults, ZeroCfg

LEMMA CloudFound == CloudInv => ProbesFindTheirServer
BY ConnectFacts DEF CloudInv, ModeInv, V6Inv, ProbesFindTheirServer, Said

LEMMA CloudStart == CloudInit => CloudInv
<1> SUFFICES ASSUME CloudInit PROVE CloudInv
  OBVIOUS
<1>1. CloudTypes
  BY DEF CloudInit, CloudTypes, FetchCloud, Host, Words, Unprobed, NoV6
<1>2. ProbesInv /\ ModeInv
  BY DEF CloudInit, ProbesInv, ModeInv, Unprobed
<1>3. V6Inv
  BY DEF CloudInit, V6Inv, NoV6
<1> QED BY <1>1, <1>2, <1>3 DEF CloudInv

\* The list is fetched: what is in flight for its former entries goes astray.
LEMMA CloudFetched == ASSUME CloudInv, Fetched PROVE CloudInv'
<1>i. CloudTypes /\ ProbesInv /\ ModeInv /\ V6Inv
  BY DEF CloudInv
<1>1. CASE UNCHANGED <<listing, probes, v6, moved, late>>
  BY <1>1, <1>i DEF Fetched, CloudInv, CloudTypes, ProbesInv, ModeInv, V6Inv
<1>2. CASE ~UNCHANGED <<listing, probes, v6, moved, late>>
  <2>1. /\ listing' \in FetchCloud /\ v6' = NoV6 /\ mode' = mode /\ saved' = saved
        /\ probes' = probes \cup AutoProbe(listing')
        /\ moved' = moved \cup {e \in Entry : At(listing', e) # At(listing, e)}
        /\ late' = late \cup Astray(probes, listing')
    BY <1>2 DEF Fetched
  <2>2. CloudTypes'
    <3>1. AutoProbe(listing') \subseteq [name : Entry, server : Host]
      BY <2>1, ProbesOfList
    <3>2. v6' \in [Entry -> [is : BOOLEAN, of : Host]]
      BY <2>1 DEF Host, NoV6
    <3> QED BY <3>1, <3>2, <2>1, <1>i DEF CloudTypes
  <2>3. ProbesInv'
    <3> SUFFICES ASSUME NEW p \in probes', p.server # At(listing', p.name) PROVE p.name \in late'
      BY DEF ProbesInv, At
    <3>1. p \in probes
      BY <2>1, ProbesOfList
    <3> QED BY <3>1, <2>1 DEF Astray
  <2>4. ModeInv'
    BY <2>1, <1>i DEF ModeInv, At
  <2>5. V6Inv'
    BY <2>1 DEF V6Inv, NoV6
  <2> QED BY <2>2, <2>3, <2>4, <2>5 DEF CloudInv
<1> QED BY <1>1, <1>2

\* An answer is kept under the name of its entry.
LEMMA CloudProbed == ASSUME CloudInv, ProbeDone PROVE CloudInv'
<1>i. CloudTypes /\ ProbesInv /\ ModeInv /\ V6Inv
  BY DEF CloudInv
<1>1. PICK p \in probes :
        /\ probes' = probes \ {p}
        /\ \E r \in ProbeVolter : ProbeResult(p, r[1], r[2])
        /\ UNCHANGED <<listing, loading, saved, settings, mine, fetches, edits, late>>
  BY DEF ProbeDone
<1>2. PICK r \in ProbeVolter : ProbeResult(p, r[1], r[2])
  BY <1>1
<1> DEFINE e == p.name
           six == r[2]
           m == r[1]
           newMode == [is |-> m, of |-> p.server]
           newV6 == [is |-> six, of |-> p.server]
<1>3. m \in Words /\ six \in BOOLEAN
  <2>1. \/ r = <<"", FALSE>> \/ r = <<"unknown", TRUE>> \/ r = <<"unknown", FALSE>>
        \/ r = <<"tcp only", FALSE>> \/ r = <<"quic/tcp", TRUE>>
    BY Zenon DEF ProbeVolter
  <2>2. \A x \in Words, y \in BOOLEAN : <<x, y>> \in Words \X BOOLEAN
    OBVIOUS
  <2>3. r \in Words \X BOOLEAN
    <3>1. "" \in Words /\ "unknown" \in Words /\ "tcp only" \in Words /\ "quic/tcp" \in Words
      BY DEF Words
    <3> QED BY <2>1, <2>2, <3>1, Zenon
  <2> QED BY <2>3
<1>4. e \in Entry /\ p.server \in Host
  BY <1>i DEF CloudTypes
<1>5. \/ mode' = mode /\ moved' = moved
      \/ mode' = [mode EXCEPT ![e] = newMode] /\ moved' = IF p.server = At(listing, e) THEN moved \ {e} ELSE moved
  BY <1>2 DEF ProbeResult
<1>6. v6' = v6 \/ v6' = [v6 EXCEPT ![e] = newV6]
  BY <1>2 DEF ProbeResult
<1>7. newMode \in [is : Words, of : Host] /\ newV6 \in [is : BOOLEAN, of : Host]
  BY <1>3, <1>4
<1>8. newMode.of = p.server /\ newV6.of = p.server
  OBVIOUS
<1>9. p.server # At(listing, e) => e \in late
  BY <1>i DEF ProbesInv
<1> HIDE DEF newMode, newV6, m, six, e
<1>10. CloudTypes'
  <2>1. mode' \in [Entry -> [is : Words, of : Host]]
    BY <1>4, <1>5, <1>7, <1>i DEF CloudTypes
  <2>2. v6' \in [Entry -> [is : BOOLEAN, of : Host]]
    BY <1>4, <1>6, <1>7, <1>i DEF CloudTypes
  <2> QED BY <2>1, <2>2, <1>1, <1>i DEF CloudTypes
<1>11. ProbesInv'
  BY <1>1, <1>i DEF ProbesInv, At
<1>12. ModeInv'
  <2> SUFFICES ASSUME NEW d \in Entry, mode'[d].is = "tcp only", mode'[d].of # At(listing, d)
               PROVE  d \in moved' \cup late
    BY <1>1 DEF ModeInv, At
  <2>1. CASE mode' = mode /\ moved' = moved
    BY <2>1, <1>i DEF ModeInv
  <2>2. CASE mode' = [mode EXCEPT ![e] = newMode] /\ moved' = IF p.server = At(listing, e) THEN moved \ {e} ELSE moved
    <3>1. CASE d = e
      <4>1. mode'[d] = newMode
        BY <2>2, <3>1, <1>4, <1>i DEF CloudTypes
      <4> QED BY <4>1, <3>1, <1>8, <1>9
    <3>2. CASE d # e
      <4>1. mode'[d] = mode[d] /\ (d \in moved => d \in moved')
        BY <2>2, <3>2, <1>4, <1>i DEF CloudTypes
      <4> QED BY <4>1, <1>i DEF ModeInv
    <3> QED BY <3>1, <3>2
  <2> QED BY <2>1, <2>2, <1>5
<1>13. V6Inv'
  <2> SUFFICES ASSUME NEW d \in Entry, v6'[d].is, v6'[d].of # At(listing, d)
               PROVE  d \in late
    BY <1>1 DEF V6Inv, At
  <2>1. CASE v6'[d] = v6[d]
    BY <2>1, <1>i DEF V6Inv
  <2>2. CASE v6'[d] # v6[d]
    <3>1. d = e /\ v6'[d] = newV6
      BY <2>2, <1>4, <1>6, <1>i DEF CloudTypes
    <3> QED BY <3>1, <1>8, <1>9
  <2> QED BY <2>1, <2>2
<1> QED BY <1>10, <1>11, <1>12, <1>13 DEF CloudInv

\* Probes begin, of the servers of the list or of the profiles: the history
\* notes those of another server than the listed one.
LEMMA CloudProbing == ASSUME CloudInv, EditEntry \/ KeyProbe PROVE CloudInv'
<1>i. CloudTypes /\ ProbesInv /\ ModeInv /\ V6Inv
  BY DEF CloudInv
<1>l. listing \in FetchCloud /\ saved \in FetchCloud
  BY <1>i DEF CloudTypes
<1>1. PICK ps : /\ ps \subseteq [name : Entry, server : Host]
                /\ probes' = probes \cup ps /\ late' = late \cup Astray(ps, listing)
                /\ saved' \in FetchCloud /\ UNCHANGED <<listing, mode, v6, moved>>
  <2>1. CASE EditEntry
    <3>1. PICK e \in Entry :
            \/ /\ \E line \in Lines : saved' = [saved EXCEPT ![e] = line]
               /\ Probing(AutoProbe(saved'))
            \/ saved' = [saved EXCEPT ![e] = Nil] /\ UNCHANGED <<probes, late>>
      BY <2>1 DEF EditEntry
    <3>2. saved' \in FetchCloud
      BY <3>1, <1>l DEF FetchCloud
    <3>3. CASE Probing(AutoProbe(saved'))
      BY <3>2, <3>3, <2>1, ProbesOfList DEF Probing, EditEntry
    <3>4. CASE UNCHANGED <<probes, late>>
      <4>1. Astray({}, listing) = {} /\ {} \subseteq [name : Entry, server : Host]
        BY DEF Astray
      <4>2. probes' = probes \cup {} /\ late' = late \cup Astray({}, listing)
        BY <4>1, <3>4
      <4> QED BY <4>1, <4>2, <3>2, <2>1 DEF EditEntry
    <3> QED BY <3>1, <3>3, <3>4
  <2>2. CASE KeyProbe
    <3>1. \E list \in {listing, saved} :
            \/ Probing(AutoProbe(list))
            \/ \E p \in AutoProbe(list) : Probing({p})
      BY <2>2 DEF KeyProbe
    <3>2. PICK list \in {listing, saved} : \E ps \in SUBSET AutoProbe(list) : Probing(ps)
      BY <3>1
    <3>3. PICK ps \in SUBSET AutoProbe(list) : Probing(ps)
      BY <3>2
    <3>4. ps \subseteq [name : Entry, server : Host]
      BY <3>3, <1>l, ProbesOfList
    <3> QED BY <3>3, <3>4, <2>2, <1>l DEF KeyProbe, Probing
  <2> QED BY <2>1, <2>2
<1>2. CloudTypes'
  BY <1>1, <1>i DEF CloudTypes
<1>3. ProbesInv'
  <2> SUFFICES ASSUME NEW p \in probes', p.server # At(listing, p.name) PROVE p.name \in late'
    BY <1>1 DEF ProbesInv, At
  <2>1. CASE p \in probes
    BY <2>1, <1>1, <1>i DEF ProbesInv
  <2>2. CASE p \in ps
    BY <2>2, <1>1 DEF Astray
  <2> QED BY <2>1, <2>2, <1>1
<1>4. ModeInv' /\ V6Inv'
  BY <1>1, <1>i DEF ModeInv, V6Inv, At
<1> QED BY <1>2, <1>3, <1>4 DEF CloudInv

\* The inductive invariant of the cloud list: word of another server is in
\* flight, or known, only under names whose line moved or whose probe strayed.
THEOREM CloudInvariant == CloudSpec => []CloudInv
<1>1. ASSUME CloudInv, [CloudNext]_cloudVars PROVE CloudInv'
  <2>1. CASE KeyR \/ EnterSettings \/ TraySettings \/ UNCHANGED cloudVars
    <3>1. UNCHANGED <<listing, probes, mode, v6, saved, moved, late>>
      BY <2>1 DEF KeyR, EnterSettings, TraySettings, cloudVars
    <3>2. CloudTypes' /\ ProbesInv' /\ ModeInv'
      BY <1>1, <3>1 DEF CloudInv, CloudTypes, ProbesInv, ModeInv, At
    <3>3. V6Inv'
      BY <1>1, <3>1 DEF CloudInv, V6Inv, At
    <3> QED BY <3>2, <3>3 DEF CloudInv
  <2> QED BY <1>1, <2>1, CloudFetched, CloudProbed, CloudProbing DEF CloudNext
<1> QED BY CloudStart, <1>1, PTL DEF CloudSpec

\* However fetches, probes and edits of the cloud list and of its saved profiles
\* interleave, and for any lines with any options, a connect goes by the line or
\* the profile that replaces it, and otherwise by what the listed server's own
\* probe said, unless the list moved or a probe of another server was in flight
\* (model.go: pterovpnResultMsg, reloadCloud, the enter on an entry).
THEOREM ProbesFind == CloudSpec => []ProbesFindTheirServer
BY CloudInvariant, CloudFound, PTL

-----------------------------------------------------------------------------
\* The profiles.  A step of the forms leaves the list and the files alone, or
\* reads the list again, or writes files it notes as not read since, or
\* completes a listed profile in place.
Fields == {"tab", "form", "inputs", "editing", "deleting", "idx", "target", "over"}

FormTypes ==
    /\ DOMAIN disk \subseteq Files /\ DOMAIN cached \subseteq Files
    /\ DOMAIN ui = Fields /\ ui.idx \in Nat /\ shrunk \in BOOLEAN

\* The target index is within the list, or the list has shrunk under it.
IdxInv == shrunk \/ (ui.idx <= Count /\ ui.over # "panic")

FormsInv == FormTypes /\ IdxInv /\ ListAgrees

\* Two directories hold the same under a name.
Same(d, e, m) == (m \in DOMAIN d <=> m \in DOMAIN e) /\ (m \in DOMAIN d => d[m] = e[m])

KeepsIndex == DOMAIN ui' = Fields /\ ui'.idx = ui.idx /\ ui'.over = ui.over

Rests == UNCHANGED <<disk, cached, unreloaded, read, topped, shrunk>>
Rereads == DOMAIN disk' \subseteq Files /\ ReloadCfgs
Touches ==
    /\ DOMAIN disk' \subseteq Files
    /\ \A m \in Files \ unreloaded' : m \notin unreloaded /\ Same(disk, disk', m)
    /\ UNCHANGED <<cached, read, topped, shrunk>>

LEMMA FileNames == TicketStore \in Files /\ "" \notin Files
BY FormsAssumption DEF Files

LEMMA FilesFinite == IsFiniteSet(Files)
<1> DEFINE I == 1 .. Len(Names)
           f == [i \in I |-> Names[i]]
<1>1. IsFiniteSet(I)
  <2>1. Names \in Seq(STRING)
    BY FormsAssumption
  <2>2. Len(Names) \in Nat
    BY <2>1, LenProperties
  <2> QED BY <2>2, FS_Interval
<1>2. Files = {f[i] : i \in I}
  BY DEF Files
<1>3. f \in Surjection(I, Files)
  BY <1>2 DEF Files, Surjection
<1> HIDE DEF f, I
<1> QED BY <1>1, <1>3, FS_Surjection

LEMMA CountNat == DOMAIN cached \subseteq Files => Count \in Nat
<1> SUFFICES ASSUME DOMAIN cached \subseteq Files PROVE Count \in Nat
  OBVIOUS
<1>1. IsFiniteSet(DOMAIN cached)
  BY FilesFinite, FS_Subset
<1> QED BY <1>1, FS_CardinalityType DEF Count

\* What a save of file n may leave.
LEMMA Saves ==
    ASSUME NEW d, NEW n, NEW doc, NEW w \in Outcomes(d, n, doc)
    PROVE  /\ DOMAIN w.disk \subseteq DOMAIN d \cup {n}
           /\ \A m : m # n => Same(d, w.disk, m)
<1>1. CASE w.disk = d
  BY <1>1 DEF Same
<1>2. ASSUME NEW x, w.disk = With(d, n, x)
      PROVE  DOMAIN w.disk = DOMAIN d \cup {n} /\ \A m : m # n => Same(d, w.disk, m)
  BY <1>2 DEF Same, With
<1>3. w.disk = d \/ w.disk = With(d, n, doc) \/ w.disk = With(d, n, Torn)
  BY DEF Outcomes
<1> QED BY <1>1, <1>2, <1>3

LEMMA Reload == ASSUME Rereads, DOMAIN cached \subseteq Files
    PROVE ListAgrees' /\ DOMAIN disk' \subseteq Files /\ DOMAIN cached' \subseteq Files
<1>1. cached' = List(disk') /\ DOMAIN cached' = Readable(disk')
  BY DEF Rereads, ReloadCfgs, List
<1>2. \A n \in DOMAIN cached' : cached'[n] = LoadByName(disk', n)
  BY DEF Rereads, ReloadCfgs, List
<1> QED BY <1>1, <1>2 DEF ListAgrees, Rereads, Readable

LEMMA Touch == ASSUME Touches, ListAgrees PROVE ListAgrees'
<1> SUFFICES ASSUME NEW n \in Files \ unreloaded'
             PROVE  /\ n \in DOMAIN cached' <=> n \in Readable(disk')
                    /\ n \in DOMAIN cached' \ topped' => cached'[n] = LoadByName(disk', n)
  BY DEF ListAgrees
<1>1. n \in Files \ unreloaded /\ Same(disk, disk', n)
  BY DEF Touches
<1>2. n \in Readable(disk) <=> n \in Readable(disk')
  BY <1>1 DEF Readable, Same
<1>3. n \in DOMAIN cached <=> n \in Readable(disk)
  BY <1>1 DEF ListAgrees
<1>4. n \in DOMAIN cached \ topped => cached[n] = LoadByName(disk, n)
  BY <1>1 DEF ListAgrees
<1>5. n \in Readable(disk) => LoadByName(disk', n) = LoadByName(disk, n)
  BY <1>1 DEF Readable, Same, LoadByName
<1>6. cached' = cached /\ topped' = topped
  BY DEF Touches
<1> QED BY <1>2, <1>3, <1>4, <1>5, <1>6

\* A repaired profile is a record.
LEMMA RepairedIsRecord == \A c : Repair(c) = [x \in DOMAIN Repair(c) |-> Repair(c)[x]]
<1> SUFFICES ASSUME NEW c PROVE Repair(c) = [x \in DOMAIN Repair(c) |-> Repair(c)[x]]
  OBVIOUS
<1> DEFINE b == [c EXCEPT !.managed = SanitizeManaged(c.managed), !.prot = SanitizeProtection(c.prot)]
<1>1. b = [x \in DOMAIN b |-> b[x]]
  OBVIOUS
<1>2. \A m, r : LET q == [b EXCEPT !.mesh = m, !.relay = r] IN q = [x \in DOMAIN q |-> q[x]]
  OBVIOUS
<1>3. Repair(c) = MigrateLegacyRelayToMesh(b)
  BY DEF Repair
<1> HIDE DEF b
<1>4. Repair(c) = b \/ \E m, r : Repair(c) = [b EXCEPT !.mesh = m, !.relay = r]
  BY <1>3 DEF MigrateLegacyRelayToMesh
<1> QED BY <1>1, <1>2, <1>4

\* A connect completes a profile in place, and notes it when that changes it.
LEMMA Connect == ASSUME TryConnect, ListAgrees PROVE ListAgrees' /\ DOMAIN cached' = DOMAIN cached
<1>1. PICK c \in DOMAIN cached :
        /\ cached' = [cached EXCEPT ![c].prot = TopUpEmbedded(cached[c].prot, env)]
        /\ topped' = IF TopUpEmbedded(cached[c].prot, env) # cached[c].prot THEN topped \cup {c} ELSE topped
  BY DEF TryConnect
<1>2. UNCHANGED <<disk, unreloaded>>
  BY DEF TryConnect
<1>3. DOMAIN cached' = DOMAIN cached
  BY <1>1
<1> SUFFICES ASSUME NEW n \in Files \ unreloaded, n \in DOMAIN cached \ topped'
             PROVE  cached'[n] = LoadByName(disk, n)
  BY <1>2, <1>3 DEF ListAgrees
<1>4. n \in DOMAIN cached \ topped
  BY <1>1
<1>5. cached[n] = LoadByName(disk, n)
  BY <1>4 DEF ListAgrees
<1>6. CASE n # c
  BY <1>1, <1>4, <1>5, <1>6
<1>7. CASE n = c
  <2>1. TopUpEmbedded(cached[n].prot, env) = cached[n].prot
    BY <1>1, <1>7
  <2>2. cached'[n] = [cached[n] EXCEPT !.prot = cached[n].prot]
    BY <1>1, <1>7, <2>1
  <2> DEFINE r == cached[n]
  <2>3. r = [x \in DOMAIN r |-> r[x]]
    BY <1>5, RepairedIsRecord DEF LoadByName
  <2> HIDE DEF r
  <2>4. [r EXCEPT !.prot = r.prot] = r
    BY <2>3
  <2> QED BY <2>2, <2>4, <1>5 DEF r
<1> QED BY <1>6, <1>7

\* Handlers that write a file and read nothing again.
LEMMA WriteTouches ==
    ASSUME DOMAIN disk \subseteq Files, NEW n \in Files, NEW doc, NEW w \in Outcomes(disk, n, doc),
           disk' = w.disk, Unreloaded({n})
    PROVE  Touches
<1>1. DOMAIN disk' \subseteq Files /\ \A m : m # n => Same(disk, disk', m)
  BY Saves
<1> QED BY <1>1 DEF Touches, Unreloaded

LEMMA ProtectionTouches ==
    ASSUME DOMAIN disk \subseteq Files, NEW n, NEW p, WriteProtection(n, p)
    PROVE  Touches
<1>1. n \in Files /\ Unreloaded({n})
  BY DEF WriteProtection, Readable
<1>2. PICK doc, w : w \in Outcomes(disk, n, doc) /\ disk' = w.disk
  BY DEF WriteProtection, Save
<1> QED BY <1>1, <1>2, WriteTouches

LEMMA TicketTouches == ASSUME DOMAIN disk \subseteq Files, UpsertPeerTicket PROVE Touches
<1>1. TicketStore \in Files /\ Unreloaded({TicketStore})
  BY FileNames DEF UpsertPeerTicket
<1>2. PICK doc, w : w \in Outcomes(disk, TicketStore, doc) /\ disk' = w.disk
  BY DEF UpsertPeerTicket
<1> QED BY <1>1, <1>2, WriteTouches

LEMMA SetTouches ==
    ASSUME DOMAIN disk \subseteq Files, NEW p, SetProtection(p)
    PROVE  Rests \/ Touches
<1>1. CASE SaveGlobal(p)
  BY <1>1 DEF SaveGlobal, Rests
<1>2. CASE WriteProtection(ui.target, p)
  BY <1>2, ProtectionTouches
<1>3. CASE KeepFiles
  BY <1>3 DEF KeepFiles, Rests
<1> QED BY <1>1, <1>2, <1>3 DEF SetProtection

\* The mesh form and the connection forms read the list again when they saved.
LEMMA MeshFormStep ==
    ASSUME FormTypes, EnterMesh
    PROVE  (Rereads \/ Touches) /\ (ui' = ui \/ ui' = Close)
<1>1. PICK n, doc, w : /\ n \in Readable(disk) /\ w \in Outcomes(disk, n, doc) /\ disk' = w.disk
                        /\ IF w.ok THEN ReloadCfgs /\ ui' = Close ELSE Unreloaded({n}) /\ UNCHANGED ui
  <2>1. PICK r : SaveMeshForm(r)
    BY DEF EnterMesh
  <2> QED BY <2>1 DEF SaveMeshForm, Save
<1>2. n \in Files /\ DOMAIN disk' \subseteq Files
  <2>1. n \in Files /\ DOMAIN disk \subseteq Files
    BY <1>1 DEF FormTypes, Readable
  <2> QED BY <1>1, <2>1, Saves
<1>3. CASE w.ok
  BY <1>1, <1>2, <1>3 DEF Rereads
<1>4. CASE ~w.ok
  BY <1>1, <1>2, <1>4, WriteTouches DEF FormTypes
<1> QED BY <1>3, <1>4

LEMMA ConnFormStep ==
    ASSUME FormTypes, EnterConnForm
    PROVE  (Rereads \/ Touches) /\ (ui' = ui \/ ui' = Close)
<1>1. PICK n, rest, doc, w :
        /\ n \in Files
        /\ rest = disk \/ rest = Without(disk, ui.editing)
        /\ w \in Outcomes(rest, n, doc) /\ disk' = w.disk
        /\ IF w.ok THEN ReloadCfgs /\ ui' = Close
           ELSE Unreloaded({n, ui.editing} \ {""}) /\ UNCHANGED ui
  BY DEF EnterConnForm, Save, Files
<1>2. /\ DOMAIN rest \subseteq DOMAIN disk
      /\ \A m : m # ui.editing => Same(disk, rest, m)
  BY <1>1 DEF Without, Same
<1>3. /\ DOMAIN disk' \subseteq DOMAIN rest \cup {n}
      /\ \A m : m # n => Same(rest, disk', m)
  BY <1>1, Saves
<1>4. DOMAIN disk' \subseteq Files
  BY <1>1, <1>2, <1>3 DEF FormTypes
<1>5. CASE w.ok
  BY <1>1, <1>4, <1>5 DEF Rereads
<1>6. CASE ~w.ok
  <2>1. unreloaded' = unreloaded \cup ({n, ui.editing} \ {""}) /\ UNCHANGED <<cached, read, topped, shrunk, ui>>
    BY <1>1, <1>6 DEF Unreloaded
  <2>2. ASSUME NEW m \in Files \ unreloaded' PROVE m \notin unreloaded /\ Same(disk, disk', m)
    <3>1. m # n /\ m # ui.editing /\ m \notin unreloaded
      BY <2>1, FileNames
    <3> QED BY <3>1, <1>2, <1>3 DEF Same
  <2> QED BY <1>4, <2>1, <2>2 DEF Touches
<1> QED BY <1>5, <1>6

LEMMA KeyYStep == ASSUME FormTypes, KeyY PROVE Rereads
BY DEF KeyY, FormTypes, Rereads, Without

LEMMA FilesStep ==
    ASSUME FormTypes,
           \/ KeyEsc \/ KeyN \/ KeyD \/ KeyY \/ KeyTab \/ KeyCluster \/ KeyPreset
           \/ KeyExportTicket \/ KeyImportTicket \/ KeyE \/ EnterMesh \/ EnterProtection \/ EnterConnForm
    PROVE  Rests \/ Rereads \/ Touches
<1>d. DOMAIN disk \subseteq Files
  BY DEF FormTypes
<1>1. CASE KeyEsc \/ KeyN \/ KeyD \/ KeyTab \/ KeyE
  <2>1. KeepFiles
    BY <1>1 DEF KeyEsc, KeyN, KeyD, KeyTab, KeyE
  <2> QED BY <2>1 DEF KeepFiles, Rests
<1>2. CASE KeyCluster
  <2>1. PICK n, p : WriteProtection(n, p)
    BY <1>2 DEF KeyCluster
  <2> QED BY <2>1, <1>d, ProtectionTouches
<1>3. CASE KeyPreset \/ EnterProtection
  <2>1. PICK p : SetProtection(p)
    BY <1>3 DEF KeyPreset, EnterProtection
  <2> QED BY <2>1, <1>d, SetTouches
<1>4. CASE KeyExportTicket \/ KeyImportTicket
  <2>1. UpsertPeerTicket
    BY <1>4 DEF KeyExportTicket, KeyImportTicket
  <2> QED BY <2>1, <1>d, TicketTouches
<1> QED BY <1>1, <1>2, <1>3, <1>4, KeyYStep, MeshFormStep, ConnFormStep

\* Only ctrl+left and ctrl+right move the target index.
LEMMA CloseKeeps == FormTypes => DOMAIN Close = Fields /\ Close.idx = ui.idx /\ Close.over = ui.over
BY DEF FormTypes, Close, Fields

LEMMA IndexStep ==
    ASSUME FormTypes,
           \/ KeyEsc \/ KeyN \/ KeyD \/ KeyY \/ KeyTab \/ KeyCluster \/ KeyPreset
           \/ KeyExportTicket \/ KeyImportTicket \/ KeyE \/ EnterMesh \/ EnterProtection \/ EnterConnForm
           \/ TryConnect
    PROVE  KeepsIndex
<1> USE DEF FormTypes, KeepsIndex
<1>1. CASE ui' = ui
  BY <1>1
<1>2. CASE ui' = Close
  BY <1>2, CloseKeeps
<1>3. CASE KeyEsc
  BY <1>1, <1>2, <1>3 DEF KeyEsc, Fields
<1>4. CASE KeyN
  BY <1>4 DEF KeyN, Fields
<1>5. CASE KeyD
  BY <1>5 DEF KeyD, Fields
<1>6. CASE KeyY
  BY <1>6 DEF KeyY, Fields
<1>7. CASE KeyTab
  BY <1>7 DEF KeyTab, Fields
<1>8. CASE KeyE
  BY <1>8 DEF KeyE, Fields
<1>9. CASE KeyCluster \/ KeyPreset \/ KeyExportTicket \/ KeyImportTicket \/ TryConnect
  BY <1>1, <1>9 DEF KeyCluster, KeyPreset, KeyExportTicket, KeyImportTicket, TryConnect
<1>10. CASE EnterProtection
  BY <1>2, <1>10 DEF EnterProtection
<1> QED BY <1>1, <1>2, <1>3, <1>4, <1>5, <1>6, <1>7, <1>8, <1>9, <1>10, MeshFormStep, ConnFormStep

LEMMA FormsStart == FormsInit => FormsInv
<1> SUFFICES ASSUME FormsInit PROVE FormsInv
  OBVIOUS
<1>1. DOMAIN disk \subseteq Files
  BY FormsAssumption DEF FormsInit, Files
<1>2. cached = List(disk) /\ DOMAIN cached = Readable(disk) /\ DOMAIN cached \subseteq Files
  BY <1>1 DEF FormsInit, List, Readable
<1>3. DOMAIN ui = Fields /\ ui.idx = 0 /\ ui.over = "no"
  BY DEF FormsInit, Fields
<1>4. IdxInv
  BY <1>2, <1>3, CountNat DEF IdxInv
<1>5. ListAgrees
  BY <1>2 DEF ListAgrees, List
<1>6. shrunk \in BOOLEAN
  BY DEF FormsInit
<1>7. FormTypes
  BY <1>1, <1>2, <1>3, <1>6 DEF FormTypes
<1> QED BY <1>4, <1>5, <1>7 DEF FormsInv

\* ctrl+left counts down to 0 and from there to the length of the list,
\* ctrl+right counts up to it and back to 0.
LEMMA TargetStep ==
    ASSUME FormsInv, KeyTarget(PrevTarget) \/ KeyTarget(NextTarget)
    PROVE  FormsInv'
<1>t. FormTypes /\ IdxInv /\ ListAgrees
  BY DEF FormsInv
<1>c. Count \in Nat /\ ui.idx \in Nat
  BY <1>t, CountNat DEF FormTypes
<1>1. PICK i : /\ i = PrevTarget \/ i = NextTarget
               /\ KeyTarget(i)
  OBVIOUS
<1>2. i \in Nat /\ (i <= Count \/ i < ui.idx)
  <2>1. CASE i = PrevTarget
    BY <2>1, <1>c DEF PrevTarget
  <2>2. CASE i = NextTarget
    <3> DEFINE k == ui.idx + 1
               q == Count + 1
    <3>1. k \in Nat /\ q \in Nat /\ q > 0
      BY <1>c
    <3> HIDE DEF k, q
    <3>2. k % q \in 0 .. q - 1
      BY <3>1
    <3> QED BY <2>2, <3>2, <1>c DEF NextTarget, k, q
  <2> QED BY <1>1, <2>1, <2>2
<1>3. UNCHANGED <<disk, cached, unreloaded, topped>>
  BY <1>1 DEF KeyTarget
<1>4. ListAgrees' /\ Count' = Count
  BY <1>3, <1>t DEF ListAgrees, Count
<1>5. ui.over = "no"
  BY <1>1 DEF KeyTarget, Alive
<1>6. CASE i <= Count
  <2>1. PICK t : ui' = [ui EXCEPT !.idx = i, !.target = t]
    BY <1>1, <1>6 DEF KeyTarget
  <2>2. shrunk' = FALSE
    BY <1>1, <1>6 DEF KeyTarget
  <2>3. DOMAIN ui' = Fields /\ ui'.idx = i /\ ui'.over = "no"
    BY <2>1, <1>5, <1>t DEF FormTypes, Fields
  <2>4. FormTypes'
    BY <2>2, <2>3, <1>2, <1>3, <1>t DEF FormTypes
  <2>5. IdxInv'
    BY <2>3, <1>4, <1>6 DEF IdxInv
  <2> QED BY <2>4, <2>5, <1>4 DEF FormsInv
<1>7. CASE ~(i <= Count)
  <2>1. ui' = [ui EXCEPT !.over = "panic"]
    BY <1>1, <1>7 DEF KeyTarget
  <2>2. shrunk' = shrunk
    BY <1>1, <1>7 DEF KeyTarget
  <2>3. DOMAIN ui' = Fields /\ ui'.idx = ui.idx
    BY <2>1, <1>t DEF FormTypes, Fields
  <2>4. ~(ui.idx <= Count)
    BY <1>2, <1>7, <1>c
  <2>5. shrunk
    BY <2>4, <1>t DEF IdxInv
  <2>6. FormTypes'
    BY <2>2, <2>3, <1>3, <1>t DEF FormTypes
  <2>7. IdxInv'
    BY <2>2, <2>5 DEF IdxInv
  <2> QED BY <2>6, <2>7, <1>4 DEF FormsInv
<1> QED BY <1>6, <1>7

LEMMA OtherStep ==
    ASSUME FormsInv, KeepsIndex, Rests \/ Rereads \/ Touches \/ TryConnect
    PROVE  FormsInv'
<1>t. FormTypes /\ IdxInv /\ ListAgrees
  BY DEF FormsInv
<1>c. Count \in Nat /\ ui.idx \in Nat /\ ui'.idx = ui.idx
  BY <1>t, CountNat DEF FormTypes, KeepsIndex
<1>1. CASE Rereads
  <2>1. ListAgrees' /\ DOMAIN disk' \subseteq Files /\ DOMAIN cached' \subseteq Files
    BY <1>1, <1>t, Reload DEF FormTypes
  <2>2. shrunk' = (shrunk \/ Count' < Count)
    BY <1>1 DEF Rereads, ReloadCfgs
  <2>3. Count' \in Nat
    <3>1. (DOMAIN cached \subseteq Files => Count \in Nat)'
      BY CountNat, PTL
    <3> QED BY <2>1, <3>1 DEF Files
  <2>4. FormTypes'
    <3>1. shrunk' \in BOOLEAN
      BY <2>2
    <3> QED BY <2>1, <3>1, <1>c DEF FormTypes, KeepsIndex
  <2>5. CASE shrunk
    BY <2>1, <2>2, <2>4, <2>5 DEF FormsInv, IdxInv
  <2>6. CASE ~shrunk
    <3>1. ui.idx <= Count /\ ui.over # "panic"
      BY <2>6, <1>t DEF IdxInv
    <3>2. CASE Count' < Count
      BY <2>1, <2>2, <2>4, <3>2 DEF FormsInv, IdxInv
    <3>3. CASE ~(Count' < Count)
      <4>1. ui'.idx <= Count'
        BY <3>1, <3>3, <1>c, <2>3
      <4> QED BY <4>1, <3>1, <2>1, <2>4 DEF FormsInv, IdxInv, KeepsIndex
    <3> QED BY <3>2, <3>3
  <2> QED BY <2>5, <2>6
<1>2. CASE Rests \/ Touches \/ TryConnect
  <2>1. ListAgrees'
    <3>1. CASE Rests
      BY <3>1, <1>t DEF Rests, ListAgrees
    <3> QED BY <1>2, <3>1, <1>t, Touch, Connect
  <2>2. DOMAIN disk' \subseteq Files /\ DOMAIN cached' = DOMAIN cached /\ shrunk' = shrunk
    BY <1>2, <1>t, Connect DEF Rests, Touches, TryConnect, FormTypes
  <2>3. Count' = Count
    BY <2>2 DEF Count
  <2>4. FormTypes'
    BY <2>2, <1>c, <1>t DEF FormTypes, KeepsIndex
  <2>5. IdxInv'
    BY <2>2, <2>3, <1>c, <1>t DEF IdxInv, KeepsIndex
  <2> QED BY <2>1, <2>4, <2>5 DEF FormsInv
<1> QED BY <1>1, <1>2

\* The inductive invariant of the profile forms: the directory and the list
\* stay within the known names, the target index within the list (or the list
\* has shrunk under it), and ListAgrees, which is inductive on top of these.
THEOREM FormsInvariant == FormsSpec => []FormsInv
<1>1. ASSUME FormsInv, [FormsNext]_formVars PROVE FormsInv'
  <2>t. FormTypes
    BY <1>1 DEF FormsInv
  <2>1. CASE UNCHANGED formVars
    <3>1. Rests /\ KeepsIndex
      BY <2>1, <2>t DEF Rests, KeepsIndex, formVars, FormTypes
    <3> QED BY <3>1, <1>1, OtherStep
  <2>2. CASE KeyTarget(PrevTarget) \/ KeyTarget(NextTarget)
    BY <2>2, <1>1, TargetStep
  <2>3. CASE \/ KeyEsc \/ KeyN \/ KeyD \/ KeyY \/ KeyTab \/ KeyCluster \/ KeyPreset
             \/ KeyExportTicket \/ KeyImportTicket \/ KeyE \/ EnterMesh \/ EnterProtection \/ EnterConnForm
    <3>1. KeepsIndex
      BY <2>3, <2>t, IndexStep
    <3>2. Rests \/ Rereads \/ Touches
      BY <2>3, <2>t, FilesStep
    <3> QED BY <3>1, <3>2, <1>1, OtherStep
  <2>4. CASE TryConnect
    <3>1. KeepsIndex
      BY <2>4, <2>t, IndexStep
    <3> QED BY <3>1, <2>4, <1>1, OtherStep
  <2> QED BY <1>1, <2>1, <2>2, <2>3, <2>4 DEF FormsNext
<1> QED BY FormsStart, <1>1, PTL DEF FormsSpec

\* For any profile directory, any failing writes and any keys, the list shows
\* what the files hold, but for the files written by a handler that does not
\* reload and the options a connect completed in place (model.go: reloadCfgs
\* and its callers).
THEOREM ListFollowsFiles == FormsSpec => []ListAgrees
BY FormsInvariant, PTL DEF FormsInv

\* ctrl+left and ctrl+right run past the list, the panic of model.go, only
\* after the list shrank under the index.
THEOREM PanicNeedsShrink == FormsSpec => []PanicsOnlyAfterShrink
<1>1. FormsInv => PanicsOnlyAfterShrink
  BY DEF FormsInv, IdxInv, PanicsOnlyAfterShrink
<1> QED BY <1>1, FormsInvariant, PTL

-----------------------------------------------------------------------------
\* The sections of a profile, and the protection a connect uses.

Prots == ProtectionOptions \cup {Nil}
Meshes == MeshConfig \cup {Nil}
Relays == RelayOptions \cup {Nil}
DiskOK(d) == \A n \in DOMAIN d : WellFormed(d[n].cfg)

\* Every section, in a file, in the global file, in the list and in an open
\* form, is one; the two forms are open on their own tabs only.
GlobOK == glob \in Prots
ListOK == \A n \in DOMAIN cached : WellFormed(cached[n])
FormOK ==
  /\ {"prot", "relay"} \subseteq DOMAIN ui.inputs
  /\ ui.form = "mesh" => ui.inputs.relay \in RelayOptions /\ ui.tab = "mesh"
  /\ ui.form = "protection" =>
       /\ ui.inputs.prot \in ProtectionOptions /\ ui.inputs.prot.emb \in DpiLocalEmbedded
       /\ ui.tab = "protection"
SectionsOK == DiskOK(disk) /\ GlobOK /\ ListOK /\ FormOK

\* The list holds the protection each profile had when it was last read, or that
\* with the embedded engine completed; files not written since still have it.
UsesRead ==
  /\ DOMAIN read = DOMAIN cached
  /\ \A n \in DOMAIN cached :
       LET p == read[n].prot
       IN  p \in Prots /\ (cached[n].prot = p \/ (p # Nil /\ cached[n].prot = TopUpEmbedded(p, env)))
  /\ \A n \in DOMAIN cached \ unreloaded :
       n \in Readable(disk) /\ read[n].prot = LoadByName(disk, n).prot

LEMMA NilIsNone ==
  Nil \notin ProtectionOptions /\ Nil \notin DpiLocalEmbedded /\ Nil \notin RelayOptions /\ Nil \notin MeshConfig
BY NilAssumption

LEMMA ZeroProtIsOne == ZeroProt \in ProtectionOptions
BY DEF ZeroProt, ProtectionOptions, Text

LEMMA ZeroCfgIsOne == WellFormed(ZeroCfg) /\ ZeroCfg.prot = Nil
BY DEF ZeroCfg, WellFormed

LEMMA SanitizedIsOne == \A p \in Prots : SanitizeProtection(p) \in Prots
<1> SUFFICES ASSUME NEW p \in ProtectionOptions PROVE [p EXCEPT !.preset = IF p.preset = "long" THEN "cut" ELSE p.preset] \in ProtectionOptions
  BY DEF SanitizeProtection, Prots
<1>1. (IF p.preset = "long" THEN "cut" ELSE p.preset) \in Text
  BY DEF ProtectionOptions, Text
<1> QED BY <1>1 DEF ProtectionOptions

LEMMA Texts == {"", "default", "enhanced", "strong", "long", "cut", "embedded", "external", "turn",
                "direct", "server_relay", "node", "stun*", "any:0", "rnd"} \subseteq Text
BY DEF Text

LEMMA ZeroRelayIsOne == ZeroRelay \in RelayOptions
BY DEF ZeroRelay, RelayOptions, Text

LEMMA ZeroMeshIsOne == ZeroMesh \in MeshConfig
BY DEF ZeroMesh, MeshConfig, Text

\* What the mesh section holds of relay options: all but turn, geo and stake.
Holds(m, r) ==
  /\ m.on /\ m.sr /\ m.id = r.id /\ m.key = r.key /\ m.dht = r.dht /\ m.disc = r.disc
  /\ m.listen = r.listen /\ m.vol = (r.listen # "")
  /\ m.stun = r.stun /\ m.stunOn = (r.stun # "" \/ r.srflx) /\ m.srflx = r.srflx
  /\ m.p2p = r.path /\ m.udp = r.udp /\ m.tcp = (r.tcp # "no") /\ m.gossip = r.gossip
  /\ m.kbps = r.kbps /\ m.hops = r.hops
  /\ m.peerKbps = IF r.peerKbps <= 0 THEN r.kbps ELSE r.peerKbps

LEMMA ToMeshIsOne ==
  ASSUME NEW r \in RelayOptions, NEW base \in Meshes
  PROVE  RelayOptionsToMesh(r, base) \in MeshConfig /\ Holds(RelayOptionsToMesh(r, base), r)
<1> DEFINE z == IF base = Nil THEN ZeroMesh ELSE base
           a == (r.listen # "")
           b == IF r.peerKbps <= 0 THEN r.kbps ELSE r.peerKbps
           c == (r.tcp # "no")
           d == (r.stun # "" \/ r.srflx)
<1>1. z \in MeshConfig
  BY ZeroMeshIsOne DEF Meshes
<1>2. a \in BOOLEAN /\ c \in BOOLEAN /\ d \in BOOLEAN
  BY DEF RelayOptions
<1>3. b \in Int
  BY DEF RelayOptions
<1> DEFINE x == [z EXCEPT !.on = TRUE, !.id = r.id, !.key = r.key, !.listen = r.listen, !.vol = a,
                          !.peerKbps = b, !.p2p = r.path, !.udp = r.udp, !.tcp = c]
           y == [x EXCEPT !.sr = TRUE, !.disc = r.disc, !.stunOn = d, !.stun = r.stun, !.srflx = r.srflx,
                          !.gossip = r.gossip, !.dht = r.dht, !.kbps = r.kbps, !.hops = r.hops]
<1>4. RelayOptionsToMesh(r, base) = y
  BY DEF RelayOptionsToMesh
<1> HIDE DEF z, a, b, c, d
<1>5. /\ x \in MeshConfig /\ x.on /\ x.id = r.id /\ x.key = r.key /\ x.listen = r.listen /\ x.vol = a
      /\ x.peerKbps = b /\ x.p2p = r.path /\ x.udp = r.udp /\ x.tcp = c
  BY <1>1, <1>2, <1>3 DEF MeshConfig, RelayOptions
<1> HIDE DEF x
<1>6. /\ y \in MeshConfig /\ y.on = x.on /\ y.id = x.id /\ y.key = x.key /\ y.listen = x.listen /\ y.vol = x.vol
      /\ y.peerKbps = x.peerKbps /\ y.p2p = x.p2p /\ y.udp = x.udp /\ y.tcp = x.tcp
      /\ y.sr /\ y.disc = r.disc /\ y.stunOn = d /\ y.stun = r.stun /\ y.srflx = r.srflx
      /\ y.gossip = r.gossip /\ y.dht = r.dht /\ y.kbps = r.kbps /\ y.hops = r.hops
  BY <1>2, <1>5 DEF MeshConfig, RelayOptions
<1> HIDE DEF y
<1>7. y \in MeshConfig /\ Holds(y, r)
  BY <1>5, <1>6 DEF Holds, a, b, c, d
<1> QED BY <1>4, <1>7

\* What a client reads from the mesh section.
Shows(r, m) ==
  /\ r.id = m.id /\ r.key = m.key /\ r.dht = m.dht /\ r.disc = (IF m.sr THEN m.disc ELSE "")
  /\ r.listen = (IF m.vol THEN m.listen ELSE "") /\ r.stun = (IF m.stunOn THEN m.stun ELSE "")
  /\ r.srflx = (m.vol /\ m.stunOn /\ m.srflx)
  /\ r.path = m.p2p /\ r.udp = (m.p2p /\ m.udp) /\ r.tcp = (IF m.p2p /\ m.tcp THEN "yes" ELSE "no")
  /\ r.gossip = m.gossip /\ r.kbps = m.kbps /\ r.hops = m.hops /\ r.peerKbps = m.peerKbps

LEMMA ToRelayIsOne ==
  ASSUME NEW m \in MeshConfig
  PROVE  LET r == MeshToRelayOptions(m)
         IN  r \in RelayOptions /\ Shows(r, m) /\ r.turn = "" /\ r.geo = "" /\ r.stake = 0
<1> DEFINE a == (m.p2p /\ m.udp)
           b == IF m.p2p /\ m.tcp THEN "yes" ELSE "no"
           c == IF m.stunOn THEN m.stun ELSE ""
           d == IF m.sr THEN m.disc ELSE ""
           e == IF m.vol THEN m.listen ELSE ""
           f == (m.vol /\ m.stunOn /\ m.srflx)
           x == [ZeroRelay EXCEPT !.id = m.id, !.key = m.key, !.dht = m.dht, !.gossip = m.gossip,
                                  !.peerKbps = m.peerKbps, !.kbps = m.kbps, !.hops = m.hops]
           y == [x EXCEPT !.path = m.p2p, !.udp = a, !.tcp = b, !.stun = c, !.disc = d, !.listen = e, !.srflx = f]
<1>1. a \in BOOLEAN /\ f \in BOOLEAN
  BY DEF MeshConfig
<1>2. b \in {"unset", "yes", "no"}
  OBVIOUS
<1>3. c \in Text /\ d \in Text /\ e \in Text
  BY Texts DEF MeshConfig
<1>4. MeshToRelayOptions(m) = y
  BY DEF MeshToRelayOptions
<1>5. ZeroRelay.turn = "" /\ ZeroRelay.geo = "" /\ ZeroRelay.stake = 0
  BY DEF ZeroRelay
<1> HIDE DEF a, b, c, d, e, f
<1>6. /\ x \in RelayOptions
      /\ x.turn = ZeroRelay.turn /\ x.geo = ZeroRelay.geo /\ x.stake = ZeroRelay.stake
      /\ x.id = m.id /\ x.key = m.key /\ x.dht = m.dht /\ x.gossip = m.gossip
      /\ x.peerKbps = m.peerKbps /\ x.kbps = m.kbps /\ x.hops = m.hops
  BY ZeroRelayIsOne DEF MeshConfig, RelayOptions
<1> HIDE DEF x
<1>7. /\ y \in RelayOptions
      /\ y.turn = x.turn /\ y.geo = x.geo /\ y.stake = x.stake
      /\ y.id = x.id /\ y.key = x.key /\ y.dht = x.dht /\ y.gossip = x.gossip
      /\ y.peerKbps = x.peerKbps /\ y.kbps = x.kbps /\ y.hops = x.hops
      /\ y.path = m.p2p /\ y.udp = a /\ y.tcp = b /\ y.stun = c /\ y.disc = d /\ y.listen = e /\ y.srflx = f
  BY <1>1, <1>2, <1>3, <1>6 DEF MeshConfig, RelayOptions
<1> HIDE DEF y
<1>8. Shows(y, m)
  BY <1>6, <1>7 DEF Shows, a, b, c, d, e, f
<1> QED BY <1>4, <1>5, <1>6, <1>7, <1>8

LEMMA OverlayIsOne ==
  ASSUME NEW o \in Relays, NEW m \in MeshConfig
  PROVE  LET r == RelayOptionsWithMeshOverlay(o, m)
         IN  /\ r \in RelayOptions /\ Shows(r, m)
             /\ o = Nil => r.turn = "" /\ r.geo = "" /\ r.stake = 0
             /\ o # Nil => r.turn = o.turn /\ r.geo = o.geo /\ r.stake = o.stake
<1>1. CASE o = Nil
  BY <1>1, ToRelayIsOne DEF RelayOptionsWithMeshOverlay
<1>2. CASE o # Nil
  <2> DEFINE r == MeshToRelayOptions(m)
             q == [r EXCEPT !.turn = o.turn, !.geo = o.geo, !.stake = o.stake]
  <2>1. o.turn \in Text /\ o.geo \in Text /\ o.stake \in Int
    BY <1>2 DEF Relays, RelayOptions
  <2>2. r \in RelayOptions /\ Shows(r, m)
    BY ToRelayIsOne
  <2>3. RelayOptionsWithMeshOverlay(o, m) = q
    BY <1>2 DEF RelayOptionsWithMeshOverlay
  <2> HIDE DEF r
  <2>4. /\ q \in RelayOptions /\ q.turn = o.turn /\ q.geo = o.geo /\ q.stake = o.stake
        /\ q.id = r.id /\ q.key = r.key /\ q.dht = r.dht /\ q.disc = r.disc /\ q.listen = r.listen
        /\ q.stun = r.stun /\ q.srflx = r.srflx /\ q.path = r.path /\ q.udp = r.udp /\ q.tcp = r.tcp
        /\ q.gossip = r.gossip /\ q.kbps = r.kbps /\ q.hops = r.hops /\ q.peerKbps = r.peerKbps
    BY <2>1, <2>2 DEF RelayOptions
  <2> HIDE DEF q
  <2>5. Shows(q, m)
    BY <2>2, <2>4 DEF Shows
  <2> QED BY <1>2, <2>3, <2>4, <2>5
<1> QED BY <1>1, <1>2

LEMMA CarryOverIsOne ==
  ASSUME NEW r \in RelayOptions
  PROVE  LET o == LegacyRelayCarryOver(r)
         IN  /\ o \in Relays
             /\ o # Nil => o.turn = r.turn /\ o.geo = r.geo /\ o.stake = 0
             /\ o = Nil => r.turn = "" /\ r.geo = ""
<1> DEFINE q == [ZeroRelay EXCEPT !.turn = r.turn, !.geo = r.geo]
<1>1. q \in RelayOptions /\ q.turn = r.turn /\ q.geo = r.geo /\ q.stake = 0
  <2> DEFINE t == r.turn
             g == r.geo
  <2>1. t \in Text /\ g \in Text
    BY DEF RelayOptions
  <2>2. q = [ZeroRelay EXCEPT !.turn = t, !.geo = g] /\ ZeroRelay.stake = 0
    BY DEF ZeroRelay
  <2> HIDE DEF t, g, q
  <2>3. q \in RelayOptions /\ q.turn = t /\ q.geo = g /\ q.stake = ZeroRelay.stake
    BY <2>1, <2>2, ZeroRelayIsOne DEF RelayOptions
  <2> QED BY <2>2, <2>3 DEF t, g
<1>2. LegacyRelayCarryOver(r) = IF r.turn # "" \/ r.geo # "" THEN q ELSE Nil
  BY DEF LegacyRelayCarryOver, RelayOptionsHasCarryOverData
<1> HIDE DEF q
<1> QED BY <1>1, <1>2, NilIsNone DEF Relays

LEMMA EffectiveIsOne == ASSUME NEW c, WellFormed(c) PROVE EffectiveRelayOptions(c) \in Relays
<1>1. On(c.mesh) => c.mesh \in MeshConfig
  BY DEF On, WellFormed
<1> QED BY <1>1, OverlayIsOne DEF EffectiveRelayOptions, WellFormed, Relays

LEMMA MeshDefaultsIsOne == ASSUME NEW m \in MeshConfig PROVE ApplyMeshDefaults(m) \in MeshConfig
<1> DEFINE a == Or(m.stun, "stun*")
           b == (m.srflx \/ m.vol)
           c == (m.udp \/ (m.p2p /\ ~m.tcp))
           d == (m.tcp \/ (m.p2p /\ ~m.udp))
           e == Pos(m.hops, 2)
           f == Pos(m.kbps, 2048)
           g == IF m.vol THEN Or(m.id, "rnd") ELSE m.id
           h == IF m.vol THEN Or(m.listen, "any:0") ELSE m.listen
           i == IF m.vol THEN Pos(m.peerKbps, 768) ELSE m.peerKbps
           j == (m.gossip \/ m.p2p \/ m.vol)
<1>1. {a, g, h} \subseteq Text
  BY Texts DEF Or, MeshConfig
<1>2. {b, c, d, j} \subseteq BOOLEAN
  BY DEF MeshConfig
<1>3. {e, f, i} \subseteq Int
  BY DEF Pos, MeshConfig
<1> DEFINE x == [m EXCEPT !.stunOn = TRUE, !.stun = a, !.srflx = b, !.sr = TRUE, !.udp = c, !.tcp = d]
           y == [x EXCEPT !.hops = e, !.kbps = f, !.id = g, !.listen = h, !.peerKbps = i, !.gossip = j]
<1>4. ApplyMeshDefaults(m) = m \/ ApplyMeshDefaults(m) = y
  BY DEF ApplyMeshDefaults
<1> HIDE DEF a, b, c, d, e, f, g, h, i, j
<1>5. x \in MeshConfig
  BY <1>1, <1>2 DEF MeshConfig
<1> HIDE DEF x
<1>6. y \in MeshConfig
  BY <1>1, <1>2, <1>3, <1>5 DEF MeshConfig
<1> HIDE DEF y
<1> QED BY <1>4, <1>6

LEMMA RelayDefaultsIsOne == ASSUME NEW r \in RelayOptions PROVE ApplyRelayDefaults(r) \in RelayOptions
<1> DEFINE a == Or(r.stun, "stun*")
           b == Pos(r.hops, 2)
           c == Pos(r.peerKbps, 768)
           d == Pos(r.kbps, 2048)
           e == Or(r.id, "rnd")
           f == IF r.udp THEN Or(r.listen, "any:0") ELSE r.listen
           g == (r.path \/ ~r.gossip)
           h == IF r.tcp = "unset" THEN "yes" ELSE r.tcp
           i == (r.udp \/ r.tcp # "no")
<1>1. {a, e, f} \subseteq Text
  BY Texts DEF Or, RelayOptions
<1>2. g \in BOOLEAN /\ i \in BOOLEAN
  BY DEF RelayOptions
<1>3. {b, c, d} \subseteq Int
  BY DEF Pos, RelayOptions
<1>4. h \in {"unset", "yes", "no"}
  BY DEF RelayOptions
<1> DEFINE x == [r EXCEPT !.stun = a, !.hops = b, !.peerKbps = c, !.kbps = d, !.id = e, !.listen = f]
           y == [x EXCEPT !.path = g, !.srflx = TRUE, !.tcp = h, !.udp = i]
<1>5. ApplyRelayDefaults(r) = y
  BY DEF ApplyRelayDefaults
<1> HIDE DEF a, b, c, d, e, f, g, h, i
<1>6. x \in RelayOptions
  BY <1>1, <1>3 DEF RelayOptions
<1> HIDE DEF x
<1>7. y \in RelayOptions
  BY <1>2, <1>4, <1>6 DEF RelayOptions
<1> HIDE DEF y
<1> QED BY <1>5, <1>7

\* Relay options are one record when all their fields agree.
LEMMA SameOptions ==
  ASSUME NEW r \in RelayOptions, NEW s \in RelayOptions,
         r.id = s.id, r.key = s.key, r.disc = s.disc, r.stun = s.stun, r.dht = s.dht, r.listen = s.listen,
         r.srflx = s.srflx, r.path = s.path, r.udp = s.udp, r.tcp = s.tcp, r.gossip = s.gossip,
         r.peerKbps = s.peerKbps, r.kbps = s.kbps, r.hops = s.hops,
         r.turn = s.turn, r.geo = s.geo, r.stake = s.stake
  PROVE  r = s
BY DEF RelayOptions

LEMMA MigratedIsOne ==
  ASSUME NEW r \in RelayOptions
  PROVE  LET q == Migrated(r)
         IN  /\ q \in RelayOptions /\ q.stake = 0 /\ q.turn = r.turn /\ q.geo = r.geo
             /\ q.id = r.id /\ q.key = r.key /\ q.dht = r.dht /\ q.disc = r.disc /\ q.listen = r.listen
             /\ q.stun = r.stun /\ q.path = r.path /\ q.gossip = r.gossip /\ q.kbps = r.kbps /\ q.hops = r.hops
             /\ q.srflx = (r.listen # "" /\ r.srflx) /\ q.udp = (r.path /\ r.udp)
             /\ q.tcp = (IF r.path /\ r.tcp # "no" THEN "yes" ELSE "no")
             /\ q.peerKbps = (IF r.peerKbps <= 0 THEN r.kbps ELSE r.peerKbps)
<1> DEFINE a == (r.path /\ r.udp)
           b == IF r.path /\ r.tcp # "no" THEN "yes" ELSE "no"
           c == (r.listen # "" /\ r.srflx)
           d == IF r.peerKbps <= 0 THEN r.kbps ELSE r.peerKbps
           z == 0
           q == [r EXCEPT !.stake = z, !.udp = a, !.tcp = b, !.srflx = c, !.peerKbps = d]
<1>1. a \in BOOLEAN /\ c \in BOOLEAN
  BY DEF RelayOptions
<1>2. b \in {"unset", "yes", "no"} /\ z \in Int
  OBVIOUS
<1>3. d \in Int
  BY DEF RelayOptions
<1>4. Migrated(r) = q
  BY DEF Migrated
<1> HIDE DEF a, b, c, d, z
<1>5. /\ q \in RelayOptions /\ q.stake = z /\ q.turn = r.turn /\ q.geo = r.geo
      /\ q.id = r.id /\ q.key = r.key /\ q.dht = r.dht /\ q.disc = r.disc /\ q.listen = r.listen
      /\ q.stun = r.stun /\ q.path = r.path /\ q.gossip = r.gossip /\ q.kbps = r.kbps /\ q.hops = r.hops
      /\ q.srflx = c /\ q.udp = a /\ q.tcp = b /\ q.peerKbps = d
  BY <1>1, <1>2, <1>3 DEF RelayOptions
<1> HIDE DEF q
<1> QED BY <1>4, <1>5 DEF a, b, c, d, z

\* What is read back from the mesh section an old relay section became.
LEMMA ReadBack ==
  ASSUME NEW r \in RelayOptions, NEW m \in MeshConfig, Holds(m, r), NEW s \in RelayOptions, Shows(s, m),
         s.turn = r.turn, s.geo = r.geo, s.stake = 0
  PROVE  s = Migrated(r)
<1> DEFINE q == Migrated(r)
<1>1. /\ s.id = r.id /\ s.key = r.key /\ s.dht = r.dht
      /\ s.path = r.path /\ s.gossip = r.gossip /\ s.kbps = r.kbps /\ s.hops = r.hops
      /\ s.peerKbps = (IF r.peerKbps <= 0 THEN r.kbps ELSE r.peerKbps)
  BY Zenon DEF Holds, Shows
<1>2. s.disc = r.disc /\ s.listen = r.listen /\ s.stun = r.stun
  BY Zenon DEF Holds, Shows
<1>5. s.tcp = (IF r.path /\ r.tcp # "no" THEN "yes" ELSE "no")
  BY Zenon DEF Holds, Shows
<1>6. s.srflx = (r.listen # "" /\ r.srflx) /\ s.udp = (r.path /\ r.udp)
  BY DEF Holds, Shows, RelayOptions, MeshConfig
<1>3. /\ q \in RelayOptions /\ q.stake = 0 /\ q.turn = r.turn /\ q.geo = r.geo
      /\ q.id = r.id /\ q.key = r.key /\ q.dht = r.dht /\ q.disc = r.disc /\ q.listen = r.listen
      /\ q.stun = r.stun /\ q.path = r.path /\ q.gossip = r.gossip /\ q.kbps = r.kbps /\ q.hops = r.hops
      /\ q.srflx = (r.listen # "" /\ r.srflx) /\ q.udp = (r.path /\ r.udp)
      /\ q.tcp = (IF r.path /\ r.tcp # "no" THEN "yes" ELSE "no")
      /\ q.peerKbps = (IF r.peerKbps <= 0 THEN r.kbps ELSE r.peerKbps)
  BY MigratedIsOne
<1> HIDE DEF q
<1>4. s = q
  BY <1>1, <1>2, <1>3, <1>5, <1>6, SameOptions
<1> QED BY <1>4 DEF q

\* The migration is due once: it leaves a mesh section that is on.
AfterMigration(c) == IF Due(c) THEN Migrated(c.relay) ELSE EffectiveRelayOptions(c)

LEMMA MigrationIsOne ==
  ASSUME NEW c, WellFormed(c)
  PROVE  LET q == MigrateLegacyRelayToMesh(c)
         IN  /\ WellFormed(q) /\ ~Due(q) /\ q.prot = c.prot /\ q.managed = c.managed
             /\ EffectiveRelayOptions(q) = AfterMigration(c)
             /\ ~Due(c) => q.mesh = c.mesh /\ q.relay = c.relay
<1> DEFINE x == RelayOptionsToMesh(c.relay, c.mesh)
           y == LegacyRelayCarryOver(c.relay)
           q == [c EXCEPT !.mesh = x, !.relay = y]
<1>1. CASE ~Due(c)
  BY <1>1 DEF MigrateLegacyRelayToMesh, AfterMigration
<1>2. CASE Due(c)
  <2>1. c.relay \in RelayOptions /\ c.mesh \in Meshes /\ ~On(c.mesh)
    BY <1>2 DEF Due, WellFormed, Meshes
  <2>2. x \in MeshConfig /\ Holds(x, c.relay) /\ x # Nil
    BY <2>1, ToMeshIsOne, NilIsNone
  <2>3. /\ y \in Relays
        /\ y # Nil => y.turn = c.relay.turn /\ y.geo = c.relay.geo /\ y.stake = 0
        /\ y = Nil => c.relay.turn = "" /\ c.relay.geo = ""
    BY <2>1, CarryOverIsOne
  <2>4. MigrateLegacyRelayToMesh(c) = q
    BY <1>2 DEF MigrateLegacyRelayToMesh
  <2> HIDE DEF x, y
  <2>5. WellFormed(q) /\ q.mesh = x /\ q.relay = y /\ q.prot = c.prot /\ q.managed = c.managed
    BY <2>2, <2>3 DEF WellFormed, Relays
  <2> HIDE DEF q
  <2>6. On(q.mesh)
    BY <2>2, <2>5 DEF On, Holds
  <2>7. EffectiveRelayOptions(q) = Migrated(c.relay)
    <3> DEFINE o == RelayOptionsWithMeshOverlay(y, x)
    <3>1. EffectiveRelayOptions(q) = o
      BY <2>5, <2>6 DEF EffectiveRelayOptions
    <3>2. o \in RelayOptions /\ Shows(o, x) /\ o.turn = c.relay.turn /\ o.geo = c.relay.geo /\ o.stake = 0
      BY <2>2, <2>3, OverlayIsOne
    <3> HIDE DEF o
    <3>3. o = Migrated(c.relay)
      BY <3>2, <2>1, <2>2, ReadBack
    <3> QED BY <3>1, <3>3
  <2> QED BY <1>2, <2>4, <2>5, <2>6, <2>7 DEF Due, AfterMigration
<1> QED BY <1>1, <1>2

\* The repairs of Load and Save: sections stay sections, an old relay section
\* becomes a mesh section once, the other sections stay.
LEMMA RepairIsOne ==
  ASSUME NEW c, WellFormed(c)
  PROVE  /\ WellFormed(Repair(c)) /\ ~Due(Repair(c))
         /\ Repair(c).prot = SanitizeProtection(c.prot)
         /\ Repair(c).managed = SanitizeManaged(c.managed)
         /\ EffectiveRelayOptions(Repair(c)) = AfterMigration(c)
         /\ ~Due(c) => Repair(c).mesh = c.mesh /\ Repair(c).relay = c.relay
<1> DEFINE m == SanitizeManaged(c.managed)
           s == SanitizeProtection(c.prot)
           b == [c EXCEPT !.managed = m, !.prot = s]
<1>1. s \in Prots
  BY SanitizedIsOne DEF WellFormed, Prots
<1>2. Repair(c) = MigrateLegacyRelayToMesh(b)
  BY DEF Repair
<1> HIDE DEF m, s
<1>3. WellFormed(b) /\ b.prot = s /\ b.managed = m /\ b.mesh = c.mesh /\ b.relay = c.relay
  BY <1>1 DEF WellFormed, Prots
<1> HIDE DEF b
<1>4. AfterMigration(b) = AfterMigration(c) /\ (Due(b) <=> Due(c))
  BY <1>3 DEF AfterMigration, EffectiveRelayOptions, Due
<1> QED BY <1>2, <1>3, <1>4, MigrationIsOne DEF m, s

LEMMA LoadedIsOne == ASSUME NEW d, DiskOK(d), NEW n \in DOMAIN d PROVE WellFormed(LoadByName(d, n))
BY RepairIsOne DEF DiskOK, LoadByName

LEMMA SavesKeepProt ==
  ASSUME NEW d, DiskOK(d), NEW n, NEW doc, WellFormed(doc.cfg), NEW w \in Outcomes(d, n, doc)
  PROVE  DiskOK(w.disk)
<1>1. WellFormed(Torn.cfg)
  BY ZeroCfgIsOne DEF Torn
<1>2. ASSUME NEW x, WellFormed(x.cfg) PROVE DiskOK(With(d, n, x))
  BY <1>2 DEF With, DiskOK
<1>3. w.disk = d \/ w.disk = With(d, n, doc) \/ w.disk = With(d, n, Torn)
  BY DEF Outcomes
<1> QED BY <1>1, <1>2, <1>3

LEMMA SavesProfile ==
  ASSUME NEW d, DiskOK(d), NEW n, NEW c, WellFormed(c), NEW w \in Save(d, n, c)
  PROVE  DiskOK(w.disk)
<1> DEFINE doc == ProfileFile(Repair(c))
<1>1. WellFormed(doc.cfg)
  BY RepairIsOne DEF ProfileFile
<1> HIDE DEF doc
<1>2. w \in Outcomes(d, n, doc)
  BY DEF Save, doc
<1> QED BY <1>1, <1>2, SavesKeepProt

LEMMA WriteKeepsProts ==
  ASSUME DiskOK(disk), NEW n, NEW p \in Prots, WriteProtection(n, p)
  PROVE  DiskOK(disk')
<1>1. n \in DOMAIN disk
  BY DEF WriteProtection, Readable
<1> DEFINE l == LoadByName(disk, n)
           c == [l EXCEPT !.prot = p]
<1>2. WellFormed(l)
  BY <1>1, LoadedIsOne
<1>3. WellFormed(c)
  <2> HIDE DEF l
  <2> QED BY <1>2 DEF WellFormed, Prots
<1>4. PICK w \in Save(disk, n, c) : disk' = w.disk
  BY DEF WriteProtection
<1> HIDE DEF c
<1> QED BY <1>3, <1>4, SavesProfile

LEMMA OptionsIsOne == ASSUME NEW c, c.prot \in Prots PROVE Options(c) \in ProtectionOptions
BY ZeroProtIsOne DEF Options, Prots

LEMMA ClusterIsOne == \A p \in ProtectionOptions : ApplyClusterProtectionDefaults(p) \in ProtectionOptions
BY DEF ApplyClusterProtectionDefaults, ProtectionOptions

\* What the form shows of a protection section is one, and what it gives back.
LEMMA FormInputsIsOne ==
  ASSUME NEW p \in ProtectionOptions
  PROVE  NewProtectionInputs(p) \in ProtectionOptions /\ NewProtectionInputs(p).emb \in DpiLocalEmbedded
<1> DEFINE e == MergeDpiLocalEmbeddedDefaults(p.emb)
           o == Or(p.obf, "default")
           g == IF p.engine = "external" THEN "external" ELSE "embedded"
<1>1. e \in DpiLocalEmbedded
  <2>1. p.emb # Nil => p.emb.split \in Int /\ p.emb.split2 \in Int
    BY DEF ProtectionOptions, DpiLocalEmbedded
  <2> DEFINE s == IF p.emb # Nil /\ p.emb.split > 0 THEN Clamp(p.emb.split, 1, 65536) ELSE 1
             t == IF p.emb # Nil /\ p.emb.split2 > 0 THEN Clamp(p.emb.split2, 1, 65536) ELSE 0
  <2>2. s \in Int /\ t \in Int
    BY <2>1 DEF Clamp
  <2>3. e = [split |-> s, split2 |-> IF t <= s THEN 0 ELSE t]
    BY DEF MergeDpiLocalEmbeddedDefaults
  <2> HIDE DEF s, t, e
  <2> QED BY <2>2, <2>3 DEF DpiLocalEmbedded
<1>2. o \in Text /\ g \in Text
  <2>1. p.obf \in Text
    BY DEF ProtectionOptions
  <2>2. "default" \in Text /\ "external" \in Text /\ "embedded" \in Text
    BY DEF Text
  <2> QED BY <2>1, <2>2 DEF Or
<1>3. NewProtectionInputs(p) = [p EXCEPT !.obf = o, !.engine = g, !.emb = e]
  BY DEF NewProtectionInputs
<1> HIDE DEF e, o, g
<1>4. LET q == [p EXCEPT !.obf = o, !.engine = g, !.emb = e]
      IN  q \in ProtectionOptions /\ q.emb = e
  BY <1>1, <1>2 DEF ProtectionOptions
<1> QED BY <1>1, <1>3, <1>4

LEMMA FormResultIsOne ==
  ASSUME NEW p \in ProtectionOptions, p.emb \in DpiLocalEmbedded
  PROVE  ProtectionOptsFromInputs(p) \in ProtectionOptions
<1> DEFINE o == IF p.obf = "enhanced" THEN "enhanced" ELSE "default"
           j == Clamp(p.junk, 0, 12)
           s == Clamp(p.emb.split, 1, 65536)
           t == Clamp(p.emb.split2, 0, 65536)
           e == [split |-> s, split2 |-> t]
<1>0. p.junk \in Int /\ p.emb.split \in Int /\ p.emb.split2 \in Int
  BY DEF ProtectionOptions, DpiLocalEmbedded
<1>1. j \in Int /\ s \in Int /\ t \in Int
  BY <1>0 DEF Clamp
<1>2. ProtectionOptsFromInputs(p) =
        [ZeroProt EXCEPT !.obf = o, !.junk = j, !.rot = p.rot, !.preset = p.preset,
                         !.engine = p.engine, !.alone = p.alone, !.emb = e]
  BY DEF ProtectionOptsFromInputs
<1>3. o \in Text
  BY DEF Text
<1> HIDE DEF o, j, s, t
<1>4. e \in DpiLocalEmbedded
  BY <1>1 DEF DpiLocalEmbedded
<1> HIDE DEF e
<1> QED BY <1>1, <1>2, <1>3, <1>4, ZeroProtIsOne DEF ProtectionOptions

\* What each handler leaves.
LEMMA GlobalStep == ASSUME NEW p \in Prots, SaveGlobal(p) PROVE GlobOK'
BY SanitizedIsOne DEF SaveGlobal, GlobOK, Prots

LEMMA SetStep == ASSUME SectionsOK, NEW p \in Prots, SetProtection(p) PROVE DiskOK(disk') /\ GlobOK'
<1>p. DiskOK(disk) /\ GlobOK
  BY DEF SectionsOK
<1>1. CASE SaveGlobal(p)
  <2>1. disk' = disk
    BY <1>1 DEF SaveGlobal
  <2> QED BY <2>1, <1>1, <1>p, GlobalStep
<1>2. CASE WriteProtection(ui.target, p)
  <2>1. glob' = glob
    BY <1>2 DEF WriteProtection
  <2> QED BY <2>1, <1>2, <1>p, WriteKeepsProts DEF GlobOK
<1>3. CASE KeepFiles
  BY <1>3, <1>p DEF KeepFiles, GlobOK
<1> QED BY <1>1, <1>2, <1>3 DEF SetProtection

\* The cluster keys, the presets and the protection form write sections.
LEMMA ClusterWrites == ASSUME SectionsOK, KeyCluster PROVE \E n : \E q \in Prots : WriteProtection(n, q)
<1> DEFINE n == EffectiveTarget
           p == Options(LoadByName(disk, n))
<1>1. n \in DOMAIN disk
  BY DEF KeyCluster, Readable
<1>2. p \in ProtectionOptions
  BY <1>1, LoadedIsOne, OptionsIsOne DEF SectionsOK, WellFormed, Prots
<1>3. /\ \A r \in {"direct", "server_relay"} : [p EXCEPT !.route = r] \in ProtectionOptions
      /\ [p EXCEPT !.pref = "node", !.route = "server_relay"] \in ProtectionOptions
  <2> HIDE DEF p
  <2> QED BY <1>2 DEF ProtectionOptions, Text
<1>4. \E q \in ProtectionOptions \cup {[p EXCEPT !.route = r] : r \in {"direct", "server_relay"}}
                  \cup {[p EXCEPT !.pref = "node", !.route = "server_relay"]} :
        WriteProtection(n, ApplyClusterProtectionDefaults(q))
  BY <1>2 DEF KeyCluster
<1> HIDE DEF p, n
<1>5. \E q \in ProtectionOptions : WriteProtection(n, ApplyClusterProtectionDefaults(q))
  BY <1>3, <1>4
<1> QED BY <1>5, ClusterIsOne DEF Prots

\* A section with some options set is one.
LEMMA SetOptionsIsOne ==
  ASSUME NEW p \in ProtectionOptions, NEW o \in Text, NEW j \in Int
  PROVE  /\ [p EXCEPT !.obf = o, !.junk = j] \in ProtectionOptions
         /\ \A b \in BOOLEAN : [p EXCEPT !.obf = o, !.junk = j, !.rot = b] \in ProtectionOptions
         /\ \A t \in Text : [p EXCEPT !.junk = j, !.obf = o, !.preset = t] \in ProtectionOptions
BY DEF ProtectionOptions

LEMMA PresetSets == ASSUME KeyPreset PROVE \E p \in Prots : SetProtection(p)
<1>1. ProtectionPresetBalanced \in Prots /\ ProtectionPresetStrict \in Prots
  <2>1. /\ "default" \in Text /\ "enhanced" \in Text
        /\ 4 \in Int /\ 8 \in Int /\ TRUE \in BOOLEAN
    BY DEF Text
  <2>2. ProtectionPresetBalanced \in ProtectionOptions
    BY Zenon, <2>1, SetOptionsIsOne, ZeroProtIsOne DEF ProtectionPresetBalanced
  <2>3. ProtectionPresetStrict \in ProtectionOptions
    BY Zenon, <2>1, SetOptionsIsOne, ZeroProtIsOne DEF ProtectionPresetStrict
  <2> QED BY <2>2, <2>3 DEF Prots
<1> QED BY <1>1 DEF KeyPreset

LEMMA ProtectionFormSets == ASSUME SectionsOK, EnterProtection PROVE \E p \in Prots : SetProtection(p)
<1> DEFINE i == ui.inputs.prot
           j == [i EXCEPT !.junk = 40, !.obf = "strong", !.preset = "long"]
<1>1. i \in ProtectionOptions /\ i.emb \in DpiLocalEmbedded
  BY DEF SectionsOK, EnterProtection, FormOK
<1>2. PICK p \in {i, j} : SetProtection(ProtectionOptsFromInputs(p))
  BY DEF EnterProtection
<1> HIDE DEF i
<1>3. j \in ProtectionOptions /\ j.emb \in DpiLocalEmbedded
  <2>1. "strong" \in Text /\ "long" \in Text /\ 40 \in Int
    BY DEF Text
  <2>2. "emb" \in DOMAIN i
    BY <1>1 DEF ProtectionOptions
  <2>3. j.emb = i.emb
    BY <2>2
  <2>4. j \in ProtectionOptions
    BY Zenon, <1>1, <2>1, SetOptionsIsOne
  <2> QED BY <1>1, <2>3, <2>4
<1> HIDE DEF j
<1>4. ProtectionOptsFromInputs(p) \in Prots
  BY <1>1, <1>2, <1>3, FormResultIsOne DEF Prots
<1> QED BY <1>2, <1>4

LEMMA ProtectionStep ==
  ASSUME SectionsOK, KeyCluster \/ KeyPreset \/ EnterProtection
  PROVE  DiskOK(disk') /\ GlobOK'
<1>1. CASE KeyCluster
  <2>1. PICK n : \E q \in Prots : WriteProtection(n, q)
    BY <1>1, ClusterWrites
  <2>2. PICK q \in Prots : WriteProtection(n, q)
    BY <2>1
  <2>3. glob' = glob
    BY <2>2 DEF WriteProtection
  <2> QED BY <2>2, <2>3, WriteKeepsProts DEF SectionsOK, GlobOK
<1>2. CASE KeyPreset \/ EnterProtection
  BY <1>2, PresetSets, ProtectionFormSets, SetStep
<1> QED BY <1>1, <1>2

LEMMA TicketStep == ASSUME SectionsOK, UpsertPeerTicket PROVE DiskOK(disk') /\ GlobOK'
<1> DEFINE doc == [ok |-> TRUE, cfg |-> ZeroCfg, tickets |-> 1]
<1>1. WellFormed(doc.cfg)
  BY ZeroCfgIsOne
<1>2. PICK w \in Outcomes(disk, TicketStore, doc) : disk' = w.disk
  BY DEF UpsertPeerTicket
<1>3. glob' = glob
  BY DEF UpsertPeerTicket
<1> HIDE DEF doc
<1> QED BY <1>1, <1>2, <1>3, SavesKeepProt DEF SectionsOK, GlobOK

\* The mesh form gives back relay options, and so does the merge with the old.
LEMMA MergedIsOne ==
  ASSUME NEW o \in Relays, NEW r \in RelayOptions
  PROVE  LET nu == RelayMergeKeepAdvanced(o, MeshRelayFromInputs(r))
         IN  nu \in RelayOptions /\ (o # Nil => nu.key = o.key /\ nu.geo = o.geo)
<1> DEFINE u == MeshRelayFromInputs(r)
           a == Or(u.key, o.key)
           b == Or(u.geo, o.geo)
           c == IF u.kbps = 0 THEN o.kbps ELSE u.kbps
           d == IF u.peerKbps = 0 THEN o.peerKbps ELSE u.peerKbps
           q == [u EXCEPT !.key = a, !.geo = b, !.kbps = c, !.peerKbps = d]
<1>1. u \in RelayOptions /\ u.key = "" /\ u.geo = ""
  <2>1. "" \in Text
    BY Texts
  <2> QED BY <2>1 DEF MeshRelayFromInputs, RelayOptions
<1> HIDE DEF u
<1>2. CASE o = Nil
  BY <1>1, <1>2 DEF RelayMergeKeepAdvanced, u
<1>3. CASE o # Nil
  <2>1. o \in RelayOptions
    BY <1>3 DEF Relays
  <2>2. a \in Text /\ b \in Text /\ c \in Int /\ d \in Int /\ a = o.key /\ b = o.geo
    BY <1>1, <2>1 DEF Or, RelayOptions
  <2>3. RelayMergeKeepAdvanced(o, u) = q
    BY <1>3 DEF RelayMergeKeepAdvanced
  <2> HIDE DEF a, b, c, d
  <2>4. q \in RelayOptions /\ q.key = a /\ q.geo = b
    BY <1>1, <2>2 DEF RelayOptions
  <2> HIDE DEF q
  <2> QED BY <2>2, <2>3, <2>4 DEF u
<1> QED BY <1>2, <1>3

\* Relay options keep what the mesh form does not show.
KeepsHidden(o, nu, meshOn) ==
  o # Nil => /\ nu # Nil /\ nu.key = o.key
             /\ meshOn \/ nu.geo = o.geo

LEMMA SavedMeshIsOne ==
  ASSUME NEW c, WellFormed(c), NEW r \in RelayOptions
  PROVE  LET nu == RelayMergeKeepAdvanced(EffectiveRelayOptions(c), MeshRelayFromInputs(r))
             sv == IF On(c.mesh) THEN [c EXCEPT !.mesh = RelayOptionsToMesh(nu, c.mesh), !.relay = Nil]
                   ELSE [c EXCEPT !.relay = nu]
         IN  /\ WellFormed(sv) /\ sv.prot = c.prot /\ sv.managed = c.managed
             /\ KeepsHidden(EffectiveRelayOptions(c), EffectiveRelayOptions(sv), On(c.mesh))
<1> DEFINE o == EffectiveRelayOptions(c)
           nu == RelayMergeKeepAdvanced(o, MeshRelayFromInputs(r))
           m == RelayOptionsToMesh(nu, c.mesh)
           x == [c EXCEPT !.mesh = m, !.relay = Nil]
           y == [c EXCEPT !.relay = nu]
<1>1. nu \in RelayOptions /\ (o # Nil => nu.key = o.key /\ nu.geo = o.geo)
  BY EffectiveIsOne, MergedIsOne
<1> HIDE DEF o
<1>2. m \in MeshConfig /\ m.on /\ m.key = nu.key
  BY <1>1, ToMeshIsOne DEF WellFormed, Meshes, Holds
<1> HIDE DEF nu, m
<1>3. /\ WellFormed(x) /\ x.prot = c.prot /\ x.managed = c.managed /\ x.mesh = m /\ x.relay = Nil
      /\ WellFormed(y) /\ y.prot = c.prot /\ y.managed = c.managed /\ y.mesh = c.mesh /\ y.relay = nu
  BY <1>1, <1>2 DEF WellFormed
<1> HIDE DEF x, y
<1>4. CASE On(c.mesh)
  <2>1. EffectiveRelayOptions(x) = MeshToRelayOptions(m)
    BY <1>2, <1>3, NilIsNone DEF EffectiveRelayOptions, On, RelayOptionsWithMeshOverlay
  <2>2. MeshToRelayOptions(m) \in RelayOptions /\ MeshToRelayOptions(m).key = m.key
    BY <1>2, ToRelayIsOne DEF Shows
  <2>3. KeepsHidden(o, EffectiveRelayOptions(x), On(c.mesh))
    BY <1>1, <1>2, <1>4, <2>1, <2>2, NilIsNone DEF KeepsHidden
  <2> QED BY <1>3, <1>4, <2>3 DEF x, nu, m, o
<1>5. CASE ~On(c.mesh)
  <2>1. EffectiveRelayOptions(y) = nu
    BY <1>3, <1>5 DEF EffectiveRelayOptions
  <2>2. KeepsHidden(o, EffectiveRelayOptions(y), On(c.mesh))
    BY <1>1, <2>1, NilIsNone DEF KeepsHidden
  <2> QED BY <1>3, <1>5, <2>2 DEF y, nu, o
<1> QED BY <1>4, <1>5

\* The mesh form saves the target's profile, with other relay options.
LEMMA MeshSaves ==
  ASSUME SectionsOK, EnterMesh
  PROVE  \E n \in Readable(disk) : \E c : \E w \in Save(disk, n, c) :
           /\ disk' = w.disk /\ WellFormed(c)
           /\ c.prot = LoadByName(disk, n).prot /\ c.managed = LoadByName(disk, n).managed
           /\ KeepsHidden(EffectiveRelayOptions(LoadByName(disk, n)), EffectiveRelayOptions(c),
                          On(LoadByName(disk, n).mesh))
<1> DEFINE i == ui.inputs.relay
           j == [i EXCEPT !.turn = "turn", !.stake = 5]
<1>1. i \in RelayOptions
  BY DEF EnterMesh, SectionsOK, FormOK
<1>2. PICK r \in {i, j} : SaveMeshForm(r)
  BY DEF EnterMesh
<1> HIDE DEF i
<1>3. j \in RelayOptions
  <2> DEFINE t == "turn"
             k == 5
  <2>1. t \in Text
    BY Texts
  <2>2. j = [i EXCEPT !.turn = t, !.stake = k]
    OBVIOUS
  <2>3. k \in Int
    OBVIOUS
  <2> HIDE DEF t, k, j
  <2> QED BY <1>1, <2>1, <2>2, <2>3 DEF RelayOptions
<1> HIDE DEF j
<1>4. r \in RelayOptions
  BY <1>1, <1>2, <1>3
<1> DEFINE n == EffectiveTarget
           c == LoadByName(disk, n)
           nu == RelayMergeKeepAdvanced(EffectiveRelayOptions(c), MeshRelayFromInputs(r))
           sv == IF On(c.mesh) THEN [c EXCEPT !.mesh = RelayOptionsToMesh(nu, c.mesh), !.relay = Nil]
                 ELSE [c EXCEPT !.relay = nu]
<1>5. n \in Readable(disk)
  BY <1>2 DEF SaveMeshForm
<1>6. WellFormed(c)
  BY <1>5, LoadedIsOne DEF SectionsOK, Readable
<1>7. PICK w \in Save(disk, n, sv) : disk' = w.disk
  BY <1>2 DEF SaveMeshForm
<1> HIDE DEF c, n
<1>8. /\ WellFormed(sv) /\ sv.prot = c.prot /\ sv.managed = c.managed
      /\ KeepsHidden(EffectiveRelayOptions(c), EffectiveRelayOptions(sv), On(c.mesh))
  BY <1>4, <1>6, SavedMeshIsOne
<1> HIDE DEF sv
<1> QED BY <1>5, <1>7, <1>8 DEF c

LEMMA MeshStep == ASSUME SectionsOK, EnterMesh PROVE DiskOK(disk') /\ GlobOK'
<1>1. glob' = glob
  BY DEF EnterMesh
<1> QED BY <1>1, MeshSaves, SavesProfile DEF SectionsOK, GlobOK, Readable

\* The connection forms save a profile of the name in the form; the edited one,
\* when it stays under its name, with the sections it had.
LEMMA ConnSaves ==
  ASSUME SectionsOK, EnterConnForm
  PROVE  \E n, d, c : \E w \in Save(d, n, c) :
           /\ disk' = w.disk /\ WellFormed(c) /\ DiskOK(d)
           /\ ui.form = "edit" =>
                \/ /\ n = ui.editing /\ d = disk
                   /\ n \in Readable(disk) =>
                        LET was == LoadByName(disk, n)
                        IN  c.prot = was.prot /\ c.mesh = was.mesh /\ c.relay = was.relay
                \/ n # ui.editing /\ d = Without(disk, ui.editing)
<1>p. DiskOK(disk)
  BY DEF SectionsOK
<1>0. PICK n \in Files, uri \in {ui.inputs.conn, "key"}, tr \in {ui.inputs.tr, "tcp", "http"} :
        \E w \in Save(IF ui.form = "edit" /\ n # ui.editing THEN Without(disk, ui.editing) ELSE disk, n,
                      IF ui.form = "edit"
                        THEN MergeCfgPreserveRelayProtection(disk, ui.editing, ConfigFromConnFormInputs(uri, tr))
                        ELSE ConfigFromConnFormInputs(uri, tr)) :
          disk' = w.disk
  BY DEF EnterConnForm, Files
<1> DEFINE typed == ConfigFromConnFormInputs(uri, tr)
           cfg == IF ui.form = "edit" THEN MergeCfgPreserveRelayProtection(disk, ui.editing, typed) ELSE typed
           rest == IF ui.form = "edit" /\ n # ui.editing THEN Without(disk, ui.editing) ELSE disk
<1>1. PICK w \in Save(rest, n, cfg) : disk' = w.disk
  BY <1>0
<1> DEFINE was == LoadByName(disk, ui.editing)
<1>2. WellFormed(typed)
  BY ZeroCfgIsOne DEF ConfigFromConnFormInputs, WellFormed
<1>3. ui.editing \in Readable(disk) => WellFormed(was)
  BY <1>p, LoadedIsOne DEF Readable
<1>4. \/ cfg = typed
      \/ ui.editing \in Readable(disk) /\ cfg = [typed EXCEPT !.relay = was.relay, !.mesh = was.mesh, !.prot = was.prot]
  BY DEF MergeCfgPreserveRelayProtection
<1>5. DiskOK(rest)
  BY <1>p DEF DiskOK, Without
<1>6. ui.form = "edit" =>
        \/ n = ui.editing /\ rest = disk
        \/ n # ui.editing /\ rest = Without(disk, ui.editing)
  OBVIOUS
<1>7. ui.form = "edit" /\ ui.editing \in Readable(disk) =>
        cfg = [typed EXCEPT !.relay = was.relay, !.mesh = was.mesh, !.prot = was.prot]
  BY DEF MergeCfgPreserveRelayProtection
<1> HIDE DEF typed, was, cfg, rest
<1>8. WellFormed(cfg)
  BY <1>2, <1>3, <1>4 DEF WellFormed
<1>9. ui.form = "edit" /\ ui.editing \in Readable(disk) =>
        cfg.prot = was.prot /\ cfg.mesh = was.mesh /\ cfg.relay = was.relay
  BY <1>2, <1>7 DEF WellFormed
<1> QED BY <1>1, <1>5, <1>6, <1>8, <1>9 DEF was

LEMMA ConnStep == ASSUME SectionsOK, EnterConnForm PROVE DiskOK(disk') /\ GlobOK'
<1>1. glob' = glob
  BY DEF EnterConnForm
<1> QED BY <1>1, ConnSaves, SavesProfile DEF SectionsOK, GlobOK

LEMMA DeleteStep == ASSUME SectionsOK, KeyY PROVE DiskOK(disk') /\ GlobOK'
BY DEF SectionsOK, KeyY, DiskOK, GlobOK, Without

LEMMA SectionsStep ==
  ASSUME SectionsOK, FormsNext
  PROVE  DiskOK(disk') /\ GlobOK' /\ env' = env
<1>p. DiskOK(disk) /\ GlobOK
  BY DEF SectionsOK
<1>1. CASE KeyEsc \/ KeyN \/ KeyD \/ KeyTab \/ KeyE \/ KeyTarget(PrevTarget) \/ KeyTarget(NextTarget) \/ TryConnect
  <2>1. UNCHANGED <<disk, glob, env>>
    BY <1>1 DEF KeyEsc, KeyN, KeyD, KeyTab, KeyE, KeyTarget, TryConnect, KeepFiles, Alive
  <2> QED BY <2>1, <1>p DEF GlobOK
<1>2. CASE KeyY
  BY <1>2, DeleteStep DEF KeyY, Alive
<1>3. CASE KeyCluster \/ KeyPreset \/ EnterProtection
  BY <1>3, ProtectionStep DEF KeyCluster, KeyPreset, EnterProtection, Alive
<1>4. CASE KeyExportTicket \/ KeyImportTicket
  BY <1>4, TicketStep DEF KeyExportTicket, KeyImportTicket, Alive
<1>5. CASE EnterMesh
  BY <1>5, MeshStep DEF EnterMesh, Alive
<1>6. CASE EnterConnForm
  BY <1>6, ConnStep DEF EnterConnForm, Alive
<1> QED BY <1>1, <1>2, <1>3, <1>4, <1>5, <1>6 DEF FormsNext

LEMMA ShownIsOne == ASSUME SectionsOK PROVE ProtectionInputs \in ProtectionOptions /\ ProtectionInputs.emb \in DpiLocalEmbedded
<1>1. Options([prot |-> glob]) \in ProtectionOptions
  BY OptionsIsOne DEF SectionsOK, WellFormed, GlobOK, Prots
<1>2. ui.target \in Readable(disk) => Options(LoadByName(disk, ui.target)) \in ProtectionOptions
  BY OptionsIsOne, LoadedIsOne DEF SectionsOK, Readable, WellFormed, Prots
<1>3. PICK p \in ProtectionOptions : ProtectionInputs = NewProtectionInputs(p)
  BY <1>1, <1>2, ZeroProtIsOne DEF ProtectionInputs
<1> QED BY <1>3, FormInputsIsOne

LEMMA ShownMeshIsOne == ASSUME SectionsOK PROVE MeshInputs \in RelayOptions
<1>1. ASSUME NEW c, WellFormed(c) PROVE DefaultMeshRelayInputs(c) \in RelayOptions
  <2> DEFINE m == IF c.mesh = Nil THEN ZeroMesh ELSE c.mesh
             all == [m EXCEPT !.on = TRUE, !.p2p = TRUE, !.vol = TRUE, !.stunOn = TRUE, !.sr = TRUE]
  <2>1. m \in MeshConfig
    BY <1>1, ZeroMeshIsOne DEF WellFormed
  <2> HIDE DEF m
  <2>2. all \in MeshConfig
    BY <2>1 DEF MeshConfig
  <2>3. DefaultMeshRelayInputs(c) = ApplyRelayDefaults(MeshToRelayOptions(ApplyMeshDefaults(all)))
    BY DEF DefaultMeshRelayInputs, m
  <2> HIDE DEF all
  <2> QED BY <2>2, <2>3, MeshDefaultsIsOne, ToRelayIsOne, RelayDefaultsIsOne
<1>2. EffectiveTarget \in Readable(disk) => WellFormed(LoadByName(disk, EffectiveTarget))
  BY LoadedIsOne DEF SectionsOK, Readable
<1> QED BY <1>1, <1>2, ZeroCfgIsOne DEF MeshInputs

\* Inputs of the mesh and protection forms are sections from the moment it is opened.
LEMMA FormStep == ASSUME SectionsOK, FormTypes, FormsNext PROVE FormOK'
<1>p. FormOK /\ {"inputs", "form", "tab"} \subseteq DOMAIN ui
  BY DEF SectionsOK, FormTypes, Fields
<1>1. CASE {"inputs", "form", "tab"} \subseteq DOMAIN ui' /\ ui'.form = ui.form /\ ui'.inputs = ui.inputs
           /\ (ui'.tab = ui.tab \/ ui'.form = "none")
  BY <1>1, <1>p DEF FormOK
<1>2. CASE {"inputs", "form", "tab"} \subseteq DOMAIN ui' /\ ui'.form \notin {"mesh", "protection"}
           /\ {"prot", "relay"} \subseteq DOMAIN ui'.inputs
  BY <1>2 DEF FormOK
<1>3. ui' = Close => FormOK'
  <2> SUFFICES ASSUME ui' = Close PROVE FormOK'
    OBVIOUS
  <2>1. {"inputs", "form", "tab"} \subseteq DOMAIN ui' /\ ui'.form = "none" /\ ui'.inputs = NoInputs
    BY <1>p DEF Close
  <2> QED BY <2>1, <1>2 DEF NoInputs
<1>4. ui' = ui => FormOK'
  BY <1>1, <1>p
<1>5. CASE KeyEsc \/ KeyD \/ KeyY \/ KeyTab
  <2>1. \/ ui' = Close
        \/ /\ {"inputs", "form", "tab"} \subseteq DOMAIN ui' /\ ui'.form = ui.form /\ ui'.inputs = ui.inputs
           /\ ui'.tab = ui.tab \/ ui'.form = "none"
    BY <1>5, <1>p DEF KeyEsc, KeyD, KeyY, KeyTab
  <2> QED BY <2>1, <1>1, <1>3
<1>6. CASE KeyN
  <2>1. \/ {"inputs", "form", "tab"} \subseteq DOMAIN ui' /\ ui'.form = "add" /\ ui'.inputs = NoInputs
        \/ /\ {"inputs", "form", "tab"} \subseteq DOMAIN ui' /\ ui'.form = ui.form /\ ui'.inputs = ui.inputs
           /\ ui'.tab = ui.tab \/ ui'.form = "none"
    BY <1>6, <1>p DEF KeyN
  <2> QED BY <2>1, <1>1, <1>2 DEF NoInputs
<1>7. CASE KeyTarget(PrevTarget) \/ KeyTarget(NextTarget)
  <2>1. {"inputs", "form", "tab"} \subseteq DOMAIN ui' /\ ui'.form = ui.form /\ ui'.inputs = ui.inputs /\ ui'.tab = ui.tab
    BY <1>7, <1>p DEF KeyTarget
  <2> QED BY <2>1, <1>1
<1>8. CASE KeyCluster \/ KeyPreset \/ KeyExportTicket \/ KeyImportTicket \/ TryConnect
  BY <1>4, <1>8 DEF KeyCluster, KeyPreset, KeyExportTicket, KeyImportTicket, TryConnect
<1>9. CASE EnterMesh \/ EnterProtection \/ EnterConnForm
  <2>1. ui' = ui \/ ui' = Close
    BY <1>9, MeshFormStep, ConnFormStep DEF EnterProtection
  <2> QED BY <2>1, <1>3, <1>4
<1>10. CASE KeyE
  <2>1. CASE ui.tab = "protection" /\ ui' = [ui EXCEPT !.form = "protection", !.inputs.prot = ProtectionInputs]
    <3>1. /\ {"inputs", "form", "tab"} \subseteq DOMAIN ui' /\ ui'.inputs = [ui.inputs EXCEPT !.prot = ProtectionInputs]
          /\ ui'.tab = "protection" /\ ui'.form = "protection"
      BY <2>1, <1>p
    <3>2. DOMAIN ui'.inputs = DOMAIN ui.inputs /\ ui'.inputs.prot = ProtectionInputs
      BY <3>1, <1>p DEF FormOK
    <3> QED BY <3>1, <3>2, <1>p, ShownIsOne DEF FormOK
  <2>2. CASE ui.tab = "mesh" /\ ui' = [ui EXCEPT !.form = "mesh", !.inputs.relay = MeshInputs]
    <3>1. /\ {"inputs", "form", "tab"} \subseteq DOMAIN ui' /\ ui'.inputs = [ui.inputs EXCEPT !.relay = MeshInputs]
          /\ ui'.tab = "mesh" /\ ui'.form = "mesh"
      BY <2>2, <1>p
    <3>2. DOMAIN ui'.inputs = DOMAIN ui.inputs /\ ui'.inputs.relay = MeshInputs
      BY <3>1, <1>p DEF FormOK
    <3> QED BY <3>1, <3>2, <1>p, ShownMeshIsOne DEF FormOK
  <2>3. CASE \E n, c, t : ui' = [ui EXCEPT !.form = "edit", !.editing = n, !.inputs.conn = c, !.inputs.tr = t]
    <3>1. {"inputs", "form", "tab"} \subseteq DOMAIN ui' /\ ui'.form = "edit" /\ DOMAIN ui'.inputs = DOMAIN ui.inputs
      BY <2>3, <1>p
    <3> QED BY <3>1, <1>p DEF FormOK
  <2>4. \/ ui.tab = "mesh" /\ ui' = [ui EXCEPT !.form = "mesh", !.inputs.relay = MeshInputs]
        \/ ui.tab = "protection" /\ ui' = [ui EXCEPT !.form = "protection", !.inputs.prot = ProtectionInputs]
        \/ \E n \in DOMAIN cached :
             ui' = [ui EXCEPT !.form = "edit", !.editing = n,
                              !.inputs.conn = BuildConnectionURI(cached[n]), !.inputs.tr = cached[n].transport]
    BY <1>10 DEF KeyE
  <2> QED BY Zenon, <2>1, <2>2, <2>3, <2>4
<1> QED BY <1>5, <1>6, <1>7, <1>8, <1>9, <1>10 DEF FormsNext

\* Completing the embedded engine twice is completing it once.
LEMMA TopUpOnce ==
  ASSUME NEW p \in ProtectionOptions, NEW v
  PROVE  /\ TopUpEmbedded(p, v) \in ProtectionOptions
         /\ TopUpEmbedded(TopUpEmbedded(p, v), v) = TopUpEmbedded(p, v)
<1>1. CASE ~TopsUpEmbedded(p, v) \/ p.emb = Nil
  BY <1>1 DEF TopUpEmbedded
<1>2. CASE TopsUpEmbedded(p, v) /\ p.emb # Nil
  <2> DEFINE k == Pos(p.emb.split, 4)
             e == [p.emb EXCEPT !.split = k]
             q == [p EXCEPT !.emb = e]
  <2>1. p.emb \in DpiLocalEmbedded /\ p.emb.split \in Int
    BY <1>2 DEF ProtectionOptions, DpiLocalEmbedded
  <2>2. k \in Int /\ k > 0
    BY <2>1 DEF Pos
  <2>3. TopUpEmbedded(p, v) = q
    BY <1>2 DEF TopUpEmbedded
  <2> HIDE DEF k
  <2>4. e \in DpiLocalEmbedded /\ e.split = k
    BY <2>1, <2>2 DEF DpiLocalEmbedded
  <2> HIDE DEF e
  <2>5. q \in ProtectionOptions /\ q.emb = e
    BY <2>4 DEF ProtectionOptions
  <2>6. TopUpEmbedded(q, v) = q
    <3>1. Pos(q.emb.split, 4) = k
      BY <2>2, <2>4, <2>5 DEF Pos
    <3>2. [q.emb EXCEPT !.split = k] = q.emb
      BY <2>4, <2>5 DEF DpiLocalEmbedded
    <3>3. [q EXCEPT !.emb = q.emb] = q
      <4> HIDE DEF q
      <4> QED BY <2>5 DEF ProtectionOptions
    <3> HIDE DEF q
    <3> QED BY <3>1, <3>2, <3>3 DEF TopUpEmbedded
  <2> QED BY <2>3, <2>5, <2>6
<1> QED BY <1>1, <1>2

LEMMA ListStep == ASSUME SectionsOK, FormTypes, FormsNext PROVE ListOK'
<1>p. ListOK /\ DiskOK(disk')
  BY SectionsStep DEF SectionsOK
<1>1. CASE UNCHANGED cached
  BY <1>1, <1>p DEF ListOK
<1>2. CASE Rereads
  <2>1. cached' = List(disk')
    BY <1>2 DEF Rereads, ReloadCfgs
  <2>2. \A n \in DOMAIN cached' : n \in DOMAIN disk' /\ cached'[n] = LoadByName(disk', n)
    BY <2>1 DEF List, Readable
  <2> QED BY <2>2, <1>p, LoadedIsOne DEF ListOK
<1>3. CASE TryConnect
  <2>1. PICK c \in DOMAIN cached :
          cached[c].prot # Nil /\ cached' = [cached EXCEPT ![c].prot = TopUpEmbedded(cached[c].prot, env)]
    BY <1>3 DEF TryConnect
  <2>2. WellFormed(cached[c]) /\ TopUpEmbedded(cached[c].prot, env) \in Prots
    BY <2>1, <1>p, TopUpOnce DEF ListOK, WellFormed, Prots
  <2> DEFINE l == [cached[c] EXCEPT !.prot = TopUpEmbedded(cached[c].prot, env)]
  <2>3. WellFormed(l)
    <3> DEFINE o == cached[c]
               t == TopUpEmbedded(cached[c].prot, env)
    <3> HIDE DEF o, t
    <3>1. WellFormed(o) /\ t \in Prots
      BY <2>2 DEF o, t
    <3>2. WellFormed([o EXCEPT !.prot = t])
      BY <3>1 DEF WellFormed, Prots
    <3> QED BY <3>2 DEF o, t
  <2>4. cached' = [cached EXCEPT ![c] = l]
    BY <2>1
  <2> HIDE DEF l
  <2> QED BY <2>3, <2>4, <1>p DEF ListOK
<1>4. CASE KeyTarget(PrevTarget) \/ KeyTarget(NextTarget)
  BY <1>1, <1>4 DEF KeyTarget
<1> QED BY <1>1, <1>2, <1>3, <1>4, FilesStep DEF FormsNext, Rests, Touches

\* The list keeps what was read, also after earlier connects.
LEMMA UsesStep == ASSUME SectionsOK, FormTypes, UsesRead, FormsNext PROVE UsesRead'
<1>e. env' = env /\ DiskOK(disk')
  BY SectionsStep
<1>1. CASE Rereads
  <2>1. cached' = List(disk') /\ read' = List(disk')
    BY <1>1 DEF Rereads, ReloadCfgs
  <2>2. \A n \in DOMAIN cached' : /\ n \in Readable(disk') /\ read'[n] = LoadByName(disk', n)
                                 /\ cached'[n] = read'[n] /\ read'[n].prot \in Prots
    BY <2>1, <1>e, LoadedIsOne DEF List, Readable, WellFormed, Prots
  <2> QED BY <2>1, <2>2 DEF UsesRead
<1>2. CASE /\ UNCHANGED <<cached, read>>
           /\ \A n \in DOMAIN cached \ unreloaded' : n \notin unreloaded /\ Same(disk, disk', n)
  <2>1. ASSUME NEW n \in DOMAIN cached \ unreloaded'
        PROVE  n \in Readable(disk') /\ read[n].prot = LoadByName(disk', n).prot
    <3>1. n \in Readable(disk) /\ read[n].prot = LoadByName(disk, n).prot
      BY <1>2 DEF UsesRead
    <3> QED BY <3>1, <1>2 DEF Readable, Same, LoadByName
  <2> QED BY <2>1, <1>2, <1>e DEF UsesRead
<1>3. CASE Rests
  BY <1>2, <1>3 DEF Rests, Same
<1>4. CASE Touches
  BY <1>2, <1>4 DEF Touches, FormTypes
<1>5. CASE KeyTarget(PrevTarget) \/ KeyTarget(NextTarget)
  BY <1>2, <1>5 DEF KeyTarget, Same
<1>6. CASE TryConnect
  <2>1. PICK c \in DOMAIN cached :
          cached[c].prot # Nil /\ cached' = [cached EXCEPT ![c].prot = TopUpEmbedded(cached[c].prot, env)]
    BY <1>6 DEF TryConnect
  <2>2. disk' = disk /\ unreloaded' = unreloaded /\ read' = read /\ DOMAIN cached' = DOMAIN cached
    BY <1>6, <2>1 DEF TryConnect
  <2>3. ASSUME NEW n \in DOMAIN cached
        PROVE  LET p == read[n].prot
               IN  p \in Prots /\ (cached'[n].prot = p \/ (p # Nil /\ cached'[n].prot = TopUpEmbedded(p, env)))
    <3> DEFINE p == read[n].prot
    <3>1. p \in Prots /\ (cached[n].prot = p \/ (p # Nil /\ cached[n].prot = TopUpEmbedded(p, env)))
      BY DEF UsesRead
    <3>2. CASE n # c
      BY <2>1, <3>1, <3>2
    <3>3. CASE n = c
      <4>1. WellFormed(cached[n]) /\ cached[n].prot # Nil
        BY <2>1, <3>3 DEF SectionsOK, ListOK
      <4>2. cached'[n].prot = TopUpEmbedded(cached[n].prot, env)
        BY <2>1, <3>3, <4>1 DEF WellFormed
      <4> HIDE DEF p
      <4>3. p \in ProtectionOptions /\ p # Nil
        BY <3>1, <4>1, NilIsNone DEF Prots
      <4>4. cached'[n].prot = TopUpEmbedded(p, env)
        BY <3>1, <4>2, <4>3, TopUpOnce
      <4> QED BY <3>1, <4>3, <4>4 DEF p
    <3> QED BY <3>2, <3>3
  <2> QED BY <2>2, <2>3, <1>e DEF UsesRead
<1> QED BY <1>1, <1>3, <1>4, <1>5, <1>6, FilesStep DEF FormsNext

LEMMA SectionsStart == FormsInit => SectionsOK /\ UsesRead
<1> SUFFICES ASSUME FormsInit PROVE SectionsOK /\ UsesRead
  OBVIOUS
<1>1. DiskOK(disk)
  BY FormsAssumption DEF FormsInit, DiskOK, WellFormed, Prots
<1>2. cached = List(disk) /\ read = List(disk) /\ glob = Nil
  BY DEF FormsInit
<1>3. \A n \in DOMAIN cached : /\ n \in Readable(disk) /\ cached[n] = LoadByName(disk, n)
                              /\ WellFormed(cached[n])
  BY <1>1, <1>2, LoadedIsOne DEF List, Readable
<1>4. ListOK /\ UsesRead
  BY <1>2, <1>3 DEF ListOK, UsesRead, WellFormed, Prots
<1>5. ui.form = "none" /\ ui.inputs = NoInputs
  BY DEF FormsInit
<1>6. FormOK
  BY <1>5 DEF FormOK, NoInputs
<1> QED BY <1>1, <1>2, <1>4, <1>6 DEF SectionsOK, GlobOK, Prots

\* The inductive invariant of the protection a connect uses: every protection
\* section in the files, in the global file, in the list and in an open form is
\* a section, and the listed profiles hold the one they were read with, at most
\* with the embedded engine completed once.
THEOREM SectionsInvariant == FormsSpec => [](SectionsOK /\ UsesRead)
<1>1. ASSUME SectionsOK, UsesRead, FormTypes, [FormsNext]_formVars PROVE (SectionsOK /\ UsesRead)'
  <2>1. CASE UNCHANGED formVars
    BY <1>1, <2>1 DEF formVars, SectionsOK, GlobOK, ListOK, FormOK, UsesRead
  <2>2. CASE FormsNext
    <3>1. DiskOK(disk') /\ GlobOK' /\ ListOK' /\ FormOK'
      BY <1>1, <2>2, SectionsStep, ListStep, FormStep
    <3>2. SectionsOK'
      BY <3>1 DEF SectionsOK
    <3> QED BY <3>2, <1>1, <2>2, UsesStep
  <2> QED BY <1>1, <2>1, <2>2
<1>2. FormsInv => FormTypes
  BY DEF FormsInv
<1> QED BY <1>1, <1>2, SectionsStart, FormsInvariant, PTL DEF FormsSpec

\* A set number is kept.
LEMMA PosKeeps == \A m \in Int : m > 0 => Pos(m, 4) = m /\ Pos(m, 6) = m
BY DEF Pos

\* The defaults fill only what is absent, and a completed section is saved as
\* the section it was completed from would be.
LEMMA TopUpWins ==
  ASSUME NEW s \in ProtectionOptions, NEW tr, NEW v \in {"", "off"},
         NEW p, p = s \/ p = TopUpEmbedded(s, v)
  PROVE  Wins(s, MergeAntiDpiTransportTopUp(p, tr, v))
<1> DEFINE q == [TopUpEmbedded(p, v) EXCEPT !.obf = Or(p.obf, "enhanced"), !.junk = Pos(p.junk, 6),
                                            !.rot = p.rot \/ tr = "tcp"]
           r == [q EXCEPT !.engine = Or(p.engine, "embedded"),
                          !.emb = IF p.emb = Nil THEN [split |-> 4, split2 |-> 0] ELSE q.emb]
           Keeps(x) == /\ x \in ProtectionOptions
                       /\ x.obf = s.obf /\ x.junk = s.junk
                       /\ x.route = s.route /\ x.pref = s.pref /\ x.preset = s.preset /\ x.alone = s.alone
                       /\ s.emb # Nil /\ s.emb.split > 0 => x.emb = s.emb
<1>1. ASSUME NEW x \in ProtectionOptions, Keeps(x) PROVE Keeps(TopUpEmbedded(x, v))
  <2>1. TopUpEmbedded(x, v) \in ProtectionOptions
    BY TopUpOnce
  <2>2. CASE TopUpEmbedded(x, v) = x
    BY <2>2, <1>1
  <2>3. CASE TopsUpEmbedded(x, v) /\ x.emb # Nil
    <3> DEFINE e == [x.emb EXCEPT !.split = Pos(x.emb.split, 4)]
               y == [x EXCEPT !.emb = e]
    <3>1. TopUpEmbedded(x, v) = y
      BY <2>3 DEF TopUpEmbedded
    <3>2. s.emb # Nil /\ s.emb.split > 0 => e = s.emb
      <4> SUFFICES ASSUME s.emb # Nil, s.emb.split > 0 PROVE e = s.emb
        OBVIOUS
      <4>1. x.emb = s.emb /\ s.emb \in DpiLocalEmbedded
        BY <1>1 DEF ProtectionOptions
      <4>2. x.emb.split \in Int /\ x.emb.split > 0
        BY <4>1 DEF DpiLocalEmbedded
      <4>3. Pos(x.emb.split, 4) = x.emb.split
        BY Zenon, <4>2, PosKeeps
      <4> QED BY <4>1, <4>3 DEF DpiLocalEmbedded
    <3> HIDE DEF e
    <3>3. /\ y.obf = x.obf /\ y.junk = x.junk /\ y.emb = e
          /\ y.route = x.route /\ y.pref = x.pref /\ y.preset = x.preset /\ y.alone = x.alone
      BY DEF ProtectionOptions
    <3> QED BY <1>1, <2>1, <3>1, <3>2, <3>3
  <2> QED BY <2>2, <2>3 DEF TopUpEmbedded
<1>2. Keeps(s)
  OBVIOUS
<1>3. Keeps(p) /\ Keeps(TopUpEmbedded(p, v))
  <2>1. Keeps(TopUpEmbedded(s, v))
    BY <1>1, <1>2
  <2>2. Keeps(p)
    BY <1>2, <2>1
  <2>3. p \in ProtectionOptions
    BY <2>2
  <2> QED BY <1>1, <2>2, <2>3
<1>4. Wins(s, p)
  BY <1>3 DEF Wins
<1>5. Wins(s, q)
  <2> DEFINE t == TopUpEmbedded(p, v)
             o == Or(p.obf, "enhanced")
             j == Pos(p.junk, 6)
             b == (p.rot \/ tr = "tcp")
  <2>1. /\ s.obf # "" => o = s.obf
        /\ s.junk > 0 => j = s.junk
    <3>1. p.obf = s.obf /\ p.junk = s.junk
      BY <1>3
    <3>2. s.junk \in Int
      BY DEF ProtectionOptions
    <3>3. s.junk > 0 => j = s.junk
      BY Zenon, <3>1, <3>2, PosKeeps
    <3>4. s.obf # "" => o = s.obf
      BY <3>1 DEF Or
    <3> QED BY <3>3, <3>4
  <2>2. Keeps(t)
    BY <1>3
  <2> HIDE DEF t, o, j, b
  <2>3. LET z == [t EXCEPT !.obf = o, !.junk = j, !.rot = b]
        IN  /\ z.obf = o /\ z.junk = j /\ z.emb = t.emb
            /\ z.route = t.route /\ z.pref = t.pref /\ z.preset = t.preset /\ z.alone = t.alone
    BY <2>2 DEF ProtectionOptions
  <2>4. q = [t EXCEPT !.obf = o, !.junk = j, !.rot = b]
    BY DEF t, o, j, b
  <2> HIDE DEF q
  <2> QED BY <2>1, <2>2, <2>3, <2>4 DEF Wins
<1>6. {"obf", "junk", "rot", "engine", "emb", "route", "pref", "preset", "alone"} \subseteq DOMAIN q
  BY <1>3 DEF ProtectionOptions
<1>7. Wins(s, r)
  <2> DEFINE g == Or(p.engine, "embedded")
             e == IF p.emb = Nil THEN [split |-> 4, split2 |-> 0] ELSE q.emb
  <2>1. s.emb # Nil /\ s.emb.split > 0 => e = q.emb
    BY <1>3, NilIsNone
  <2> HIDE DEF q, g, e
  <2>2. LET z == [q EXCEPT !.engine = g, !.emb = e]
        IN  /\ z.obf = q.obf /\ z.junk = q.junk /\ z.emb = e
            /\ z.route = q.route /\ z.pref = q.pref /\ z.preset = q.preset /\ z.alone = q.alone
    BY <1>6
  <2>3. r = [q EXCEPT !.engine = g, !.emb = e]
    BY DEF g, e
  <2> HIDE DEF r
  <2> QED BY <2>1, <2>2, <2>3, <1>5 DEF Wins
<1>8. MergeAntiDpiTransportTopUp(p, tr, v) \in {p, q, r}
  BY DEF MergeAntiDpiTransportTopUp
<1> HIDE DEF q, r
<1> QED BY <1>4, <1>5, <1>7, <1>8

\* For any profiles, any keys and forms and any failing writes, a connect uses
\* the protection it finds, from the list as last read or, for a reconnect, from
\* the file, whatever earlier connects completed in place; the two are one but
\* for profiles written without a reload (model.go: the connects of the list,
\* by name and of the watchdog; config.go: MergeAntiDpiTransportTopUp).
THEOREM ConnectUsesRead == FormsSpec => []ConnectsAsRead
<1>1. ASSUME SectionsOK, UsesRead PROVE ConnectsAsRead
  <2> DEFINE g == Options([prot |-> glob])
  <2>1. g \in ProtectionOptions
    BY <1>1, OptionsIsOne DEF SectionsOK, WellFormed, GlobOK, Prots
  <2>2. \A x : Saved(x) = IF x # Nil THEN x ELSE g
    BY DEF Saved
  <2>3. ASSUME env \in {"", "off"}, NEW s \in Prots, NEW cfg,
               cfg.prot = s \/ (s # Nil /\ cfg.prot = TopUpEmbedded(s, env))
        PROVE  Wins(Saved(s), UsedBy(cfg))
    <3> DEFINE c == cfg.prot
    <3>1. UsedBy(cfg) = MergeAntiDpiTransportTopUp(Saved(c), cfg.transport, env)
      BY DEF UsedBy
    <3> HIDE DEF c, g
    <3>2. CASE s = Nil
      <4>1. Saved(s) = g /\ Saved(c) = g
        BY <2>2, <2>3, <3>2 DEF c
      <4> QED BY <4>1, <2>1, <2>3, <3>1, TopUpWins
    <3>3. CASE s # Nil
      <4>1. s \in ProtectionOptions
        BY <3>3 DEF Prots
      <4>2. c = s \/ c = TopUpEmbedded(s, env)
        BY <2>3 DEF c
      <4>3. c # Nil
        BY <4>1, <4>2, TopUpOnce, NilIsNone
      <4>4. Saved(s) = s /\ Saved(c) = c
        BY <2>2, <3>3, <4>3
      <4> QED BY <4>1, <4>2, <4>4, <2>3, <3>1, TopUpWins
    <3> QED BY <3>2, <3>3
  <2>4. ASSUME NEW n \in DOMAIN cached, env \in {"", "off"} PROVE Wins(Saved(read[n].prot), UsedBy(cached[n]))
    BY <1>1, <2>3, <2>4 DEF UsesRead
  <2>5. ASSUME NEW n \in Readable(disk), env \in {"", "off"}
        PROVE  Wins(Saved(LoadByName(disk, n).prot), UsedBy(ConfigSnapshotForActive(n)))
    <3>1. ConfigSnapshotForActive(n) = LoadByName(disk, n)
      BY DEF ConfigSnapshotForActive
    <3>2. LoadByName(disk, n).prot \in Prots
      BY <1>1, LoadedIsOne DEF SectionsOK, Readable, WellFormed, Prots
    <3> QED BY <2>3, <2>5, <3>1, <3>2
  <2>6. \A n \in DOMAIN cached \ unreloaded : n \in Readable(disk) /\ read[n].prot = LoadByName(disk, n).prot
    BY <1>1 DEF UsesRead
  <2> QED BY <2>4, <2>5, <2>6 DEF ConnectsAsRead
<1> QED BY <1>1, SectionsInvariant, PTL

\* The repairs change no section they repaired before.
LEMMA RepairedTwice ==
  ASSUME NEW c, WellFormed(c)
  PROVE  /\ SanitizeProtection(SanitizeProtection(c.prot)) = SanitizeProtection(c.prot)
         /\ SanitizeManaged(SanitizeManaged(c.managed)) = SanitizeManaged(c.managed)
<1>1. SanitizeManaged(SanitizeManaged(c.managed)) = SanitizeManaged(c.managed)
  BY DEF SanitizeManaged
<1>2. ASSUME NEW p \in ProtectionOptions
      PROVE  SanitizeProtection(SanitizeProtection(p)) = SanitizeProtection(p)
  <2> DEFINE x == IF p.preset = "long" THEN "cut" ELSE p.preset
             q == [p EXCEPT !.preset = x]
  <2>1. x # "long" /\ x \in Text
    BY Texts DEF ProtectionOptions
  <2>2. SanitizeProtection(p) = q
    BY NilIsNone DEF SanitizeProtection
  <2> HIDE DEF x
  <2>3. q \in ProtectionOptions /\ q.preset = x
    BY <2>1 DEF ProtectionOptions
  <2> HIDE DEF q
  <2>4. [q EXCEPT !.preset = q.preset] = q
    BY <2>3 DEF ProtectionOptions
  <2>5. SanitizeProtection(q) = q
    BY <2>1, <2>3, <2>4 DEF SanitizeProtection
  <2> QED BY <2>2, <2>5
<1>3. SanitizeProtection(Nil) = Nil
  BY DEF SanitizeProtection
<1> QED BY <1>1, <1>2, <1>3 DEF WellFormed

\* A save changes the sections of the profile that the saved one changes.
LEMMA SavedKeeps ==
  ASSUME NEW d, DiskOK(d), NEW n \in Readable(d), NEW c, WellFormed(c),
         NEW w \in Save(d, n, c), n \in Readable(w.disk)
  PROVE  LET was == LoadByName(d, n)
             now == LoadByName(w.disk, n)
         IN  /\ c.prot = was.prot => now.prot = was.prot
             /\ c.managed = was.managed => now.managed = was.managed
             /\ c.mesh = was.mesh /\ c.relay = was.relay =>
                  /\ EffectiveRelayOptions(now) = EffectiveRelayOptions(was)
                  /\ w.disk[n].cfg = d[n].cfg \/ EffectiveRelayOptions(w.disk[n].cfg) = AfterMigration(d[n].cfg)
             /\ now = was \/ EffectiveRelayOptions(now) = AfterMigration(c)
<1> DEFINE was == LoadByName(d, n)
           old == d[n].cfg
           new == Repair(c)
           now == Repair(new)
<1>1. WellFormed(old) /\ was = Repair(old)
  BY DEF DiskOK, Readable, LoadByName
<1>2. WellFormed(new)
  BY RepairIsOne
<1>3. CASE w.disk = d
  BY <1>3
<1>4. CASE w.disk = With(d, n, Torn)
  BY <1>4 DEF With, Torn, Readable
<1>5. CASE w.disk = With(d, n, ProfileFile(new))
  <2>1. w.disk[n].cfg = new /\ LoadByName(w.disk, n) = now
    BY <1>5 DEF With, ProfileFile, LoadByName
  <2> HIDE DEF was, old, new, now
  <2>2. c.prot = was.prot => now.prot = was.prot
    BY <1>1, <1>2, RepairIsOne, RepairedTwice DEF new, now
  <2>3. c.managed = was.managed => now.managed = was.managed
    BY <1>1, <1>2, RepairIsOne, RepairedTwice DEF new, now
  <2>4. EffectiveRelayOptions(now) = EffectiveRelayOptions(new) /\ EffectiveRelayOptions(new) = AfterMigration(c)
    <3>1. ~Due(new) /\ EffectiveRelayOptions(new) = AfterMigration(c)
      BY RepairIsOne DEF new
    <3>2. EffectiveRelayOptions(now) = AfterMigration(new)
      BY <1>2, RepairIsOne DEF now
    <3> QED BY <3>1, <3>2 DEF AfterMigration
  <2>5. ASSUME c.mesh = was.mesh, c.relay = was.relay
        PROVE  AfterMigration(c) = EffectiveRelayOptions(was) /\ AfterMigration(c) = AfterMigration(old)
    <3>1. ~Due(was) /\ EffectiveRelayOptions(was) = AfterMigration(old)
      BY <1>1, RepairIsOne
    <3>2. ~Due(c) /\ EffectiveRelayOptions(c) = EffectiveRelayOptions(was)
      BY <2>5, <3>1 DEF Due, EffectiveRelayOptions
    <3> QED BY <3>1, <3>2 DEF AfterMigration
  <2> QED BY <2>1, <2>2, <2>3, <2>4, <2>5 DEF was, old
<1> QED BY <1>3, <1>4, <1>5 DEF Save, Outcomes

LEMMA SameKeeps == ASSUME NEW n \in Readable(disk), Same(disk, disk', n) PROVE KeepsTheRest(n)
<1>1. disk'[n] = disk[n] /\ LoadByName(disk', n) = LoadByName(disk, n)
  BY DEF Same, Readable, LoadByName
<1> QED BY <1>1 DEF KeepsTheRest, KeepsRelay, MeshFormKeeps

\* The mesh form gives back what it does not show, before and after a migration.
LEMMA HiddenKept ==
  ASSUME NEW o, NEW c, WellFormed(c), NEW b, KeepsHidden(o, EffectiveRelayOptions(c), b)
  PROVE  KeepsHidden(o, AfterMigration(c), b)
<1>1. CASE Due(c)
  <2>1. c.relay \in RelayOptions /\ EffectiveRelayOptions(c) = c.relay
    BY <1>1 DEF Due, WellFormed, EffectiveRelayOptions
  <2> DEFINE q == Migrated(c.relay)
  <2>2. q # Nil /\ q.key = c.relay.key /\ q.geo = c.relay.geo
    BY <2>1, MigratedIsOne, NilIsNone
  <2>3. AfterMigration(c) = q
    BY <1>1 DEF AfterMigration
  <2> HIDE DEF q
  <2> QED BY <2>1, <2>2, <2>3 DEF KeepsHidden
<1> QED BY <1>1 DEF AfterMigration

\* The write of a handler keeps the rest, handler by handler.
LEMMA ProtectionKeeps ==
  ASSUME SectionsOK, ui.tab \in {"protection", "cluster"}, NEW m, NEW p \in Prots, WriteProtection(m, p),
         NEW n \in Readable(disk) \cap Readable(disk')
  PROVE  KeepsTheRest(n)
<1> DEFINE was == LoadByName(disk, m)
           c == [was EXCEPT !.prot = p]
<1>1. PICK w \in Save(disk, m, c) : disk' = w.disk
  BY DEF WriteProtection
<1>2. CASE n # m
  <2>1. Same(disk, disk', n)
    BY <1>1, <1>2, Saves DEF Save
  <2> QED BY <2>1, SameKeeps
<1>3. CASE n = m
  <2>1. WellFormed(was)
    BY <1>3, LoadedIsOne DEF SectionsOK, Readable
  <2>2. WellFormed(c) /\ c.managed = was.managed /\ c.mesh = was.mesh /\ c.relay = was.relay
    <3> HIDE DEF was
    <3> QED BY <2>1 DEF WellFormed, Prots
  <2>3. ui.form # "mesh"
    BY DEF SectionsOK, FormOK
  <2> HIDE DEF c
  <2>4. /\ EffectiveRelayOptions(LoadByName(disk', n)) = EffectiveRelayOptions(LoadByName(disk, n))
        /\ disk'[n].cfg = disk[n].cfg \/ EffectiveRelayOptions(disk'[n].cfg) = AfterMigration(disk[n].cfg)
        /\ LoadByName(disk', n).managed = LoadByName(disk, n).managed
    BY <1>1, <1>3, <2>2, SavedKeeps DEF SectionsOK
  <2>5. KeepsRelay(n)
    BY <2>4 DEF KeepsRelay, AfterMigration
  <2> QED BY <2>3, <2>4, <2>5 DEF KeepsTheRest
<1> QED BY <1>2, <1>3

LEMMA SetKeeps ==
  ASSUME SectionsOK, ui.tab \in {"protection", "cluster"}, NEW p \in Prots, SetProtection(p), disk' # disk,
         NEW n \in Readable(disk) \cap Readable(disk')
  PROVE  KeepsTheRest(n)
<1>1. WriteProtection(ui.target, p)
  BY DEF SetProtection, SaveGlobal, KeepFiles
<1> QED BY <1>1, ProtectionKeeps

LEMMA TicketKeeps ==
  ASSUME UpsertPeerTicket, NEW n \in Readable(disk), n # TicketStore
  PROVE  KeepsTheRest(n)
<1>1. PICK doc, w : w \in Outcomes(disk, TicketStore, doc) /\ disk' = w.disk
  BY DEF UpsertPeerTicket
<1>2. Same(disk, disk', n)
  BY <1>1, Saves
<1> QED BY <1>2, SameKeeps

LEMMA MeshKeeps ==
  ASSUME SectionsOK, EnterMesh, NEW n \in Readable(disk) \cap Readable(disk')
  PROVE  KeepsTheRest(n)
<1>1. ui.form = "mesh"
  BY DEF EnterMesh
<1>2. PICK m, c, w :
        /\ m \in Readable(disk)
        /\ w \in Save(disk, m, c) /\ disk' = w.disk /\ WellFormed(c)
        /\ c.prot = LoadByName(disk, m).prot /\ c.managed = LoadByName(disk, m).managed
        /\ KeepsHidden(EffectiveRelayOptions(LoadByName(disk, m)), EffectiveRelayOptions(c),
                       On(LoadByName(disk, m).mesh))
  BY MeshSaves
<1>3. CASE n # m
  <2>1. Same(disk, disk', n)
    BY <1>2, <1>3, Saves DEF Save
  <2> QED BY <2>1, SameKeeps
<1>4. CASE n = m
  <2> DEFINE was == LoadByName(disk, n)
             now == LoadByName(disk', n)
  <2>1. /\ now.prot = was.prot /\ now.managed = was.managed
        /\ now = was \/ EffectiveRelayOptions(now) = AfterMigration(c)
    BY <1>2, <1>4, SavedKeeps DEF SectionsOK
  <2>2. KeepsHidden(EffectiveRelayOptions(was), AfterMigration(c), On(was.mesh))
    BY <1>2, <1>4, HiddenKept
  <2> HIDE DEF was, now
  <2>3. KeepsHidden(EffectiveRelayOptions(was), EffectiveRelayOptions(now), On(was.mesh))
    BY <2>1, <2>2 DEF KeepsHidden
  <2> QED BY <1>1, <2>1, <2>3 DEF KeepsTheRest, MeshFormKeeps, KeepsHidden, was, now
<1> QED BY <1>3, <1>4

LEMMA ConnKeeps ==
  ASSUME SectionsOK, EnterConnForm, NEW n \in Readable(disk) \cap Readable(disk'), ~Overwritten(n)
  PROVE  KeepsTheRest(n)
<1>1. ui.form = "edit" /\ ui.editing = n
  BY DEF EnterConnForm, Overwritten
<1>2. PICK m, d, c : \E w \in Save(d, m, c) :
        /\ disk' = w.disk /\ WellFormed(c) /\ DiskOK(d)
        /\ \/ /\ m = n /\ d = disk /\ c.prot = LoadByName(disk, n).prot
              /\ c.mesh = LoadByName(disk, n).mesh /\ c.relay = LoadByName(disk, n).relay
           \/ m # n /\ d = Without(disk, n)
  BY <1>1, ConnSaves
<1>3. PICK w \in Save(d, m, c) :
        /\ disk' = w.disk /\ WellFormed(c) /\ DiskOK(d)
        /\ \/ /\ m = n /\ d = disk /\ c.prot = LoadByName(disk, n).prot
              /\ c.mesh = LoadByName(disk, n).mesh /\ c.relay = LoadByName(disk, n).relay
           \/ m # n /\ d = Without(disk, n)
  BY <1>2
<1>4. CASE m # n
  <2>1. n \notin DOMAIN d /\ DOMAIN disk' \subseteq DOMAIN d \cup {m}
    BY <1>3, <1>4, Saves DEF Save, Without
  <2> QED BY <2>1, <1>4 DEF Readable
<1>5. CASE m = n
  <2> DEFINE was == LoadByName(disk, n)
             now == LoadByName(disk', n)
  <2>1. /\ now.prot = was.prot /\ EffectiveRelayOptions(now) = EffectiveRelayOptions(was)
        /\ disk'[n].cfg = disk[n].cfg \/ EffectiveRelayOptions(disk'[n].cfg) = AfterMigration(disk[n].cfg)
    BY <1>3, <1>5, SavedKeeps DEF SectionsOK
  <2>2. KeepsRelay(n)
    BY <2>1 DEF KeepsRelay, AfterMigration
  <2> QED BY <1>1, <2>1, <2>2 DEF KeepsTheRest
<1> QED BY <1>4, <1>5

\* For any profiles, any keys and forms and any failing writes, a form or key
\* changes only its own section of a profile that stays; the first save of a
\* profile with an old relay section migrates it and changes of its options what
\* Migrated names, StakeMin among them, and no more; and the mesh form keeps the
\* key, and the geo lists where mesh was off, which it does not show (model.go:
\* the handlers that save; mesh.go: MigrateLegacyRelayToMeshInPlace).
THEOREM FormsKeepSections == FormsSpec => FormsKeepTheRest
<1> DEFINE Kept == \A n \in (Readable(disk) \cap Readable(disk')) \ {TicketStore} :
                     disk' # disk => Overwritten(n) \/ KeepsTheRest(n)
<1>1. ASSUME SectionsOK, FormsNext PROVE Kept
  <2> SUFFICES ASSUME NEW n \in (Readable(disk) \cap Readable(disk')) \ {TicketStore}, disk' # disk, ~Overwritten(n)
               PROVE  KeepsTheRest(n)
    OBVIOUS
  <2>1. CASE KeyEsc \/ KeyN \/ KeyD \/ KeyTab \/ KeyE \/ KeyTarget(PrevTarget) \/ KeyTarget(NextTarget) \/ TryConnect
    BY <2>1 DEF KeyEsc, KeyN, KeyD, KeyTab, KeyE, KeyTarget, TryConnect, KeepFiles
  <2>2. CASE KeyY
    <3>1. Same(disk, disk', n)
      BY <2>2 DEF KeyY, Without, Same, Readable
    <3> QED BY <3>1, SameKeeps
  <2>3. CASE KeyCluster
    <3>1. ui.tab \in {"protection", "cluster"}
      BY <2>3 DEF KeyCluster
    <3> QED BY <3>1, <2>3, <1>1, ClusterWrites, ProtectionKeeps
  <2>4. CASE KeyPreset \/ EnterProtection
    <3>1. ui.tab \in {"protection", "cluster"}
      BY <2>4, <1>1 DEF KeyPreset, EnterProtection, SectionsOK, FormOK
    <3> QED BY <3>1, <2>4, <1>1, PresetSets, ProtectionFormSets, SetKeeps
  <2>5. CASE KeyExportTicket \/ KeyImportTicket
    BY <2>5, TicketKeeps DEF KeyExportTicket, KeyImportTicket
  <2>6. CASE EnterMesh
    BY <2>6, <1>1, MeshKeeps
  <2>7. CASE EnterConnForm
    BY <2>7, <1>1, ConnKeeps
  <2> QED BY <1>1, <2>1, <2>2, <2>3, <2>4, <2>5, <2>6, <2>7 DEF FormsNext
<1>2. ASSUME SectionsOK, [FormsNext]_formVars PROVE [Kept]_formVars
  BY <1>1, <1>2
<1> QED BY <1>2, SectionsInvariant, PTL DEF FormsSpec, FormsKeepTheRest

-----------------------------------------------------------------------------
\* Induction.

\* A set of naturals has a least one.
LEMMA LeastNatural ==
  ASSUME NEW T \in SUBSET Nat, T # {}
  PROVE  \E x \in T : \A y \in T : x <= y
<1> DEFINE R == {ss \in Nat \X Nat : ss[1] < ss[2]}
<1>1. IsWellFoundedOn(R, Nat)
  BY NatLessThanWellFounded DEF OpToRel
<1> HIDE DEF R
<1>2. PICK x \in T : \A y \in T : <<y, x>> \notin R
  BY <1>1, WFMin
<1>3. ASSUME NEW y \in T PROVE x <= y
  <2>1. <<y, x>> \notin R /\ x \in Nat /\ y \in Nat
    BY <1>2
  <2> QED BY <2>1 DEF R
<1> QED BY <1>3

\* Induction, for a set in place of a predicate.
LEMMA InductionOnSet ==
  ASSUME NEW S, 0 \in S, \A n \in Nat : n \in S => n + 1 \in S
  PROVE  Nat \subseteq S
<1> SUFFICES ASSUME NEW k \in Nat, k \notin S PROVE FALSE
  OBVIOUS
<1> DEFINE T == {n \in Nat : n \notin S}
<1>1. T \in SUBSET Nat /\ T # {}
  OBVIOUS
<1> HIDE DEF T
<1>2. PICK x \in T : \A y \in T : x <= y
  BY <1>1, LeastNatural
<1> USE DEF T
<1>3. x \in Nat /\ x # 0 /\ x \notin S
  BY <1>2
<1>4. x - 1 \in Nat /\ ~(x <= x - 1)
  BY <1>3
<1>5. x - 1 \in S
  BY <1>4, <1>2
<1> QED BY <1>5, <1>3, <1>4


-----------------------------------------------------------------------------
\* The table of a client (DhtTable): identifiers, filter.

\* The powers of two, as far as they go.
LEMMA Powers ==
  /\ Power[0] = 1
  /\ \A n \in 1 .. Bits : Power[n] = 2 * Power[n - 1]
  /\ \A n \in 0 .. Bits : Power[n] \in Nat \ {0}
<1> DEFINE Up(g, m) == /\ g \in [0 .. m -> Nat \ {0}] /\ g[0] = 1
                       /\ \A n \in 1 .. m : g[n] = 2 * g[n - 1]
           S == {m \in Nat : \E g : Up(g, m)}
<1>1. 0 \in S
  <2>1. Up([n \in 0 .. 0 |-> 1], 0)
    OBVIOUS
  <2> QED BY <2>1
<1>2. ASSUME NEW m \in Nat, m \in S PROVE m + 1 \in S
  <2>1. PICK g : Up(g, m)
    BY <1>2
  <2> DEFINE h == [n \in 0 .. m + 1 |-> IF n = m + 1 THEN 2 * g[m] ELSE g[n]]
  <2>2. Up(h, m + 1)
    <3>1. h \in [0 .. m + 1 -> Nat \ {0}] /\ h[0] = 1
      BY <2>1
    <3>2. ASSUME NEW n \in 1 .. m + 1 PROVE h[n] = 2 * h[n - 1]
      BY <2>1
    <3> QED BY <3>1, <3>2
  <2> HIDE DEF h, Up
  <2> QED BY <2>2
<1> HIDE DEF S
<1>3. Nat \subseteq S
  BY <1>1, <1>2, InductionOnSet
<1>4. Bits \in Nat
  BY TableAssumption
<1>5. PICK g : Up(g, Bits)
  BY <1>3, <1>4 DEF S
<1>6. g = [n \in 0 .. Bits |-> IF n = 0 THEN 1 ELSE 2 * g[n - 1]]
  BY <1>4, <1>5
<1>7. Power = [n \in 0 .. Bits |-> IF n = 0 THEN 1 ELSE 2 * Power[n - 1]]
  BY <1>6 DEF Power
<1>8. \A n \in 1 .. Bits : n - 1 \in 0 .. Bits /\ n \in 0 .. Bits /\ n # 0
  BY <1>4
<1>9. Power[0] = 1 /\ \A n \in 1 .. Bits : Power[n] = 2 * Power[n - 1]
  BY <1>4, <1>7, <1>8
<1> DEFINE T == {n \in Nat : n <= Bits => Power[n] \in Nat \ {0}}
<1>10. 0 \in T
  BY <1>9
<1>11. ASSUME NEW n \in Nat, n \in T PROVE n + 1 \in T
  <2> SUFFICES ASSUME n + 1 <= Bits PROVE Power[n + 1] \in Nat \ {0}
    OBVIOUS
  <2>1. n + 1 \in 1 .. Bits /\ (n + 1) - 1 = n /\ Power[n] \in Nat \ {0}
    BY <1>4, <1>11
  <2>2. Power[n + 1] = 2 * Power[n]
    BY <2>1, <1>9
  <2> QED BY <2>1, <2>2
<1> HIDE DEF T
<1>12. Nat \subseteq T
  BY <1>10, <1>11, InductionOnSet
<1> QED BY <1>4, <1>9, <1>12 DEF T

\* Identifiers, and the bucket each has.
Ids == 0 .. Power[Bits] - 1

LEMMA BucketOfId == \A id \in Ids : BucketOf(id) \in Bucket
<1> SUFFICES ASSUME NEW id \in Ids PROVE BucketOf(id) \in Bucket
  OBVIOUS
<1>1. Bits \in Nat \ {0} /\ Power[Bits] \in Nat
  BY TableAssumption, Powers
<1>2. CASE id = 0
  BY <1>1, <1>2 DEF BucketOf, Bucket
<1>3. CASE id # 0
  <2> DEFINE S == {n \in Nat : n <= Bits => (id < Power[n] => \E c \in 0 .. n - 1 : Power[c] <= id /\ id < Power[c + 1])}
  <2>0. id \in Nat
    BY <1>1 DEF Ids
  <2>1. 0 \in S
    BY <1>3, <2>0, Powers
  <2>2. ASSUME NEW n \in Nat, n \in S PROVE n + 1 \in S
    <3> SUFFICES ASSUME n + 1 <= Bits, id < Power[n + 1]
                 PROVE  \E c \in 0 .. (n + 1) - 1 : Power[c] <= id /\ id < Power[c + 1]
      OBVIOUS
    <3>1. n \in 0 .. Bits /\ Power[n] \in Nat /\ n \in 0 .. (n + 1) - 1
      BY <1>1, Powers
    <3>2. CASE Power[n] <= id
      BY <3>1, <3>2
    <3>3. CASE id < Power[n]
      BY <3>1, <3>3, <2>2
    <3> QED BY <3>1, <3>2, <3>3, <2>0
  <2> HIDE DEF S
  <2>3. Bits \in S
    BY <1>1, <2>1, <2>2, InductionOnSet
  <2>4. id < Power[Bits]
    BY <1>1 DEF Ids
  <2>5. PICK c \in 0 .. Bits - 1 : Power[c] <= id /\ id < Power[c + 1]
    BY <2>3, <2>4, <1>1 DEF S
  <2> DEFINE b == Bits - 1 - c
  <2>6. b \in Bucket /\ Bits - 1 - b = c /\ Bits - b = c + 1
    BY <1>1 DEF Bucket
  <2>7. \E x \in Bucket : Power[Bits - 1 - x] <= id /\ id < Power[Bits - x]
    BY <2>5, <2>6
  <2> QED BY <2>7, <1>3 DEF BucketOf
<1> QED BY <1>2, <1>3

\* What the filter lets through is among the nodes and admitted.
Admitted(p) == {n \in Nodes : Admits(p, n)}

LEMMA FilterAdmits == ASSUME NEW p, NEW s \in Seq(Nodes) PROVE Filter(p, s) \in Seq(Admitted(p))
<1> DEFINE D == Seq(Admitted(p))
           Up(g, m) == /\ g \in [0 .. m -> D] /\ g[0] = <<>>
                       /\ \A i \in 1 .. m : g[i] = IF Admits(p, s[i]) THEN Append(g[i - 1], s[i]) ELSE g[i - 1]
           S == {m \in Nat : m <= Len(s) => \E g : Up(g, m)}
<1>0. Len(s) \in Nat /\ \A i \in 1 .. Len(s) : s[i] \in Nodes
  OBVIOUS
<1>1. 0 \in S
  <2>1. Up([i \in 0 .. 0 |-> <<>>], 0)
    OBVIOUS
  <2> QED BY <2>1
<1>2. ASSUME NEW m \in Nat, m \in S PROVE m + 1 \in S
  <2> HIDE DEF Up
  <2> SUFFICES ASSUME m + 1 <= Len(s) PROVE \E g : Up(g, m + 1)
    OBVIOUS
  <2>1. PICK g : Up(g, m)
    BY <1>0, <1>2
  <2> USE DEF Up
  <2> DEFINE last == IF Admits(p, s[m + 1]) THEN Append(g[m], s[m + 1]) ELSE g[m]
             h == [i \in 0 .. m + 1 |-> IF i = m + 1 THEN last ELSE g[i]]
  <2>2. last \in D
    <3>1. g[m] \in D /\ s[m + 1] \in Nodes
      BY <1>0, <2>1
    <3>2. Admits(p, s[m + 1]) => s[m + 1] \in Admitted(p)
      BY <3>1 DEF Admitted
    <3>3. Admits(p, s[m + 1]) => Append(g[m], s[m + 1]) \in D
      BY <3>1, <3>2, AppendProperties
    <3> QED BY <3>1, <3>3
  <2>3. Up(h, m + 1)
    <3> HIDE DEF last, D
    <3>1. h \in [0 .. m + 1 -> D] /\ h[0] = <<>> /\ h[m + 1] = last /\ \A i \in 0 .. m : h[i] = g[i]
      BY <2>1, <2>2
    <3>2. ASSUME NEW i \in 1 .. m + 1
          PROVE  h[i] = IF Admits(p, s[i]) THEN Append(h[i - 1], s[i]) ELSE h[i - 1]
      <4>1. CASE i = m + 1
        <5>1. h[i - 1] = g[m] /\ h[i] = last
          BY <3>1, <4>1
        <5> QED BY <5>1, <4>1 DEF last
      <4>2. CASE i # m + 1
        <5>1. i \in 1 .. m /\ i - 1 \in 0 .. m /\ i \in 0 .. m
          BY <4>2
        <5>2. g[i] = IF Admits(p, s[i]) THEN Append(g[i - 1], s[i]) ELSE g[i - 1]
          BY <5>1, <2>1
        <5> QED BY <5>1, <5>2, <3>1
      <4> QED BY <4>1, <4>2
    <3> QED BY <3>1, <3>2
  <2> HIDE DEF h, Up
  <2> QED BY <2>3
<1> HIDE DEF S
<1>3. Len(s) \in S
  BY <1>0, <1>1, <1>2, InductionOnSet
<1>4. PICK g : Up(g, Len(s))
  BY <1>0, <1>3 DEF S
<1> HIDE DEF D
<1> DEFINE f == CHOOSE f : f = [i \in 0 .. Len(s) |->
                 IF i = 0 THEN <<>> ELSE IF Admits(p, s[i]) THEN Append(f[i - 1], s[i]) ELSE f[i - 1]]
<1>5. Filter(p, s) = f[Len(s)]
  BY DEF Filter
<1>6. g = [i \in 0 .. Len(s) |-> IF i = 0 THEN <<>> ELSE IF Admits(p, s[i]) THEN Append(g[i - 1], s[i]) ELSE g[i - 1]]
  <2>1. g = [i \in 0 .. Len(s) |-> g[i]]
    BY <1>4
  <2>2. g[0] = <<>> /\ \A i \in 1 .. Len(s) : g[i] = IF Admits(p, s[i]) THEN Append(g[i - 1], s[i]) ELSE g[i - 1]
    BY <1>4
  <2>3. \A i \in 0 .. Len(s) : i # 0 => i \in 1 .. Len(s)
    BY <1>0
  <2> QED BY <2>1, <2>2, <2>3
<1>7. f = [i \in 0 .. Len(s) |-> IF i = 0 THEN <<>> ELSE IF Admits(p, s[i]) THEN Append(f[i - 1], s[i]) ELSE f[i - 1]]
  BY <1>6
<1> HIDE DEF f
<1> DEFINE T == {i \in Nat : i <= Len(s) => f[i] = g[i]}
<1>8. 0 \in T
  BY <1>0, <1>6, <1>7
<1>9. ASSUME NEW i \in Nat, i \in T PROVE i + 1 \in T
  <2> SUFFICES ASSUME i + 1 <= Len(s) PROVE f[i + 1] = g[i + 1]
    OBVIOUS
  <2>1. f[i] = g[i] /\ i + 1 \in 0 .. Len(s) /\ i + 1 # 0 /\ (i + 1) - 1 = i
    BY <1>0, <1>9
  <2>2. f[i + 1] = IF Admits(p, s[i + 1]) THEN Append(f[i], s[i + 1]) ELSE f[i]
    BY <2>1, <1>7
  <2>3. g[i + 1] = IF Admits(p, s[i + 1]) THEN Append(g[i], s[i + 1]) ELSE g[i]
    BY <2>1, <1>6
  <2> QED BY <2>1, <2>2, <2>3
<1> HIDE DEF T
<1>10. Nat \subseteq T
  BY <1>8, <1>9, InductionOnSet
<1>11. f[Len(s)] = g[Len(s)]
  BY <1>0, <1>10 DEF T
<1> QED BY <1>0, <1>4, <1>5, <1>11 DEF D

-----------------------------------------------------------------------------
\* Sets of identifiers.

LEMMA Constants ==
  Bits \in Nat /\ K \in Nat \ {0} /\ MaxEntries \in Nat \ {0} /\ Power[Bits] \in Nat \ {0}
BY TableAssumption, Powers

LEMMA IdSets ==
  ASSUME NEW S \in SUBSET Ids
  PROVE  /\ IsFiniteSet(S) /\ Cardinality(S) \in Nat /\ S \subseteq Nat
         /\ \A T \in SUBSET S : IsFiniteSet(T) /\ Cardinality(T) \in Nat /\ Cardinality(T) <= Cardinality(S)
         /\ \A T \in SUBSET S : Cardinality(T) = Cardinality(S) => T = S
<1>0. 0 \in Int /\ Power[Bits] - 1 \in Int
  BY Constants
<1>1. Ids \subseteq Nat /\ IsFiniteSet(Ids)
  <2>1. Ids \subseteq Nat
    BY <1>0 DEF Ids
  <2>2. IsFiniteSet(0 .. Power[Bits] - 1)
    BY <1>0, FS_Interval
  <2> QED BY <2>1, <2>2 DEF Ids
<1>2. IsFiniteSet(S)
  BY <1>1, FS_Subset
<1>3. \A T \in SUBSET S : IsFiniteSet(T) /\ Cardinality(T) <= Cardinality(S) /\ (Cardinality(T) = Cardinality(S) => T = S)
  BY <1>2, FS_Subset
<1> QED BY <1>1, <1>2, <1>3, FS_CardinalityType

\* A set of identifiers that is not empty has a farthest one.
LEMMA FarthestOne ==
  ASSUME NEW S \in SUBSET Ids, S # {}
  PROVE  Farthest(S) \in S /\ \A y \in S : y <= Farthest(S)
<1> DEFINE p == Power[Bits]
           T == {p - x : x \in S}
<1>1. S \subseteq Nat /\ p \in Nat /\ \A x \in S : x < p
  BY Constants DEF Ids
<1>2. T \in SUBSET Nat /\ T # {}
  <2>1. \A x \in S : p - x \in Nat
    BY <1>1
  <2> QED BY <2>1
<1>3. PICK m \in T : \A y \in T : m <= y
  BY <1>2, LeastNatural
<1>4. PICK x \in S : m = p - x
  BY <1>3
<1>5. ASSUME NEW y \in S PROVE y <= x
  <2>1. p - y \in T
    BY <1>5
  <2>2. p - x <= p - y
    BY <2>1, <1>3, <1>4
  <2> QED BY <2>2, <1>1
<1> QED BY <1>5 DEF Farthest

LEMMA AddId ==
  ASSUME NEW S \in SUBSET Ids, NEW x \in Ids, x \notin S
  PROVE  S \cup {x} \in SUBSET Ids /\ Cardinality(S \cup {x}) = Cardinality(S) + 1
BY IdSets, FS_AddElement

LEMMA RemoveFarthest ==
  ASSUME NEW S \in SUBSET Ids, NEW f \in S, \A y \in S : y <= f
  PROVE  /\ Cardinality(S \ {f}) = Cardinality(S) - 1
         /\ \A id \in Nat : f <= id => Closer(S \ {f}, id) = S \ {f}
<1>1. Cardinality(S \ {f}) = Cardinality(S) - 1
  BY IdSets, FS_RemoveElement
<1>2. S \subseteq Nat
  BY IdSets
<1>3. ASSUME NEW id \in Nat, f <= id PROVE Closer(S \ {f}, id) = S \ {f}
  <2>1. \A y \in S \ {f} : y < id
    BY <1>2, <1>3
  <2> QED BY <2>1 DEF Closer
<1> QED BY <1>1, <1>3

-----------------------------------------------------------------------------
\* One insert, over the set of identifiers in the table.

In(D, b) == {x \in D : BucketOf(x) = b}

\* What is missing has enough nearer ones in its bucket or in the table.
NearIn(D, id) ==
  \/ Cardinality(Closer(In(D, BucketOf(id)), id)) >= K
  \/ Cardinality(Closer(D, id)) >= MaxEntries

Within(D) ==
  /\ Cardinality(D) <= MaxEntries
  /\ \A b \in Bucket : Cardinality(In(D, b)) <= K

\* What an insert of a new identifier makes of the set: all stay; or the
\* farthest of a bucket goes; or the farthest of all goes.
AllStay(D, x, E) ==
  /\ E = D \cup {x}
  /\ Cardinality(In(E, BucketOf(x))) <= K /\ Cardinality(E) <= MaxEntries
BucketTrimmed(D, x, E) ==
  LET B == In(D \cup {x}, BucketOf(x))
  IN  Cardinality(B) > K /\ \E f \in B : (\A y \in B : y <= f) /\ E = (D \cup {x}) \ {f}
TableTrimmed(D, x, E) ==
  LET A == D \cup {x}
  IN  /\ Cardinality(In(A, BucketOf(x))) <= K /\ Cardinality(A) > MaxEntries
      /\ \E g \in A : (\A y \in A : y <= g) /\ E = A \ {g}

LEMMA GrowingIsNear ==
  ASSUME NEW D \in SUBSET Ids, NEW E \in SUBSET Ids, NEW id \in Ids, NearIn(D, id),
         \A y \in D : y < id => y \in E
  PROVE  NearIn(E, id)
<1> DEFINE b == BucketOf(id)
<1>1. Closer(In(D, b), id) \subseteq Closer(In(E, b), id) /\ Closer(D, id) \subseteq Closer(E, id)
  BY DEF Closer, In
<1>2. Closer(In(E, b), id) \in SUBSET Ids /\ Closer(E, id) \in SUBSET Ids
  BY DEF Closer, In
<1>3. /\ Cardinality(Closer(In(D, b), id)) <= Cardinality(Closer(In(E, b), id))
      /\ Cardinality(Closer(D, id)) <= Cardinality(Closer(E, id))
  BY <1>1, <1>2, IdSets
<1>4. /\ Cardinality(Closer(In(D, b), id)) \in Nat /\ Cardinality(Closer(In(E, b), id)) \in Nat
      /\ Cardinality(Closer(D, id)) \in Nat /\ Cardinality(Closer(E, id)) \in Nat
  BY <1>1, <1>2, IdSets
<1> QED BY <1>3, <1>4, Constants DEF NearIn

LEMMA StayKeeps ==
  ASSUME NEW D \in SUBSET Ids, NEW x \in Ids, x \notin D, Within(D), NEW E, AllStay(D, x, E)
  PROVE  /\ E \in SUBSET Ids /\ Within(E)
         /\ \A id \in Ids \ E : NearIn(D, id) => NearIn(E, id)
<1>1. E \in SUBSET Ids /\ D \subseteq E
  BY DEF AllStay
<1>2. \A b \in Bucket : b # BucketOf(x) => In(E, b) = In(D, b)
  BY DEF AllStay, In
<1>3. Within(E)
  BY <1>2 DEF Within, AllStay
<1> QED BY <1>1, <1>3, GrowingIsNear

LEMMA BucketTrimKeeps ==
  ASSUME NEW D \in SUBSET Ids, NEW x \in Ids, x \notin D, Within(D), NEW E, BucketTrimmed(D, x, E)
  PROVE  /\ E \in SUBSET Ids /\ Within(E)
         /\ \A id \in Ids \ E : (id \notin D \cup {x} => NearIn(D, id)) => NearIn(E, id)
<1> DEFINE A == D \cup {x}
           b0 == BucketOf(x)
           B == In(A, b0)
<1>1. PICK f \in B : (\A y \in B : y <= f) /\ E = A \ {f}
  BY DEF BucketTrimmed
<1>a. A = D \cup {x} /\ B = In(A, b0) /\ b0 = BucketOf(x)
  OBVIOUS
<1>2. /\ A \in SUBSET Ids /\ Cardinality(A) = Cardinality(D) + 1 /\ b0 \in Bucket
      /\ Cardinality(D) \in Nat /\ Cardinality(D) <= MaxEntries
  BY AddId, BucketOfId, IdSets DEF Within
<1>3. /\ In(D, b0) \in SUBSET Ids /\ Cardinality(In(D, b0)) \in Nat /\ Cardinality(In(D, b0)) <= K
      /\ x \notin In(D, b0) /\ B = In(D, b0) \cup {x} /\ B \in SUBSET Ids
  <2>1. In(D, b0) \in SUBSET Ids /\ x \notin In(D, b0) /\ B = In(D, b0) \cup {x} /\ B \in SUBSET Ids
    BY DEF In
  <2> QED BY <2>1, <1>2, IdSets DEF Within
<1>4. Cardinality(B) = K + 1
  <2>1. Cardinality(B) = Cardinality(In(D, b0)) + 1
    BY <1>3, AddId
  <2>2. Cardinality(B) > K
    BY DEF BucketTrimmed
  <2> QED BY <2>1, <2>2, <1>3, Constants
<1>5. f \in A /\ In(E, b0) = B \ {f} /\ \A b \in Bucket : b # b0 => In(E, b) = In(D, b)
  BY <1>1 DEF In
<1> HIDE DEF A, B, b0
<1>6. /\ Cardinality(B \ {f}) = K
      /\ \A id \in Nat : f <= id => Closer(B \ {f}, id) = B \ {f}
  <2>1. /\ Cardinality(B \ {f}) = Cardinality(B) - 1
        /\ \A id \in Nat : f <= id => Closer(B \ {f}, id) = B \ {f}
    BY <1>1, <1>3, RemoveFarthest
  <2> QED BY <2>1, <1>4, Constants
<1>7. E \in SUBSET Ids /\ Cardinality(E) = Cardinality(D)
  <2>1. Cardinality(A \ {f}) = Cardinality(A) - 1
    BY <1>2, <1>5, IdSets, FS_RemoveElement
  <2> QED BY <2>1, <1>1, <1>2
<1>8. Within(E)
  <2>1. ASSUME NEW b \in Bucket PROVE Cardinality(In(E, b)) <= K
    <3>1. CASE b = b0
      BY <3>1, <1>5, <1>6, Constants
    <3>2. CASE b # b0
      BY <3>2, <1>5 DEF Within
    <3> QED BY <3>1, <3>2
  <2> QED BY <2>1, <1>2, <1>7 DEF Within
<1>9. ASSUME NEW id \in Ids \ E, id \notin A => NearIn(D, id) PROVE NearIn(E, id)
  <2>0. id \in Nat /\ f \in Nat /\ x \in Nat
    BY <1>2, <1>5, IdSets DEF Ids
  <2>1. CASE id = f
    <3>1. BucketOf(id) = b0
      BY <2>1, <1>1, <1>a DEF In
    <3>2. Closer(In(E, BucketOf(id)), id) = B \ {f}
      BY <3>1, <2>0, <2>1, <1>5, <1>6
    <3> QED BY <3>2, <1>6, Constants DEF NearIn
  <2>2. CASE id # f
    <3>1. id \notin A /\ NearIn(D, id)
      BY <2>2, <1>1, <1>9
    <3>2. CASE f = x
      <4>1. E = D
        BY <3>2, <1>1, <1>a
      <4> QED BY <3>1, <4>1
    <3>3. CASE f # x
      <4>1. f \in In(D, b0) /\ x <= f
        BY <3>3, <1>1, <1>3, <1>a DEF In
      <4>2. CASE Cardinality(Closer(In(D, BucketOf(id)), id)) >= K
        <5>1. CASE BucketOf(id) # b0
          <6>1. In(E, BucketOf(id)) = In(D, BucketOf(id))
            BY <5>1, <1>5, BucketOfId
          <6> QED BY <6>1, <4>2 DEF NearIn
        <5>2. CASE BucketOf(id) = b0
          <6>1. Closer(In(D, b0), id) = In(D, b0)
            <7>1. Closer(In(D, b0), id) \subseteq In(D, b0)
              BY DEF Closer
            <7>2. /\ Cardinality(Closer(In(D, b0), id)) \in Nat
                  /\ Cardinality(Closer(In(D, b0), id)) <= Cardinality(In(D, b0))
              BY <7>1, <1>3, IdSets
            <7>3. Cardinality(Closer(In(D, b0), id)) = Cardinality(In(D, b0))
              BY <7>2, <4>2, <5>2, <1>3, Constants
            <7> QED BY <7>1, <7>3, <1>3, IdSets
          <6>2. f < id
            BY <6>1, <4>1 DEF Closer
          <6>3. Closer(In(E, BucketOf(id)), id) = B \ {f}
            BY <6>2, <5>2, <2>0, <1>5, <1>6
          <6> QED BY <6>3, <1>6, Constants DEF NearIn
        <5> QED BY <5>1, <5>2
      <4>3. CASE Cardinality(Closer(D, id)) >= MaxEntries
        <5>1. Closer(D, id) \subseteq D
          BY DEF Closer
        <5>2. Cardinality(Closer(D, id)) \in Nat /\ Cardinality(Closer(D, id)) <= Cardinality(D)
          BY <5>1, IdSets
        <5>3. Cardinality(Closer(D, id)) = Cardinality(D) /\ Cardinality(D) = MaxEntries
          BY <5>2, <4>3, <1>2, Constants
        <5>4. Closer(D, id) = D
          BY <5>1, <5>3, IdSets
        <5>5. f < id /\ \A y \in D : y < id
          BY <5>4, <4>1 DEF Closer, In
        <5>6. Closer(E, id) = E
          <6>1. x < id
            BY <5>5, <4>1, <2>0
          <6> QED BY <6>1, <5>5, <1>1, <1>a DEF Closer
        <5> QED BY <5>3, <5>6, <1>7, Constants DEF NearIn
      <4> QED BY <3>1, <4>2, <4>3 DEF NearIn
    <3> QED BY <3>2, <3>3
  <2> QED BY <2>1, <2>2
<1> QED BY <1>7, <1>8, <1>9, <1>a

LEMMA TableTrimKeeps ==
  ASSUME NEW D \in SUBSET Ids, NEW x \in Ids, x \notin D, Within(D), NEW E, TableTrimmed(D, x, E)
  PROVE  /\ E \in SUBSET Ids /\ Within(E)
         /\ \A id \in Ids \ E : (id \notin D \cup {x} => NearIn(D, id)) => NearIn(E, id)
<1> DEFINE A == D \cup {x}
<1>1. PICK g \in A : (\A y \in A : y <= g) /\ E = A \ {g}
  BY DEF TableTrimmed
<1>2. /\ A \in SUBSET Ids /\ Cardinality(A) = Cardinality(D) + 1
      /\ Cardinality(D) \in Nat /\ Cardinality(D) <= MaxEntries /\ Cardinality(A) > MaxEntries
  BY AddId, IdSets DEF Within, TableTrimmed
<1>a. A = D \cup {x}
  OBVIOUS
<1> HIDE DEF A
<1>3. /\ E \in SUBSET Ids /\ Cardinality(E) = MaxEntries
      /\ \A id \in Nat : g <= id => Closer(E, id) = E
  <2>1. /\ Cardinality(A \ {g}) = Cardinality(A) - 1
        /\ \A id \in Nat : g <= id => Closer(A \ {g}, id) = A \ {g}
    BY <1>1, <1>2, RemoveFarthest
  <2>2. Cardinality(A) = MaxEntries + 1
    BY <1>2, Constants
  <2>3. Cardinality(A \ {g}) = MaxEntries
    BY <2>1, <2>2, Constants
  <2> QED BY <2>1, <2>3, <1>1, <1>2
<1>4. Within(E)
  <2>1. ASSUME NEW b \in Bucket PROVE Cardinality(In(E, b)) <= K
    <3>1. In(E, b) \subseteq In(A, b) /\ In(A, b) \in SUBSET Ids
      BY <1>1, <1>2 DEF In
    <3>2. /\ Cardinality(In(E, b)) \in Nat /\ Cardinality(In(A, b)) \in Nat
          /\ Cardinality(In(E, b)) <= Cardinality(In(A, b))
      BY <3>1, IdSets
    <3>3. Cardinality(In(A, b)) <= K
      <4>1. CASE b = BucketOf(x)
        BY <4>1, <1>a DEF TableTrimmed
      <4>2. CASE b # BucketOf(x)
        <5>1. In(A, b) = In(D, b)
          BY <4>2, <1>a DEF In
        <5> QED BY <5>1 DEF Within
      <4> QED BY <4>1, <4>2
    <3> QED BY <3>2, <3>3, Constants
  <2> QED BY <2>1, <1>3, Constants DEF Within
<1>5. ASSUME NEW id \in Ids \ E, id \notin A => NearIn(D, id) PROVE NearIn(E, id)
  <2>0. id \in Nat /\ g \in Nat
    BY <1>1, <1>2, IdSets DEF Ids
  <2>1. CASE g <= id
    BY <2>0, <2>1, <1>3, Constants DEF NearIn
  <2>2. CASE id < g
    <3>1. id \notin A
      BY <2>0, <2>2, <1>1
    <3>2. \A y \in D : y < id => y \in E
      BY <2>0, <2>2, <1>1, <1>2, <1>a, IdSets
    <3> QED BY <3>1, <3>2, <1>3, <1>5, GrowingIsNear
  <2> QED BY <2>0, <2>1, <2>2
<1> QED BY <1>3, <1>4, <1>5, <1>a

-----------------------------------------------------------------------------
\* One insert, over the table.

\* Map and buckets agree.
Shape(t) ==
  /\ t = [by |-> t.by, buckets |-> t.buckets]
  /\ t.by \in [DOMAIN t.by -> Nodes] /\ DOMAIN t.by \in SUBSET Ids
  /\ \A x \in DOMAIN t.by : t.by[x].id = x
  /\ t.buckets = [b \in Bucket |-> In(DOMAIN t.by, b)]

LEMMA NodeIds == \A n \in Nodes : n.id \in Ids
BY TableAssumption DEF Ids

LEMMA DropKeepsShape ==
  ASSUME NEW t, Shape(t), NEW id \in DOMAIN t.by
  PROVE  LET u == DropContact(t, id)
         IN  /\ Shape(u) /\ DOMAIN u.by = DOMAIN t.by \ {id}
             /\ \A x \in DOMAIN u.by : u.by[x] = t.by[x]
<1> DEFINE D == DOMAIN t.by
           u == DropContact(t, id)
           by == [x \in D \ {id} |-> t.by[x]]
           bs == [t.buckets EXCEPT ![BucketOf(id)] = @ \ {id}]
<1>1. u = [by |-> by, buckets |-> bs]
  BY DEF DropContact
<1>2. u.by = by /\ u.buckets = bs
  BY <1>1
<1>3. DOMAIN by = D \ {id} /\ \A x \in D \ {id} : by[x] = t.by[x]
  OBVIOUS
<1>4. D \in SUBSET Ids /\ id \in Ids /\ BucketOf(id) \in Bucket
  BY BucketOfId DEF Shape
<1>5. bs = [b \in Bucket |-> In(D \ {id}, b)]
  <2>1. t.buckets = [b \in Bucket |-> In(D, b)]
    BY DEF Shape
  <2>2. ASSUME NEW b \in Bucket PROVE bs[b] = In(D \ {id}, b)
    <3>1. CASE b = BucketOf(id)
      <4>1. bs[b] = In(D, b) \ {id}
        BY <2>1, <3>1, <1>4
      <4> QED BY <4>1 DEF In
    <3>2. CASE b # BucketOf(id)
      <4>1. bs[b] = In(D, b)
        BY <2>1, <3>2, <1>4
      <4> QED BY <4>1, <3>2 DEF In
    <3> QED BY <3>1, <3>2
  <2>3. DOMAIN bs = Bucket /\ bs = [b \in Bucket |-> bs[b]]
    BY <2>1
  <2> HIDE DEF bs
  <2> QED BY <2>2, <2>3
<1>6. by \in [D \ {id} -> Nodes] /\ \A x \in D \ {id} : by[x].id = x
  BY <1>3 DEF Shape
<1> HIDE DEF by, bs, u, D
<1>7. DOMAIN u.by = D \ {id}
  BY <1>2, <1>3
<1>8. Shape(u)
  BY <1>1, <1>2, <1>3, <1>4, <1>5, <1>6, <1>7 DEF Shape
<1>9. \A x \in DOMAIN u.by : u.by[x] = t.by[x]
  BY <1>2, <1>3, <1>7
<1> QED BY <1>7, <1>8, <1>9 DEF u, D

\* The new contact is put into the map and into its bucket.
LEMMA AddKeepsShape ==
  ASSUME NEW t, Shape(t), NEW n \in Nodes, n.id \notin DOMAIN t.by, NEW u,
         u = [by |-> [x \in DOMAIN t.by \cup {n.id} |-> IF x = n.id THEN n ELSE t.by[x]],
              buckets |-> [t.buckets EXCEPT ![BucketOf(n.id)] = @ \cup {n.id}]]
  PROVE  /\ Shape(u) /\ DOMAIN u.by = DOMAIN t.by \cup {n.id}
         /\ \A x \in DOMAIN u.by : u.by[x] = IF x = n.id THEN n ELSE t.by[x]
<1> DEFINE D == DOMAIN t.by
           by == [x \in D \cup {n.id} |-> IF x = n.id THEN n ELSE t.by[x]]
           bs == [t.buckets EXCEPT ![BucketOf(n.id)] = @ \cup {n.id}]
<1>1. u = [by |-> by, buckets |-> bs]
  OBVIOUS
<1>2. u.by = by /\ u.buckets = bs
  BY <1>1
<1>3. DOMAIN by = D \cup {n.id} /\ \A x \in D \cup {n.id} : by[x] = IF x = n.id THEN n ELSE t.by[x]
  OBVIOUS
<1>4. D \in SUBSET Ids /\ n.id \in Ids /\ BucketOf(n.id) \in Bucket
  BY BucketOfId, NodeIds DEF Shape
<1>5. bs = [b \in Bucket |-> In(D \cup {n.id}, b)]
  <2>1. t.buckets = [b \in Bucket |-> In(D, b)]
    BY DEF Shape
  <2>2. ASSUME NEW b \in Bucket PROVE bs[b] = In(D \cup {n.id}, b)
    <3>1. CASE b = BucketOf(n.id)
      <4>1. bs[b] = In(D, b) \cup {n.id}
        BY <2>1, <3>1, <1>4
      <4> QED BY <4>1, <3>1 DEF In
    <3>2. CASE b # BucketOf(n.id)
      <4>1. bs[b] = In(D, b)
        BY <2>1, <3>2, <1>4
      <4> QED BY <4>1, <3>2 DEF In
    <3> QED BY <3>1, <3>2
  <2>3. DOMAIN bs = Bucket /\ bs = [b \in Bucket |-> bs[b]]
    BY <2>1
  <2> HIDE DEF bs
  <2> QED BY <2>2, <2>3
<1>6. by \in [D \cup {n.id} -> Nodes] /\ \A x \in D \cup {n.id} : by[x].id = x
  BY <1>3 DEF Shape
<1> HIDE DEF by, bs, D
<1>7. DOMAIN u.by = D \cup {n.id}
  BY <1>2, <1>3
<1>8. Shape(u)
  BY <1>1, <1>2, <1>3, <1>4, <1>5, <1>6, <1>7 DEF Shape
<1>9. \A x \in DOMAIN u.by : u.by[x] = IF x = n.id THEN n ELSE t.by[x]
  BY <1>2, <1>3, <1>7
<1> QED BY <1>7, <1>8, <1>9 DEF D

\* An insert replaces the record of a known node; a new node stays, or the
\* farthest of its bucket or of the table goes.
LEMMA InsertEffect ==
  ASSUME NEW t, Shape(t), Within(DOMAIN t.by), NEW n \in Nodes, NEW u, u = Insert(t, n)
  PROVE  LET D == DOMAIN t.by
             E == DOMAIN u.by
         IN  /\ Shape(u) /\ E \subseteq D \cup {n.id}
             /\ \A x \in E : u.by[x] = IF x = n.id THEN n ELSE t.by[x]
             /\ \/ n.id \in D /\ E = D
                \/ n.id \notin D /\ (AllStay(D, n.id, E) \/ BucketTrimmed(D, n.id, E) \/ TableTrimmed(D, n.id, E))
<1> DEFINE D == DOMAIN t.by
           b == BucketOf(n.id)
           by == [x \in D \cup {n.id} |-> IF x = n.id THEN n ELSE t.by[x]]
           E == DOMAIN u.by
<1>0. D \in SUBSET Ids /\ n.id \in Ids /\ b \in Bucket
  BY BucketOfId, NodeIds DEF Shape
<1>1. CASE n.id \in D
  <2>1. u = [t EXCEPT !.by = by]
    BY <1>1 DEF Insert
  <2>2. t = [by |-> t.by, buckets |-> t.buckets]
    BY DEF Shape
  <2>3. u = [by |-> by, buckets |-> t.buckets]
    BY <2>1, <2>2
  <2>4. D \cup {n.id} = D
    BY <1>1
  <2>5. DOMAIN by = D /\ \A x \in D : by[x] = IF x = n.id THEN n ELSE t.by[x]
    BY <2>4
  <2>6. by \in [D -> Nodes] /\ \A x \in D : by[x].id = x
    BY <2>4, <2>5 DEF Shape
  <2> HIDE DEF by
  <2>7. u.by = by /\ u.buckets = t.buckets /\ E = D
    BY <2>3, <2>5
  <2>8. Shape(u)
    <3>1. t.buckets = [c \in Bucket |-> In(D, c)]
      BY DEF Shape
    <3>2. DOMAIN u.by = D
      BY <2>5, <2>7
    <3> QED BY <2>3, <2>6, <2>7, <3>1, <3>2, <1>0 DEF Shape
  <2> QED BY <1>1, <2>4, <2>5, <2>7, <2>8
<1>2. CASE n.id \notin D
  <2> DEFINE u1 == [by |-> by, buckets |-> [t.buckets EXCEPT ![b] = @ \cup {n.id}]]
             A == D \cup {n.id}
             u2 == TrimBucket(u1, b)
  <2>1. u = EvictOneFarthest(u2)
    BY <1>2 DEF Insert
  <2>2. Shape(u1) /\ DOMAIN u1.by = A /\ \A x \in A : u1.by[x] = IF x = n.id THEN n ELSE t.by[x]
    BY <1>2, AddKeepsShape
  <2>3. A \in SUBSET Ids /\ Cardinality(A) = Cardinality(D) + 1 /\ Cardinality(D) \in Nat
    BY <1>0, <1>2, AddId, IdSets
  <2>4. u1.buckets[b] = In(A, b) /\ In(A, b) \in SUBSET Ids
    BY <1>0, <2>2, <2>3 DEF Shape, In
  <2> HIDE DEF u1
  <2>5. CASE Cardinality(In(A, b)) > K
    <3> DEFINE f == Farthest(In(A, b))
    <3>1. In(A, b) # {}
      BY <2>5, FS_EmptySet, Constants
    <3>2. f \in In(A, b) /\ \A y \in In(A, b) : y <= f
      BY <2>4, <3>1, FarthestOne
    <3>3. f \in A
      BY <3>2 DEF In
    <3>4. u2 = DropContact(u1, f)
      BY <2>4, <2>5 DEF TrimBucket
    <3> HIDE DEF f
    <3>5. /\ Shape(u2) /\ DOMAIN u2.by = A \ {f}
          /\ \A x \in A \ {f} : u2.by[x] = u1.by[x]
      BY <2>2, <3>3, <3>4, DropKeepsShape
    <3>6. Cardinality(A \ {f}) = Cardinality(D)
      <4> HIDE DEF A
      <4>1. Cardinality(A \ {f}) = Cardinality(A) - 1
        BY <2>3, <3>3, IdSets, FS_RemoveElement
      <4> QED BY <4>1, <2>3
    <3> HIDE DEF u2
    <3>7. ~(Cardinality(DOMAIN u2.by) > MaxEntries)
      <4>1. Cardinality(D) <= MaxEntries
        BY DEF Within
      <4> QED BY <4>1, <3>5, <3>6, <2>3, Constants
    <3>8. u = u2
      BY <2>1, <3>7 DEF EvictOneFarthest
    <3>9. BucketTrimmed(D, n.id, A \ {f})
      BY <2>5, <3>2 DEF BucketTrimmed
    <3> QED BY <1>2, <2>2, <3>5, <3>8, <3>9
  <2>6. CASE ~(Cardinality(In(A, b)) > K)
    <3>1. u2 = u1
      BY <2>4, <2>6 DEF TrimBucket
    <3>2. Cardinality(In(A, b)) <= K
      <4> HIDE DEF A
      <4>1. Cardinality(In(A, b)) \in Nat
        BY <2>4, IdSets
      <4> QED BY <4>1, <2>6, Constants
    <3>3. CASE Cardinality(A) > MaxEntries
      <4> DEFINE g == Farthest(A)
      <4>1. g \in A /\ \A y \in A : y <= g
        BY <2>3, FarthestOne
      <4>2. u = DropContact(u1, g)
        BY <2>1, <2>2, <3>1, <3>3 DEF EvictOneFarthest
      <4> HIDE DEF g
      <4>3. Shape(u) /\ E = A \ {g} /\ \A x \in A \ {g} : u.by[x] = u1.by[x]
        BY <2>2, <4>1, <4>2, DropKeepsShape
      <4>4. TableTrimmed(D, n.id, A \ {g})
        BY <3>2, <3>3, <4>1 DEF TableTrimmed
      <4> QED BY <1>2, <2>2, <4>3, <4>4
    <3>4. CASE ~(Cardinality(A) > MaxEntries)
      <4>1. u = u1
        BY <2>1, <2>2, <3>1, <3>4 DEF EvictOneFarthest
      <4>2. AllStay(D, n.id, A)
        BY <2>3, <3>2, <3>4, Constants DEF AllStay
      <4> QED BY <1>2, <2>2, <4>1, <4>2
    <3> QED BY <3>3, <3>4
  <2> QED BY <2>5, <2>6
<1> QED BY <1>1, <1>2

-----------------------------------------------------------------------------
\* The loops.

\* What a loop still has to insert passed the filters of its session.
JobOK(j) ==
  /\ {"by", "todo", "batch"} \subseteq DOMAIN j
  /\ j.todo \in Seq(Admitted(j.by)) /\ j.batch \in Seq(Admitted(j.by))
JobsOK == job = [w \in Job |-> job[w]] /\ \A w \in Job : JobOK(job[w])

NearestInv ==
  /\ Shape(table) /\ Within(DOMAIN table.by) /\ inserted \in SUBSET Ids
  /\ \A id \in inserted \ DOMAIN table.by : NearIn(DOMAIN table.by, id)
AdmittedInv == \A id \in DOMAIN table.by : Admits(put[id], table.by[id])
TableInv == JobsOK /\ NearestInv /\ AdmittedInv

LEMMA TableStarts == TableInit => TableInv
<1> SUFFICES ASSUME TableInit PROVE TableInv
  OBVIOUS
<1>1. JobOK(Idle)
  <2>1. <<>> \in Seq(Admitted(AnyNode))
    OBVIOUS
  <2> QED BY <2>1 DEF JobOK, Idle
<1>2. JobsOK
  BY <1>1 DEF TableInit, JobsOK
<1>3. /\ table = [by |-> <<>>, buckets |-> [b \in Bucket |-> {}]]
      /\ table.by = <<>> /\ DOMAIN table.by = {} /\ inserted = {}
  BY DEF TableInit
<1>4. \A b \in Bucket : In({}, b) = {}
  BY DEF In
<1>5. Within({})
  BY <1>4, FS_EmptySet, Constants DEF Within
<1>6. Shape(table)
  <2>1. table.buckets = [b \in Bucket |-> In({}, b)]
    BY <1>3, <1>4
  <2>2. table.by \in [{} -> Nodes]
    BY <1>3
  <2>3. table = [by |-> table.by, buckets |-> table.buckets]
    BY <1>3
  <2> QED BY <1>3, <2>1, <2>2, <2>3 DEF Shape
<1> QED BY <1>2, <1>3, <1>5, <1>6 DEF TableInv, NearestInv, AdmittedInv

\* A loop moves and leaves the table alone.
LEMMA JobMoves ==
  ASSUME TableInv, NEW w \in Job, NEW j, JobOK(j), job' = [job EXCEPT ![w] = j],
         UNCHANGED <<table, inserted, put>>
  PROVE  TableInv'
<1>1. JobsOK'
  BY DEF TableInv, JobsOK
<1> QED BY <1>1 DEF TableInv, NearestInv, AdmittedInv

\* What is asked for is a sequence of nodes.
LEMMA AnswersAreNodes == \A ans \in Answers : ans \in Seq(Nodes)
<1> SUFFICES ASSUME NEW s \in {<<>>} \cup {<<n>> : n \in Nodes}, NEW k \in Nat PROVE FindNodeResp(s, k) \in Seq(Nodes)
  <2>1. KByte(FindK) \in Nat
    BY TableAssumption DEF KByte
  <2> QED BY <2>1 DEF Answers
<1>1. s \in Seq(Nodes) /\ Len(s) \in Nat
  <2>1. ASSUME NEW n \in Nodes PROVE <<n>> \in Seq(Nodes)
    OBVIOUS
  <2>2. <<>> \in Seq(Nodes)
    OBVIOUS
  <2>3. s \in Seq(Nodes)
    BY <2>1, <2>2
  <2> QED BY <2>3, LenProperties
<1> DEFINE m == IF k < Len(s) THEN k ELSE Len(s)
<1>2. m \in Nat /\ m <= Len(s)
  BY <1>1
<1> HIDE DEF m
<1>3. \A i \in 1 .. m : s[i] \in Nodes
  BY <1>1, <1>2
<1>4. SubSeq(s, 1, m) \in Seq(Nodes)
  BY <1>1, <1>2, <1>3, SubSeqProperties
<1> QED BY <1>4 DEF FindNodeResp, m

\* A loop starts with what its source delivered, filtered.
LEMMA StartKeeps ==
  ASSUME TableInv, NEW w \in Job, NEW j, Start(w, j), NEW todo \in Seq(Admitted(profile)),
         {"by", "todo", "batch"} \subseteq DOMAIN j, j.todo = todo, j.batch = <<>>
  PROVE  TableInv'
<1> DEFINE i == [j EXCEPT !.by = profile]
<1>1. job' = [job EXCEPT ![w] = i] /\ UNCHANGED <<table, inserted, put>>
  BY DEF Start
<1>2. JobOK(i)
  <2>1. /\ {"by", "todo", "batch"} \subseteq DOMAIN i
        /\ i.by = profile /\ i.todo = todo /\ i.batch = <<>>
    OBVIOUS
  <2>2. <<>> \in Seq(Admitted(profile))
    OBVIOUS
  <2> QED BY <2>1, <2>2 DEF JobOK
<1> HIDE DEF i
<1> QED BY <1>1, <1>2, JobMoves

LEMMA BootstrapKeeps == ASSUME TableInv, NEW w \in Job, BootstrapOnce(w) PROVE TableInv'
<1>1. PICK list \in VerifiedLists : Start(w, [Idle EXCEPT !.kind = "merge", !.todo = Filter(profile, list)])
  BY DEF BootstrapOnce
<1>2. list \in Seq(Nodes)
  <2>1. ASSUME NEW n \in Nodes PROVE <<n>> \in Seq(Nodes)
    OBVIOUS
  <2> QED BY <2>1 DEF VerifiedLists
<1>3. Filter(profile, list) \in Seq(Admitted(profile))
  BY <1>2, FilterAdmits
<1> DEFINE t == Filter(profile, list)
           j == [Idle EXCEPT !.kind = "merge", !.todo = t]
<1>4. {"by", "todo", "batch"} \subseteq DOMAIN j /\ j.todo = t /\ j.batch = <<>>
  BY DEF Idle
<1>5. Start(w, j) /\ t \in Seq(Admitted(profile))
  BY <1>1, <1>3
<1> HIDE DEF j, t
<1> QED BY <1>4, <1>5, StartKeeps

LEMMA GossipKeeps == ASSUME TableInv, NEW w \in Job, GossipOnce(w) PROVE TableInv'
<1>0. PICK gossip \in FetchGossipHTTP, found \in FetchFindNearest :
        \E merged \in SetToSeqs(MergeGossip(MergeGossip({}, gossip), found)) :
          Start(w, [Idle EXCEPT !.kind = "merge", !.todo = Filter(profile, merged)])
  BY DEF GossipOnce
<1>1. PICK merged \in SetToSeqs(MergeGossip(MergeGossip({}, gossip), found)) :
        Start(w, [Idle EXCEPT !.kind = "merge", !.todo = Filter(profile, merged)])
  BY <1>0
<1> DEFINE M == MergeGossip(MergeGossip({}, gossip), found)
<1>2. gossip \cup found \subseteq Nodes /\ IsFiniteSet(gossip) /\ IsFiniteSet(found)
  <2>1. \A n \in Nodes : IsFiniteSet({n}) /\ {n} \subseteq Nodes
    BY FS_Singleton
  <2>2. \A S \in {{}} \cup {{n} : n \in Nodes} : IsFiniteSet(S) /\ S \subseteq Nodes
    BY <2>1, FS_EmptySet
  <2> QED BY <2>2 DEF FetchGossipHTTP, FetchFindNearest
<1>3. M \subseteq gossip \cup found
  BY DEF MergeGossip
<1>4. IsFiniteSet(M)
  <2>1. IsFiniteSet(gossip \cup found)
    BY <1>2, FS_Union
  <2> QED BY <2>1, <1>3, FS_Subset
<1>5. Cardinality(M) \in Nat
  BY <1>4, FS_CardinalityType
<1>6. merged \in [1 .. Cardinality(M) -> M]
  BY DEF SetToSeqs
<1> HIDE DEF M
<1>7. merged \in Seq(Nodes)
  <2>1. merged \in [1 .. Cardinality(M) -> Nodes]
    BY <1>2, <1>3, <1>6
  <2> QED BY <2>1, <1>5
<1>8. Filter(profile, merged) \in Seq(Admitted(profile))
  BY <1>7, FilterAdmits
<1> DEFINE t == Filter(profile, merged)
           j == [Idle EXCEPT !.kind = "merge", !.todo = t]
<1>9. {"by", "todo", "batch"} \subseteq DOMAIN j /\ j.todo = t /\ j.batch = <<>>
  BY DEF Idle
<1>10. Start(w, j) /\ t \in Seq(Admitted(profile))
  BY <1>1, <1>8 DEF M
<1> HIDE DEF j, t
<1> QED BY <1>9, <1>10, StartKeeps

LEMMA ProbeStartKeeps == ASSUME TableInv, NEW w \in Job, StartProbe(w) \/ StartSearch(w) PROVE TableInv'
<1>1. PICK k \in {"probe", "search"} : Start(w, [Idle EXCEPT !.kind = k, !.addrs = DhtRPCSeeds])
  BY DEF StartProbe, StartSearch
<1> DEFINE a == DhtRPCSeeds
           j == [Idle EXCEPT !.kind = k, !.addrs = a]
<1>2. {"by", "todo", "batch"} \subseteq DOMAIN j /\ j.todo = <<>> /\ j.batch = <<>>
  BY DEF Idle
<1>3. <<>> \in Seq(Admitted(profile))
  OBVIOUS
<1>4. Start(w, j)
  BY <1>1
<1> HIDE DEF j
<1> QED BY <1>2, <1>3, <1>4, StartKeeps

LEMMA ProbeKeeps == ASSUME TableInv, NEW w \in Job, ProbeNext(w) PROVE TableInv'
<1> DEFINE j == job[w]
<1>1. PICK ans \in Answers : job' = [job EXCEPT ![w].addrs = Tail(j.addrs), ![w].todo = Filter(j.by, ans)]
  BY DEF ProbeNext
<1>2. UNCHANGED <<table, inserted, put>>
  BY DEF ProbeNext, KeepTable
<1>3. Filter(j.by, ans) \in Seq(Admitted(j.by))
  BY AnswersAreNodes, FilterAdmits
<1> DEFINE a == Tail(j.addrs)
           t == Filter(j.by, ans)
           i == [j EXCEPT !.addrs = a, !.todo = t]
<1>a. a = Tail(j.addrs) /\ t = Filter(j.by, ans)
  OBVIOUS
<1> HIDE DEF a, t
<1>4. job' = [job EXCEPT ![w] = i]
  BY <1>1, <1>a DEF TableInv, JobsOK
<1>5. JobOK(i)
  BY <1>3, <1>a DEF TableInv, JobsOK, JobOK
<1> HIDE DEF i
<1> QED BY <1>2, <1>4, <1>5, JobMoves

LEMMA RoundKeeps == ASSUME TableInv, NEW w \in Job, NextRound(w) PROVE TableInv'
<1> DEFINE j == job[w]
           next == PickQueryAddrs(j)
           q == {<<k, next[k]>> : k \in 1 .. Len(next)}
           s == j.seen \cup ToSet(next)
           r == j.round + 1
           i == [j EXCEPT !.asked = q, !.seen = s, !.round = r]
<1>1. job' = [job EXCEPT ![w].asked = q, ![w].seen = s, ![w].round = r]
  BY DEF NextRound
<1>2. UNCHANGED <<table, inserted, put>>
  BY DEF NextRound, KeepTable
<1> HIDE DEF q, s, r
<1>4. job' = [job EXCEPT ![w] = i]
  BY <1>1 DEF TableInv, JobsOK
<1>5. JobOK(i)
  BY DEF TableInv, JobsOK, JobOK
<1> HIDE DEF i
<1> QED BY <1>2, <1>4, <1>5, JobMoves

LEMMA AnsweredKeeps == ASSUME TableInv, NEW w \in Job, NEW a, NEW ans \in Answers, Answered(w, a, ans) PROVE TableInv'
<1> DEFINE j == job[w]
           batch == j.batch \o Filter(j.by, ans)
           last == j.asked = {a}
           q == j.asked \ {a}
           b == IF last THEN <<>> ELSE batch
           t == IF last THEN batch ELSE <<>>
           i == [j EXCEPT !.asked = q, !.batch = b, !.todo = t]
<1>1. job' = [job EXCEPT ![w].asked = q, ![w].batch = b, ![w].todo = t]
  BY DEF Answered
<1>2. UNCHANGED <<table, inserted, put>>
  BY DEF Answered, KeepTable
<1>3. batch \in Seq(Admitted(j.by))
  <2>1. Filter(j.by, ans) \in Seq(Admitted(j.by)) /\ j.batch \in Seq(Admitted(j.by))
    BY AnswersAreNodes, FilterAdmits DEF TableInv, JobsOK, JobOK
  <2> QED BY <2>1, ConcatProperties
<1> HIDE DEF batch
<1>4. b \in Seq(Admitted(j.by)) /\ t \in Seq(Admitted(j.by))
  <2>1. <<>> \in Seq(Admitted(j.by))
    OBVIOUS
  <2> QED BY <2>1, <1>3
<1> HIDE DEF q, b, t
<1>5. job' = [job EXCEPT ![w] = i]
  BY <1>1 DEF TableInv, JobsOK
<1>6. JobOK(i)
  BY <1>4 DEF TableInv, JobsOK, JobOK
<1> HIDE DEF i
<1> QED BY <1>2, <1>5, <1>6, JobMoves

LEMMA JobEndsKeeps == ASSUME TableInv, NEW w \in Job, JobEnds(w) PROVE TableInv'
<1>1. job' = [job EXCEPT ![w] = Idle] /\ UNCHANGED <<table, inserted, put>>
  BY DEF JobEnds, KeepTable
<1>2. JobOK(Idle)
  <2>1. <<>> \in Seq(Admitted(AnyNode))
    OBVIOUS
  <2> QED BY <2>1 DEF JobOK, Idle
<1> QED BY <1>1, <1>2, JobMoves

\* The one step that changes the table.
LEMMA MergeKeeps == ASSUME TableInv, NEW w \in Job, MergeNext(w) PROVE TableInv'
<1> DEFINE j == job[w]
           n == Head(j.todo)
           u == Insert(table, n)
           D == DOMAIN table.by
           E == DOMAIN u.by
           rest == Tail(j.todo)
           i == [j EXCEPT !.todo = rest]
<1>1. /\ j.todo # <<>> /\ table' = u /\ job' = [job EXCEPT ![w].todo = rest]
      /\ inserted' = inserted \cup {n.id}
      /\ put' = [x \in E |-> IF x = n.id THEN j.by ELSE put[x]]
  BY DEF MergeNext
<1>2. n \in Admitted(j.by) /\ rest \in Seq(Admitted(j.by))
  BY <1>1, HeadTailProperties DEF TableInv, JobsOK, JobOK
<1>3. n \in Nodes /\ Admits(j.by, n) /\ n.id \in Ids
  BY <1>2, NodeIds DEF Admitted
<1> HIDE DEF rest, n
<1>4. JobsOK'
  <2>1. job' = [job EXCEPT ![w] = i]
    BY <1>1 DEF TableInv, JobsOK
  <2>2. JobOK(i)
    BY <1>2 DEF TableInv, JobsOK, JobOK
  <2> HIDE DEF i
  <2> QED BY <2>1, <2>2 DEF TableInv, JobsOK
<1>a. u = Insert(table, n) /\ Shape(table) /\ Within(D) /\ inserted \in SUBSET Ids
  BY DEF TableInv, NearestInv
<1> HIDE DEF u
<1>5. /\ Shape(u) /\ E \subseteq D \cup {n.id}
      /\ \A x \in E : u.by[x] = IF x = n.id THEN n ELSE table.by[x]
      /\ \/ n.id \in D /\ E = D
         \/ n.id \notin D /\ (AllStay(D, n.id, E) \/ BucketTrimmed(D, n.id, E) \/ TableTrimmed(D, n.id, E))
  BY <1>a, <1>3, InsertEffect
<1>6. AdmittedInv'
  <2> SUFFICES ASSUME NEW id \in E PROVE Admits(put'[id], u.by[id])
    BY <1>1 DEF AdmittedInv
  <2>1. CASE id = n.id
    <3>1. put'[id] = j.by /\ u.by[id] = n
      BY <2>1, <1>1, <1>5
    <3> QED BY <3>1, <1>3
  <2>2. CASE id # n.id
    <3>1. id \in D /\ put'[id] = put[id] /\ u.by[id] = table.by[id]
      BY <2>2, <1>1, <1>5
    <3> QED BY <3>1 DEF TableInv, AdmittedInv
  <2> QED BY <2>1, <2>2
<1>7. D \in SUBSET Ids /\ E \in SUBSET Ids
  BY <1>a, <1>5 DEF Shape
<1>8. \A id \in inserted \ D : NearIn(D, id)
  BY DEF TableInv, NearestInv
<1>9. Within(E) /\ \A id \in (inserted \cup {n.id}) \ E : NearIn(E, id)
  <2> HIDE DEF D, E
  <2>1. CASE n.id \in D /\ E = D
    BY <2>1, <1>8, <1>a
  <2>2. CASE n.id \notin D /\ AllStay(D, n.id, E)
    <3>1. Within(E) /\ \A id \in Ids \ E : NearIn(D, id) => NearIn(E, id)
      BY <2>2, <1>3, <1>7, <1>a, StayKeeps
    <3>2. n.id \in E /\ D \subseteq E
      BY <2>2 DEF AllStay
    <3> QED BY <3>1, <3>2, <1>8, <1>a
  <2>3. CASE n.id \notin D /\ BucketTrimmed(D, n.id, E)
    <3>1. Within(E) /\ \A id \in Ids \ E : (id \notin D \cup {n.id} => NearIn(D, id)) => NearIn(E, id)
      BY <2>3, <1>3, <1>7, <1>a, BucketTrimKeeps
    <3> QED BY <3>1, <1>3, <1>8, <1>a
  <2>4. CASE n.id \notin D /\ TableTrimmed(D, n.id, E)
    <3>1. Within(E) /\ \A id \in Ids \ E : (id \notin D \cup {n.id} => NearIn(D, id)) => NearIn(E, id)
      BY <2>4, <1>3, <1>7, <1>a, TableTrimKeeps
    <3> QED BY <3>1, <1>3, <1>8, <1>a
  <2> QED BY <2>1, <2>2, <2>3, <2>4, <1>5 DEF D, E
<1>10. NearestInv'
  <2>1. inserted' \in SUBSET Ids
    BY <1>1, <1>3, <1>a
  <2> QED BY <2>1, <1>1, <1>5, <1>9 DEF NearestInv
<1> QED BY <1>4, <1>6, <1>10 DEF TableInv

LEMMA TableStep == TableInv /\ [TableNext]_tableVars => TableInv'
<1> SUFFICES ASSUME TableInv, [TableNext]_tableVars PROVE TableInv'
  OBVIOUS
<1>1. CASE NewSession
  BY <1>1 DEF NewSession, TableInv, JobsOK, NearestInv, AdmittedInv
<1>2. CASE UNCHANGED tableVars
  BY <1>2 DEF tableVars, TableInv, JobsOK, NearestInv, AdmittedInv
<1>3. ASSUME NEW w \in Job,
             \/ BootstrapOnce(w) \/ GossipOnce(w) \/ StartProbe(w) \/ StartSearch(w)
             \/ ProbeNext(w) \/ NextRound(w) \/ MergeNext(w) \/ JobEnds(w)
             \/ \E a \in job[w].asked, ans \in Answers : Answered(w, a, ans)
      PROVE  TableInv'
  BY <1>3, BootstrapKeeps, GossipKeeps, ProbeStartKeeps, ProbeKeeps, RoundKeeps, MergeKeeps, JobEndsKeeps, AnsweredKeeps
<1> QED BY <1>1, <1>2, <1>3 DEF TableNext

TableSpec == TableInit /\ [][TableNext]_tableVars

\* The inductive invariant of the table and of what the loops are about to
\* insert (table.go, applyRelayProductFilters).
THEOREM TableInvariant == TableSpec => []TableInv
BY TableStarts, TableStep, PTL DEF TableSpec

\* placeInBucketLocked, trimBucketLocked and evictOneFarthestLocked: whatever
\* the loops insert, in any order, a node is missing from the table only where
\* nearer ones fill its bucket or the table.
THEOREM TableKeepsNearest == TableSpec => []KeepsNearest
<1>1. TableInv => KeepsNearest
  <2> SUFFICES ASSUME TableInv PROVE KeepsNearest
    OBVIOUS
  <2>1. \A b \in Bucket : table.buckets[b] = In(DOMAIN table.by, b)
    BY DEF TableInv, NearestInv, Shape
  <2>2. ASSUME NEW id \in inserted \ DOMAIN table.by
        PROVE  \/ Cardinality(Closer(table.buckets[BucketOf(id)], id)) >= K
               \/ Cardinality(Closer(DOMAIN table.by, id)) >= MaxEntries
    <3>1. NearIn(DOMAIN table.by, id) /\ BucketOf(id) \in Bucket
      BY BucketOfId DEF TableInv, NearestInv
    <3> QED BY <3>1, <2>1 DEF NearIn
  <2> QED BY <2>1, <2>2 DEF KeepsNearest, In
<1> QED BY <1>1, TableInvariant, PTL

\* applyRelayProductFilters, applied before every Merge: each entry passed the
\* filters of the session that put it there.
THEOREM TableIsAdmitted == TableSpec => []OnlyAdmitted
<1>1. TableInv => OnlyAdmitted
  BY DEF TableInv, AdmittedInv, OnlyAdmitted
<1> QED BY <1>1, TableInvariant, PTL

-----------------------------------------------------------------------------
\* The messages kept at the seeds (ControlPlane).

\* What the sender handles in a round was created in it, so a record expires
\* when its message does, and a message is found only while it lives.
ThisRound == {m \in Message : Created(m) = clock}

RecordsOK(db) ==
  /\ IsFiniteSet(DOMAIN db) /\ Cardinality(DOMAIN db) <= KVMaxKeys
  /\ \A k \in DOMAIN db : /\ db[k].v \in Message /\ Created(db[k].v) <= clock
                          /\ db[k].exp = Created(db[k].v) + MsgTtl

SenderInv ==
  /\ clock \in 0 .. MaxClock /\ due \in BOOLEAN
  /\ queue \in Seq(ThisRound) /\ (~due => queue = <<>>)
  /\ flushing = [msgs |-> flushing.msgs, left |-> flushing.left]
  /\ flushing.msgs \in Seq(ThisRound) /\ flushing.left \subseteq CpSeed
  /\ \A st \in astray : st.seed \in CpSeed /\ st.m \in ThisRound

StoresInv == kv = [s \in CpSeed |-> kv[s]] /\ \A s \in CpSeed : RecordsOK(kv[s])

\* A message was first seen while it lived; as long as it lives, the reader
\* remembers every message it has counted.
SeenInv ==
  /\ DOMAIN seen \subseteq Message
  /\ \A m \in DOMAIN seen : /\ seen[m] \in Nat /\ seen[m] <= clock
                            /\ Created(m) <= seen[m] /\ seen[m] <= Created(m) + MsgTtl
  /\ counted \in [Message -> {0, 1}]
  /\ \A m \in Message : counted[m] = 1 /\ clock <= Created(m) + MsgTtl => m \in DOMAIN seen

ControlInv == SenderInv /\ StoresInv /\ SeenInv

LEMMA CreatedIsNat == \A m \in Message : Created(m) \in Nat /\ m <= Created(m) + 1 /\ Created(m) <= m
BY ControlAssumption DEF Message, Created

LEMMA MessagesFinite == IsFiniteSet(Message)
BY ControlAssumption, FS_Interval DEF Message

LEMMA ControlStarts == CpInit => ControlInv
<1> SUFFICES ASSUME CpInit PROVE ControlInv
  OBVIOUS
<1>1. 0 \in ThisRound
  BY ControlAssumption DEF ThisRound, Message, Created, CpInit
<1>2. SenderInv
  <2>1. <<0>> \in Seq(ThisRound) /\ <<>> \in Seq(ThisRound)
    BY <1>1
  <2>2. clock \in 0 .. MaxClock /\ due = TRUE /\ queue = <<0>> /\ astray = {} /\ flushing = [msgs |-> <<>>, left |-> CpSeed]
    BY ControlAssumption DEF CpInit
  <2> QED BY <2>1, <2>2 DEF SenderInv
<1>3. StoresInv
  <2>1. \A s \in CpSeed : DOMAIN kv[s] = {}
    BY DEF CpInit
  <2>2. \A s \in CpSeed : RecordsOK(kv[s])
    BY <2>1, FS_EmptySet, ControlAssumption DEF RecordsOK
  <2> QED BY <2>2 DEF StoresInv, CpInit
<1>4. SeenInv
  BY DEF SeenInv, CpInit
<1> QED BY <1>2, <1>3, <1>4 DEF ControlInv

\* A store with room for one more is not outgrown by a key that comes in.
LEMMA PutKeeps ==
  ASSUME NEW db, NEW key, NEW m \in ThisRound, clock \in Nat, RecordsOK(db), NEW d \in Put(db, key, m)
  PROVE  RecordsOK(d)
<1> DEFINE rec == [v |-> m, exp |-> clock + MsgTtl]
           full == Cardinality(DOMAIN db) >= KVMaxKeys
           rooms == IF full THEN Evicted(db, key) ELSE {db}
<1>0. /\ KVMaxKeys \in Nat \ {0} /\ MsgTtl \in Nat /\ Cardinality(DOMAIN db) \in Nat /\ IsFiniteSet(DOMAIN db)
      /\ m \in Message /\ Created(m) = clock
  BY ControlAssumption, FS_CardinalityType DEF RecordsOK, ThisRound
<1>1. d = db \/ \E r \in rooms : d = [k \in DOMAIN r \cup {key} |-> IF k = key THEN rec ELSE r[k]]
  BY DEF Put
<1>2. CASE d = db
  BY <1>2
<1>3. ASSUME NEW r \in rooms, d = [k \in DOMAIN r \cup {key} |-> IF k = key THEN rec ELSE r[k]]
      PROVE  RecordsOK(d)
  <2>1. /\ DOMAIN r \subseteq DOMAIN db /\ \A k \in DOMAIN r : r[k] = db[k]
        /\ full => \E o \in DOMAIN db \ {key} : DOMAIN r = DOMAIN db \ {o}
    <3>1. CASE full
      <4>1. PICK o \in DOMAIN db \ {key} : r = WithoutKey(db, o)
        BY <3>1, <1>3 DEF Evicted
      <4> QED BY <4>1 DEF WithoutKey
    <3>2. CASE ~full
      BY <3>2, <1>3
    <3> QED BY <3>1, <3>2
  <2>2. IsFiniteSet(DOMAIN r) /\ Cardinality(DOMAIN r) \in Nat /\ Cardinality(DOMAIN r) + 1 <= KVMaxKeys
    <3>1. IsFiniteSet(DOMAIN r) /\ Cardinality(DOMAIN r) <= Cardinality(DOMAIN db)
      BY <2>1, <1>0, FS_Subset
    <3>2. Cardinality(DOMAIN r) \in Nat
      BY <3>1, FS_CardinalityType
    <3>3. CASE full
      <4>1. PICK o \in DOMAIN db \ {key} : DOMAIN r = DOMAIN db \ {o}
        BY <2>1, <3>3
      <4>2. Cardinality(DOMAIN r) = Cardinality(DOMAIN db) - 1
        <5> HIDE DEF full, rooms, rec
        <5>1. Cardinality(DOMAIN db \ {o}) = Cardinality(DOMAIN db) - 1
          BY <1>0, FS_RemoveElement
        <5> QED BY <5>1, <4>1
      <4>3. Cardinality(DOMAIN db) <= KVMaxKeys
        BY DEF RecordsOK
      <4> HIDE DEF full
      <4> QED BY <4>2, <4>3, <3>1, <3>2, <1>0
    <3>4. CASE ~full
      BY <3>1, <3>2, <3>4, <1>0
    <3> QED BY <3>3, <3>4
  <2>3. IsFiniteSet(DOMAIN d) /\ Cardinality(DOMAIN d) <= KVMaxKeys
    <3>1. DOMAIN d = DOMAIN r \cup {key}
      BY <1>3
    <3>2. IsFiniteSet(DOMAIN d) /\ (Cardinality(DOMAIN d) = Cardinality(DOMAIN r) \/ Cardinality(DOMAIN d) = Cardinality(DOMAIN r) + 1)
      BY <3>1, <2>2, FS_AddElement
    <3> QED BY <3>2, <2>2, <1>0
  <2>4. ASSUME NEW k \in DOMAIN d
        PROVE  d[k].v \in Message /\ Created(d[k].v) <= clock /\ d[k].exp = Created(d[k].v) + MsgTtl
    <3>1. CASE k = key
      <4>1. d[k] = rec /\ rec.v = m /\ rec.exp = clock + MsgTtl
        BY <1>3, <3>1
      <4> HIDE DEF rec
      <4> QED BY <4>1, <1>0
    <3>2. CASE k # key
      <4>1. k \in DOMAIN r /\ d[k] = r[k]
        BY <1>3, <3>2
      <4> QED BY <4>1, <2>1 DEF RecordsOK
    <3> QED BY <3>1, <3>2
  <2> QED BY <2>3, <2>4 DEF RecordsOK
<1> QED BY <1>1, <1>2, <1>3

LEMMA DropKeyKeeps == ASSUME NEW db, NEW key, RecordsOK(db), clock \in Nat PROVE RecordsOK(Got(db, key))
<1>1. CASE Got(db, key) = db
  BY <1>1
<1>2. CASE Got(db, key) = WithoutKey(db, key)
  <2>1. DOMAIN WithoutKey(db, key) \subseteq DOMAIN db /\ \A k \in DOMAIN WithoutKey(db, key) : WithoutKey(db, key)[k] = db[k]
    BY DEF WithoutKey
  <2>2. /\ IsFiniteSet(DOMAIN WithoutKey(db, key))
        /\ Cardinality(DOMAIN WithoutKey(db, key)) <= Cardinality(DOMAIN db)
    BY <2>1, FS_Subset DEF RecordsOK
  <2>3. Cardinality(DOMAIN WithoutKey(db, key)) \in Nat /\ Cardinality(DOMAIN db) \in Nat
    BY <2>2, FS_CardinalityType DEF RecordsOK
  <2> QED BY <1>2, <2>1, <2>2, <2>3, ControlAssumption DEF RecordsOK
<1> QED BY <1>1, <1>2 DEF Got

LEMMA FlushTickKeeps == ASSUME ControlInv, FlushTick PROVE ControlInv'
<1>0. /\ queue \in Seq(ThisRound) /\ queue' = <<>> /\ due' = FALSE
      /\ clock' = clock /\ clock \in 0 .. MaxClock /\ kv' = kv /\ astray' = astray /\ seen' = seen /\ counted' = counted
      /\ flushing' = [flushing EXCEPT !.msgs = Append(queue, clock + 1)]
  BY DEF FlushTick, ControlInv, SenderInv
<1>1. ThisRound' = ThisRound
  BY <1>0 DEF ThisRound
<1>2. clock + 1 \in ThisRound
  <2>1. clock + 1 \in Message /\ clock + 1 # 0 /\ clock + 1 - 1 = clock
    BY <1>0, ControlAssumption DEF Message
  <2>2. Created(clock + 1) = clock
    BY <1>0, <2>1 DEF Created
  <2> QED BY <2>1, <2>2 DEF ThisRound
<1> DEFINE q == Append(queue, clock + 1)
<1>3. q \in Seq(ThisRound)
  BY <1>0, <1>2, AppendProperties
<1> HIDE DEF q
<1>4. /\ flushing' = [msgs |-> flushing'.msgs, left |-> flushing'.left]
      /\ flushing'.msgs = q /\ flushing'.left = flushing.left
  BY <1>0 DEF ControlInv, SenderInv, q
<1>5. SenderInv'
  <2>1. <<>> \in Seq(ThisRound) /\ flushing.left \subseteq CpSeed
        /\ \A st \in astray : st.seed \in CpSeed /\ st.m \in ThisRound
    BY DEF ControlInv, SenderInv
  <2> QED BY <1>0, <1>1, <1>3, <1>4, <2>1 DEF SenderInv
<1>6. StoresInv'
  BY <1>0 DEF ControlInv, StoresInv, RecordsOK
<1>7. SeenInv'
  BY <1>0 DEF ControlInv, SeenInv
<1> QED BY <1>5, <1>6, <1>7 DEF ControlInv

LEMMA StoresSet ==
  ASSUME StoresInv, NEW s \in CpSeed, NEW db, RecordsOK(db), clock' = clock, kv' = [kv EXCEPT ![s] = db]
  PROVE  StoresInv'
<1>1. \A x \in CpSeed : RecordsOK(kv'[x])
  BY DEF StoresInv
<1>2. \A x \in CpSeed : RecordsOK(kv[x])'
  BY <1>1 DEF RecordsOK
<1> QED BY <1>2 DEF StoresInv

LEMMA FlushNextKeeps == ASSUME ControlInv, FlushNext PROVE ControlInv'
<1>1. PICK s \in flushing.left :
        /\ flushing.msgs # <<>>
        /\ flushing' = IF flushing.left = {s} THEN [msgs |-> Tail(flushing.msgs), left |-> CpSeed]
                       ELSE [flushing EXCEPT !.left = @ \ {s}]
        /\ LET m == Head(flushing.msgs)
           IN  IF Created(m) + MsgTtl <= clock
                 THEN UNCHANGED <<kv, astray>>
                 ELSE \E own \in {kv[s]} \cup Put(kv[s], m, m) :
                        \/ \E db \in Put(own, Head0, m) : kv' = [kv EXCEPT ![s] = db] /\ UNCHANGED astray
                        \/ kv' = [kv EXCEPT ![s] = own] /\ UNCHANGED astray
                        \/ Cardinality(astray) < MaxAstray /\ kv' = [kv EXCEPT ![s] = own] /\ astray' = astray \cup {[seed |-> s, m |-> m]}
        /\ UNCHANGED <<clock, due, queue, seen, counted>>
  BY DEF FlushNext
<1> DEFINE m == Head(flushing.msgs)
           rest == Tail(flushing.msgs)
<1>2. m \in ThisRound /\ rest \in Seq(ThisRound) /\ clock \in Nat /\ s \in CpSeed /\ RecordsOK(kv[s])
  BY <1>1, HeadTailProperties, ControlAssumption DEF ControlInv, SenderInv, StoresInv
<1>3. ThisRound' = ThisRound /\ clock' = clock
  BY <1>1 DEF ThisRound
<1>4. /\ flushing' = [msgs |-> flushing'.msgs, left |-> flushing'.left]
      /\ flushing'.msgs \in {flushing.msgs, rest} /\ flushing'.left \subseteq CpSeed
  <2> HIDE DEF rest
  <2>1. CASE flushing.left = {s}
    BY <1>1, <2>1 DEF rest
  <2>2. CASE flushing.left # {s}
    BY <1>1, <2>2 DEF ControlInv, SenderInv
  <2> QED BY <2>1, <2>2
<1>5. StoresInv' /\ \A st \in astray' : st.seed \in CpSeed /\ st.m \in ThisRound
  <2>1. \A st \in astray : st.seed \in CpSeed /\ st.m \in ThisRound
    BY DEF ControlInv, SenderInv
  <2>2. CASE UNCHANGED <<kv, astray>>
    BY <2>1, <2>2, <1>3 DEF ControlInv, StoresInv, RecordsOK
  <2>3. CASE ~UNCHANGED <<kv, astray>>
    <3> HIDE DEF m
    <3>1. PICK own \in {kv[s]} \cup Put(kv[s], m, m) :
            \/ \E db \in Put(own, Head0, m) : kv' = [kv EXCEPT ![s] = db] /\ UNCHANGED astray
            \/ kv' = [kv EXCEPT ![s] = own] /\ UNCHANGED astray
            \/ kv' = [kv EXCEPT ![s] = own] /\ astray' = astray \cup {[seed |-> s, m |-> m]}
      BY <1>1, <2>3 DEF m
    <3>2. RecordsOK(own)
      BY <1>2, PutKeeps
    <3>3. \A db \in Put(own, Head0, m) : RecordsOK(db)
      BY <1>2, <3>2, PutKeeps
    <3>4. \E db : RecordsOK(db) /\ kv' = [kv EXCEPT ![s] = db]
      BY <3>1, <3>2, <3>3
    <3>5. StoresInv'
      BY <3>4, <1>2, <1>3, StoresSet DEF ControlInv
    <3>6. astray' \subseteq astray \cup {[seed |-> s, m |-> m]}
      BY <3>1
    <3> QED BY <3>5, <3>6, <2>1, <1>2
  <2> QED BY <2>2, <2>3
<1>6. SenderInv'
  BY <1>1, <1>2, <1>3, <1>4, <1>5 DEF ControlInv, SenderInv
<1>7. SeenInv'
  BY <1>1 DEF ControlInv, SeenInv
<1> QED BY <1>5, <1>6, <1>7 DEF ControlInv

LEMMA LateStoreKeeps == ASSUME ControlInv, LateStore PROVE ControlInv'
<1>1. PICK st \in astray :
      /\ astray' = astray \ {st}
      /\ kv' = kv \/ ServeStore(st.seed, Head0, st.m)
      /\ UNCHANGED <<clock, due, queue, flushing, seen, counted>>
  BY DEF LateStore
<1>2. st.seed \in CpSeed /\ st.m \in ThisRound /\ clock \in Nat
  BY ControlAssumption DEF ControlInv, SenderInv
<1>3. StoresInv'
  <2>1. CASE kv' = kv
    BY <1>1, <2>1 DEF ControlInv, StoresInv, RecordsOK
  <2>2. CASE ServeStore(st.seed, Head0, st.m)
    <3>1. PICK db \in Put(kv[st.seed], Head0, st.m) : kv' = [kv EXCEPT ![st.seed] = db]
      BY <2>2 DEF ServeStore
    <3>2. RecordsOK(kv[st.seed])
      BY <1>2 DEF ControlInv, StoresInv
    <3>3. RecordsOK(db)
      BY <1>2, <3>2, PutKeeps
    <3> QED BY <1>1, <1>2, <3>1, <3>3, StoresSet DEF ControlInv
  <2> QED BY <1>1, <2>1, <2>2
<1>4. SenderInv' /\ SeenInv'
  BY <1>1 DEF ControlInv, SenderInv, SeenInv, ThisRound
<1> QED BY <1>3, <1>4 DEF ControlInv

\* Forgetting never reaches a message that lives: too many younger ones would
\* have to have been seen since.
LEMMA LivingRemembered ==
  ASSUME ControlInv, NEW m \in DOMAIN seen, clock <= Created(m) + MsgTtl, NEW kept \in PruneSeen
  PROVE  m \in kept
<1> DEFINE young == {x \in DOMAIN seen : seen[x] >= clock - SeenTtl}
<1>1. /\ clock \in Nat /\ MsgTtl \in Nat /\ SeenTtl \in Nat /\ SeenMax \in Nat /\ MaxClock \in Nat
      /\ SeenTtl >= MsgTtl /\ SeenMax >= 2 * MsgTtl + 2
  BY ControlAssumption DEF ControlInv, SenderInv
<1>2. \A x \in DOMAIN seen : /\ x \in Message /\ seen[x] \in Nat /\ seen[x] <= clock
                             /\ Created(x) \in Nat /\ Created(x) <= seen[x] /\ seen[x] <= Created(x) + MsgTtl
  BY CreatedIsNat DEF ControlInv, SeenInv
<1>3. seen[m] >= clock - MsgTtl /\ seen[m] >= clock - SeenTtl
  BY <1>1, <1>2
<1>4. m \in young
  BY <1>3
<1>5. kept \subseteq young /\ (kept = young \/ (Cardinality(kept) = SeenMax /\ \A x \in kept, o \in young \ kept : seen[o] <= seen[x]))
  BY DEF PruneSeen
<1> HIDE DEF young
<1>6. SUFFICES ASSUME m \notin kept PROVE FALSE
  OBVIOUS
<1>7. Cardinality(kept) = SeenMax /\ \A x \in kept : seen[m] <= seen[x]
  BY <1>4, <1>5, <1>6
<1> DEFINE a == clock - 2 * MsgTtl + 1
           b == clock + 1
           W == {0} \cup (a .. b)
<1>8. \A x \in kept \cup {m} : x \in W
  <2> SUFFICES ASSUME NEW x \in kept \cup {m} PROVE x \in W
    OBVIOUS
  <2>1. x \in DOMAIN seen /\ seen[m] <= seen[x]
    BY <1>2, <1>5, <1>7 DEF young
  <2>2. Created(x) \in Nat /\ Created(x) <= clock /\ Created(x) >= clock - 2 * MsgTtl
    BY <2>1, <1>1, <1>2, <1>3
  <2>3. x \in Nat /\ (x = 0 \/ x = Created(x) + 1)
    BY <2>1, <1>1, <1>2 DEF Message, Created
  <2> QED BY <2>2, <2>3, <1>1
<1>9. IsFiniteSet(W) /\ Cardinality(W) <= 2 * MsgTtl + 2
  <2>1. a \in Int /\ b \in Int /\ a <= b + 1
    BY <1>1
  <2>2. IsFiniteSet(a .. b) /\ Cardinality(a .. b) = b - a + 1
    BY <2>1, FS_Interval
  <2>3. b - a + 1 = 2 * MsgTtl + 1
    BY <1>1
  <2> HIDE DEF a, b
  <2>4. IsFiniteSet(W) /\ (Cardinality(W) = Cardinality(a .. b) \/ Cardinality(W) = Cardinality(a .. b) + 1)
    <3>1. W = (a .. b) \cup {0}
      OBVIOUS
    <3> HIDE DEF W
    <3> QED BY <3>1, <2>2, FS_AddElement
  <2> QED BY <2>2, <2>3, <2>4, <1>1
<1> HIDE DEF W
<1>10. IsFiniteSet(kept \cup {m}) /\ Cardinality(kept \cup {m}) <= Cardinality(W)
  BY <1>8, <1>9, FS_Subset
<1>11. Cardinality(kept \cup {m}) = SeenMax + 1
  <2>1. IsFiniteSet(kept)
    BY <1>10, FS_Subset
  <2> QED BY <2>1, <1>6, <1>7, FS_AddElement
<1>12. Cardinality(W) \in Nat
  BY <1>9, FS_CardinalityType
<1> QED BY <1>9, <1>10, <1>11, <1>12, <1>1

LEMMA PullKeeps == ASSUME ControlInv, NEW s \in CpSeed, PullHead(s) PROVE ControlInv'
<1>1. clock' = clock /\ UNCHANGED <<due, queue, flushing, astray>>
  BY DEF PullHead
<1>2. SenderInv'
  BY <1>1 DEF ControlInv, SenderInv, ThisRound
<1>3. clock \in Nat /\ RecordsOK(kv[s])
  BY ControlAssumption DEF ControlInv, SenderInv, StoresInv
<1>4. StoresInv'
  <2>1. kv' = [kv EXCEPT ![s] = Got(kv[s], Head0)]
    BY DEF PullHead, ControlInv, StoresInv
  <2>2. RecordsOK(Got(kv[s], Head0))
    BY <1>3, DropKeyKeeps
  <2> QED BY <2>1, <2>2, <1>1, StoresSet DEF ControlInv
<1>5. SeenInv'
  <2>1. CASE UNCHANGED <<seen, counted>>
    BY <2>1, <1>1 DEF ControlInv, SeenInv
  <2>2. CASE Unexpired(kv[s], Head0)
    <3> DEFINE m == kv[s][Head0].v
    <3>1. PICK kept \in PruneSeen :
            /\ seen' = [x \in kept \cup {m} |-> IF x \in kept THEN seen[x] ELSE clock]
            /\ counted' = IF m \in kept THEN counted ELSE [counted EXCEPT ![m] = @ + 1]
      BY <2>2 DEF PullHead
    <3>2. m \in Message /\ Created(m) \in Nat /\ Created(m) <= clock /\ clock <= Created(m) + MsgTtl
      BY <2>2, <1>3, CreatedIsNat DEF Unexpired, RecordsOK
    <3> HIDE DEF m
    <3>3. kept \subseteq DOMAIN seen
      BY DEF PruneSeen
    <3>4. m \in kept <=> m \in DOMAIN seen
      BY <3>2, <3>3, LivingRemembered
    <3>5. \A x \in Message : counted[x] = 1 /\ clock <= Created(x) + MsgTtl => x \in kept
      BY LivingRemembered DEF ControlInv, SeenInv
    <3>6. m \notin kept => counted[m] = 0
      BY <3>2, <3>5 DEF ControlInv, SeenInv
    <3>7. counted' \in [Message -> {0, 1}] /\ \A x \in Message : x # m => counted'[x] = counted[x]
      BY <3>1, <3>2, <3>6 DEF ControlInv, SeenInv
    <3>8. DOMAIN seen' = kept \cup {m} /\ \A x \in kept \cup {m} : seen'[x] = IF x \in kept THEN seen[x] ELSE clock
      BY <3>1
    <3>9. \A x \in DOMAIN seen' : /\ x \in Message /\ seen'[x] \in Nat /\ seen'[x] <= clock
                                  /\ Created(x) <= seen'[x] /\ seen'[x] <= Created(x) + MsgTtl
      BY <3>2, <3>3, <3>8, <1>3 DEF ControlInv, SeenInv
    <3>10. \A x \in Message : counted'[x] = 1 /\ clock <= Created(x) + MsgTtl => x \in DOMAIN seen'
      BY <3>5, <3>7, <3>8
    <3> QED BY <1>1, <3>7, <3>9, <3>10 DEF SeenInv
  <2> QED BY <2>1, <2>2 DEF PullHead
<1> QED BY <1>2, <1>4, <1>5 DEF ControlInv

LEMMA RoundKeepsAll == ASSUME ControlInv, RoundEnds PROVE ControlInv'
<1>1. /\ clock < MaxClock /\ clock' = clock + 1 /\ clock \in Nat /\ clock \in 0 .. MaxClock /\ MaxClock \in Nat /\ MsgTtl \in Nat
      /\ queue = <<>> /\ flushing.msgs = <<>> /\ due' = TRUE /\ astray = {}
      /\ queue' = queue /\ flushing' = flushing /\ kv' = kv /\ astray' = astray /\ seen' = seen /\ counted' = counted
  BY ControlAssumption DEF RoundEnds, ControlInv, SenderInv
<1>2. SenderInv'
  <2>1. <<>> \in Seq(ThisRound')
    OBVIOUS
  <2>2. clock' \in 0 .. MaxClock
    BY <1>1
  <2> QED BY <1>1, <2>1, <2>2 DEF ControlInv, SenderInv
<1>3. StoresInv'
  <2>1. ASSUME NEW s \in CpSeed PROVE RecordsOK(kv[s])'
    <3>1. RecordsOK(kv[s])
      BY DEF ControlInv, StoresInv
    <3>2. \A k \in DOMAIN kv[s] : Created(kv[s][k].v) <= clock + 1
      BY <3>1, <1>1, CreatedIsNat DEF RecordsOK
    <3> QED BY <3>1, <3>2, <1>1 DEF RecordsOK
  <2> QED BY <2>1, <1>1 DEF ControlInv, StoresInv
<1>4. SeenInv'
  <2>1. \A m \in DOMAIN seen : seen[m] <= clock + 1
    BY <1>1 DEF ControlInv, SeenInv
  <2>2. \A m \in Message : counted[m] = 1 /\ clock + 1 <= Created(m) + MsgTtl => m \in DOMAIN seen
    BY <1>1, CreatedIsNat DEF ControlInv, SeenInv
  <2> QED BY <1>1, <2>1, <2>2 DEF ControlInv, SeenInv
<1> QED BY <1>2, <1>3, <1>4 DEF ControlInv

LEMMA ControlStep == ControlInv /\ [CpNext]_cpVars => ControlInv'
<1> SUFFICES ASSUME ControlInv, [CpNext]_cpVars PROVE ControlInv'
  OBVIOUS
<1>1. CASE UNCHANGED cpVars
  BY <1>1 DEF cpVars, ControlInv, SenderInv, StoresInv, SeenInv, ThisRound, RecordsOK
<1> QED BY <1>1, FlushTickKeeps, FlushNextKeeps, LateStoreKeeps, PullKeeps, RoundKeepsAll DEF CpNext

CpSpec == CpInit /\ [][CpNext]_cpVars

\* The inductive invariant of the messages kept at the seeds
\* (control_store_forward.go, KVStore).
THEOREM ControlInvariant == CpSpec => []ControlInv
BY ControlStarts, ControlStep, PTL DEF CpSpec

\* pruneSeenLocked never forgets a message that can still be found, so
\* pullControlInbox counts each at most once, for any number of seeds; and
\* mustEvictLocked keeps every store within KVMaxKeys.
THEOREM ControlCountsOnce == CpSpec => []CountedOnce
<1>1. ControlInv => CountedOnce
  BY DEF ControlInv, StoresInv, SeenInv, RecordsOK, CountedOnce
<1> QED BY <1>1, ControlInvariant, PTL

=============================================================================
