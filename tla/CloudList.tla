----------------------------- MODULE CloudList -----------------------------
(***************************************************************************)
(* Client, the cloud tab and the settings of internal/tui/model.go, with   *)
(* internal/config/cloud.go and internal/probe: the list of cloud servers  *)
(* is fetched again while probes of its former entries are in flight, and  *)
(* everything a probe says is kept under the entry's name, "cloud-<line>", *)
(* which profiles saved from the list share.  A line is an address and     *)
(* token with options ("transport=tcp", an IPv6 network), and so is what   *)
(* the edit form saves.  The tray rewrites the settings file while the UI  *)
(* holds a copy of it.                                                     *)
(***************************************************************************)
EXTENDS ConfigStore, FiniteSets

CONSTANTS
    Entry,        \* names of the entries
    Server,       \* cloud servers: an address and a token
    Lines,        \* lines the list and profiles of its names may hold
    MaxFetches,   \* bound: times the list is fetched
    MaxEdits      \* bound: edits of entries, writes of the settings

ASSUME CloudAssumption ==
    /\ MaxFetches \in Nat /\ MaxEdits \in Nat
    /\ Lines \subseteq [server : Server, tcp : BOOLEAN, tun6 : BOOLEAN] /\ Nil \notin Lines

VARIABLES
    listing,      \* m.cloudCfgs by m.cloudNames; Nil: no such entry
    loading,      \* m.cloudLoading
    probes,       \* probes in flight
    mode,         \* m.cloudMode, with the server the word came from
    v6,           \* m.cloudIPv6, likewise
    saved,        \* the profile saved under the entry's name, or Nil
    settings,     \* settings.json
    mine,         \* m.clientSettings
    fetches, edits,
    moved,        \* ghost: entries whose server changed and was not probed since
    late          \* ghost: entries with a probe of another server in flight once

cloudVars == <<listing, loading, probes, mode, v6, saved, settings, mine, fetches, edits, moved, late>>

Unprobed == [e \in Entry |-> [is |-> "", of |-> Nil]]
NoV6 == [e \in Entry |-> [is |-> FALSE, of |-> Nil]]

\* The server of an entry of the list, or of a profile.
At(list, e) == IF list[e] = Nil THEN Nil ELSE list[e].server

\* CloudList: line i of what was fetched, or of the copy of it an earlier
\* client left, under the name cloud-<i>.  A shorter list leaves names without
\* an entry.
FetchCloud == [Entry -> Lines \cup {Nil}]

CloudInit ==
    /\ listing \in FetchCloud /\ loading = TRUE
    /\ probes = {} /\ mode = Unprobed /\ v6 = NoV6
    /\ saved \in [Entry -> Lines \cup {Nil}]
    /\ settings = [mode |-> "tun", last |-> Nil] /\ mine = settings
    /\ fetches = 0 /\ edits = 0 /\ moved = {} /\ late = {}

\* autoProbeCmds: one probe of each entry of a list.
AutoProbe(list) == {[name |-> e, server |-> At(list, e)] : e \in {x \in Entry : list[x] # Nil}}

\* Entries under which word of another server than the listed one may come in.
Astray(ps, list) == {p.name : p \in {q \in ps : q.server # At(list, q.name)}}

\* Probes begin, of the listed servers or of those of saved profiles.
Probing(ps) ==
    /\ probes' = probes \cup ps
    /\ late' = late \cup Astray(ps, listing)

----------------------------------------------------------------------------
\* r: reloadCloud(true).
KeyR ==
    /\ ~loading /\ fetches < MaxFetches
    /\ loading' = TRUE
    /\ UNCHANGED <<listing, probes, mode, v6, saved, settings, mine, fetches, edits, moved, late>>

\* Mutant: the flags of the former entries stay.
FetchedKeepsV6 ==
    /\ loading /\ loading' = FALSE
    /\ fetches < MaxFetches /\ fetches' = fetches + 1
    /\ listing' \in FetchCloud
    /\ probes' = probes \cup AutoProbe(listing')
    /\ moved' = moved \cup {e \in Entry : At(listing', e) # At(listing, e)}
    /\ late' = late \cup Astray(probes, listing')
    /\ UNCHANGED <<mode, v6, saved, settings, mine, edits>>

Fetched ==
    /\ loading /\ loading' = FALSE
    /\ fetches < MaxFetches /\ fetches' = fetches + 1
    /\ \/ UNCHANGED <<listing, probes, v6, moved, late>> \* no source answered
       \/ /\ listing' \in FetchCloud
          /\ v6' = NoV6
          /\ probes' = probes \cup AutoProbe(listing')
          /\ moved' = moved \cup {e \in Entry : At(listing', e) # At(listing, e)}
          /\ late' = late \cup Astray(probes, listing')
    /\ UNCHANGED <<mode, saved, settings, mine, edits>>

\* pterovpnResultMsg, under both maps: "unknown" and a missing IPv6 do not
\* replace what was known, an error does.
ProbeResult(p, m, six) ==
    LET e == p.name
        keepMode == m = "unknown" /\ mode[e].is \notin {"", "unknown"}
        keepV6 == m = "unknown" /\ v6[e].is /\ ~six
    IN  /\ mode' = IF keepMode THEN mode ELSE [mode EXCEPT ![e] = [is |-> m, of |-> p.server]]
        /\ v6' = IF keepV6 THEN v6 ELSE [v6 EXCEPT ![e] = [is |-> six, of |-> p.server]]
        /\ moved' = IF p.server = At(listing, e) /\ ~keepMode THEN moved \ {e} ELSE moved

\* ProbeVolterWithCaps and ServerModeFromCaps: an error says nothing, a hello
\* without capabilities "unknown".
ProbeVolter == {<<"", FALSE>>, <<"unknown", TRUE>>, <<"unknown", FALSE>>, <<"tcp only", FALSE>>, <<"quic/tcp", TRUE>>}

ProbeDone ==
    \E p \in probes :
      /\ probes' = probes \ {p}
      /\ \E r \in ProbeVolter : ProbeResult(p, r[1], r[2])
      /\ UNCHANGED <<listing, loading, saved, settings, mine, fetches, edits, late>>

\* e and enter on an entry, or on the profile of its name: what is in the form
\* is saved, or y deletes the profile; after a save all profiles are probed.
EditEntry ==
    /\ edits < MaxEdits /\ edits' = edits + 1
    /\ \E e \in Entry :
         \/ /\ (~loading /\ listing[e] # Nil) \/ saved[e] # Nil
            /\ \E line \in Lines : saved' = [saved EXCEPT ![e] = line]
            /\ Probing(AutoProbe(saved'))
         \/ saved[e] # Nil /\ saved' = [saved EXCEPT ![e] = Nil] /\ UNCHANGED <<probes, late>>
    /\ UNCHANGED <<listing, loading, mode, v6, settings, mine, fetches, moved>>

\* t on an entry or profile; a switch to either tab probes the whole list.
KeyProbe ==
    /\ \/ \E list \in {listing, saved} : Probing(AutoProbe(list))
       \/ ~loading /\ \E p \in AutoProbe(listing) : Probing({p})
       \/ \E p \in AutoProbe(saved) : Probing({p})
    /\ UNCHANGED <<listing, loading, mode, v6, saved, settings, mine, fetches, edits, moved>>

\* Enter, which ClientApp goes on from: the saved profile replaces the entry if
\* it has the same server and token; the defaults follow what is known under
\* the name.
Chosen(e) == IF saved[e] # Nil /\ At(saved, e) = At(listing, e) THEN saved[e] ELSE listing[e]
ConnectEntry(e) ==
    LET cfg == [ZeroCfg EXCEPT !.server = Chosen(e).server, !.tun6 = Chosen(e).tun6,
                               !.transport = IF Chosen(e).tcp THEN "tcp" ELSE "",
                               !.quic = IF Chosen(e).tcp THEN "" ELSE "4433"]
    IN  ApplyCloudConnectDefaults(cfg, mode[e].is, v6[e].is)

----------------------------------------------------------------------------
\* settingsFromInputs: the form has no field for the last profile.
EnterSettings ==
    /\ edits < MaxEdits /\ edits' = edits + 1
    /\ \E m \in {"tun", "proxy"} : mine' = [mode |-> m, last |-> Nil]
    /\ settings' = mine'
    /\ UNCHANGED <<listing, loading, probes, mode, v6, saved, fetches, moved, late>>

\* trayToggleMode, trayConnectProfile: another process reads the file and
\* writes it back.
TraySettings ==
    /\ edits < MaxEdits /\ edits' = edits + 1
    /\ \/ settings' = [settings EXCEPT !.mode = IF settings.mode = "proxy" THEN "tun" ELSE "proxy"]
       \/ \E e \in Entry : saved[e] # Nil /\ settings' = [settings EXCEPT !.last = e]
    /\ UNCHANGED <<listing, loading, probes, mode, v6, saved, mine, fetches, moved, late>>

CloudNext ==
    \/ KeyR \/ Fetched \/ ProbeDone \/ EditEntry \/ KeyProbe
    \/ EnterSettings \/ TraySettings

CloudSpec == CloudInit /\ [][CloudNext]_cloudVars

----------------------------------------------------------------------------
\* A connect from the list goes by the line, or the profile that replaces it,
\* and otherwise by what a probe of the server listed there said: without QUIC
\* only if one of them names TCP or that server is "tcp only", unless the list
\* moved since the last answer or a probe of another server was in flight, and
\* with an IPv6 network only if one of them has it or that server has one,
\* unless the latter.
Said(e, what) == what.of = At(listing, e)
ProbesFindTheirServer ==
    \A e \in Entry : listing[e] # Nil =>
      LET cfg == ConnectEntry(e)
      IN  /\ cfg.transport = "tcp" => Chosen(e).tcp \/ Said(e, mode[e]) \/ e \in moved \cup late
          /\ cfg.tun6 => Chosen(e).tun6 \/ Said(e, v6[e]) \/ e \in late

============================================================================
