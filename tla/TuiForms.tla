------------------------------ MODULE TuiForms ------------------------------
(***************************************************************************)
(* Client, internal/tui/model.go: the keys, forms and confirmations of the *)
(* terminal UI over the profile files of internal/config.  The UI lists    *)
(* and connects what it read at the last reload, its handlers read and     *)
(* write the files, and any write may fail half-way (os.WriteFile          *)
(* truncates first).  Settings, update, cloud list: CloudList, SelfUpdate. *)
(*                                                                         *)
(* Every JSON file of the directory but three is a profile to List; the    *)
(* ticket store (peer-tickets.json) is not one of the three.               *)
(***************************************************************************)
EXTENDS ConfigStore, Sequences, FiniteSets

CONSTANTS
    Names,        \* possible file names, in directory order; TicketStore is one
    TicketStore,  \* "peer-tickets"
    Begin,        \* directory contents the client may be started with
    Envs,         \* values of VOLTER_ANTIDPI_PRESET; "off": VOLTER_NO_ANTIDPI_ENRICH
    MaxFaults,    \* bound: failing writes
    MaxWrites     \* bound: writes of the UI

ASSUME FormsAssumption ==
    /\ Names \in Seq(STRING) /\ \A i \in 1 .. Len(Names) : Names[i] # ""
    /\ \E i \in 1 .. Len(Names) : Names[i] = TicketStore
    /\ \A d \in Begin :
         /\ DOMAIN d \subseteq {Names[i] : i \in 1 .. Len(Names)}
         /\ \A n \in DOMAIN d : WellFormed(d[n].cfg)
    /\ MaxFaults \in Nat /\ MaxWrites \in Nat

VARIABLES
    disk,         \* the profile directory: name -> file
    glob,         \* protection.json, Nil when absent or unreadable
    cached,       \* m.cfgs by m.names
    ui,           \* tab, open form, confirmations, protection target
    env,          \* the environment the client was started in
    spent,        \* failed writes and writes so far
    unreloaded,   \* ghost: files written since the last reload of the list
    read,         \* ghost: the profiles as the list was last read
    topped,       \* ghost: cached profiles a connect has completed in place
    shrunk        \* ghost: the list lost entries since the target was chosen

formVars == <<disk, glob, cached, ui, env, spent, unreloaded, read, topped, shrunk>>

\* The tabs whose keys reach the profiles.
Tabs == {"config", "mesh", "cluster", "protection"}

NoInputs == [conn |-> "bad", tr |-> "", relay |-> Nil, prot |-> Nil]

----------------------------------------------------------------------------
\* Files.  A file is what it holds as a profile and as a ticket store; JSON
\* readers skip the fields they do not know.

Torn == [ok |-> FALSE, cfg |-> ZeroCfg, tickets |-> 0]
ProfileFile(cfg) == [ok |-> TRUE, cfg |-> cfg, tickets |-> 0]
With(d, n, file) == [m \in DOMAIN d \cup {n} |-> IF m = n THEN file ELSE d[m]]
Without(d, n) == [m \in DOMAIN d \ {n} |-> d[m]]

\* List and LoadByName skip what they cannot read.
Readable(d) == {n \in DOMAIN d : d[n].ok}
LoadByName(d, n) == Repair(d[n].cfg)
List(d) == [n \in Readable(d) |-> LoadByName(d, n)]

\* Save: done; refused; or cut short, which leaves a file nobody can read.
Outcomes(d, n, file) ==
    {[disk |-> With(d, n, file), ok |-> TRUE]}
      \cup (IF spent.faults < MaxFaults
              THEN {[disk |-> d, ok |-> FALSE], [disk |-> With(d, n, Torn), ok |-> FALSE]}
              ELSE {})
Save(d, n, cfg) == Outcomes(d, n, ProfileFile(Repair(cfg)))
Spend(w) == /\ spent.writes < MaxWrites
            /\ spent' = [faults |-> IF w.ok THEN spent.faults ELSE spent.faults + 1,
                         writes |-> spent.writes + 1]

\* m.names and its length.
names == SelectSeq(Names, LAMBDA n : n \in DOMAIN cached)
Count == Cardinality(DOMAIN cached)

ReloadCfgs ==
    /\ cached' = List(disk')
    /\ read' = List(disk')
    /\ unreloaded' = {} /\ topped' = {}
    /\ shrunk' = (shrunk \/ Count' < Count)
Unreloaded(ns) == unreloaded' = unreloaded \cup ns /\ UNCHANGED <<cached, read, topped, shrunk>>

\* meshRelayEffectiveTarget; "" when there is no profile.
EffectiveTarget ==
    IF ui.target # "" THEN ui.target ELSE IF names # <<>> THEN names[1] ELSE ""

FormsInit ==
    /\ disk \in Begin
    /\ glob = Nil
    /\ cached = List(disk) /\ read = List(disk)
    /\ ui = [tab |-> "config", form |-> "none", inputs |-> NoInputs, editing |-> "", deleting |-> "",
             idx |-> 0, target |-> "", over |-> "no"]
    /\ env \in Envs
    /\ spent = [faults |-> 0, writes |-> 0]
    /\ unreloaded = {} /\ topped = {} /\ shrunk = FALSE

KeepFiles == UNCHANGED <<disk, glob, cached, spent, unreloaded, read, topped, shrunk>>
Alive == ui.over = "no" /\ UNCHANGED env
Close == [ui EXCEPT !.form = "none", !.inputs = NoInputs, !.editing = ""]

----------------------------------------------------------------------------
\* Keys that only move around the UI.

\* q and esc take back what is open, also in the middle of a text.  With
\* nothing open they quit (ClientApp).
KeyEsc ==
    /\ Alive /\ KeepFiles
    /\ \/ ui.form = "none" /\ ui.deleting # "" /\ ui' = [ui EXCEPT !.deleting = ""]
       \/ ui.form # "none" /\ ui' = Close

KeyN ==
    /\ Alive /\ KeepFiles
    /\ ui.form = "none"
    /\ \/ ui.deleting # "" /\ ui' = [ui EXCEPT !.deleting = ""]
       \/ ui.deleting = "" /\ ui.tab = "config" /\ ui' = [ui EXCEPT !.form = "add", !.inputs = NoInputs]

KeyD ==
    /\ Alive /\ KeepFiles
    /\ ui.tab = "config" /\ ui.form = "none" /\ ui.deleting = ""
    /\ \E n \in DOMAIN cached : ui' = [ui EXCEPT !.deleting = n]

\* tab, shift+tab, left and right, until one of these tabs is reached.  Inside
\* a form they move the focus.
KeyTab ==
    /\ Alive /\ KeepFiles
    /\ ui.form = "none"
    /\ \E t \in Tabs \ {ui.tab} : ui' = [ui EXCEPT !.deleting = "", !.tab = t]

\* Mutant: the index is not taken modulo the length.
NextTargetUnbounded == ui.idx + 1
PrevTarget == IF ui.idx = 0 THEN Count ELSE ui.idx - 1
NextTarget == (ui.idx + 1) % (Count + 1)

\* ctrl+left, ctrl+right: 0 is the global file, i the i-th name.
KeyTarget(i) ==
    /\ Alive
    /\ UNCHANGED <<disk, glob, cached, spent, unreloaded, read, topped>>
    /\ ui.tab \in {"protection", "mesh"} /\ ui.form = "none" /\ names # <<>>
    /\ IF i <= Count
         THEN /\ ui' = [ui EXCEPT !.idx = i, !.target = IF i = 0 THEN "" ELSE names[i]]
              /\ shrunk' = FALSE
         ELSE ui' = [ui EXCEPT !.over = "panic"] /\ UNCHANGED shrunk

----------------------------------------------------------------------------
\* Keys that write.

KeyY ==
    /\ Alive /\ UNCHANGED <<glob, spent>>
    /\ ui.deleting # ""
    /\ disk' = Without(disk, ui.deleting)
    /\ ui' = [ui EXCEPT !.deleting = ""]
    /\ ReloadCfgs

\* The cluster keys rewrite the protection of the target and reload nothing.
WriteProtection(n, p) ==
    /\ n \in Readable(disk)
    /\ \E w \in Save(disk, n, [LoadByName(disk, n) EXCEPT !.prot = p]) :
         disk' = w.disk /\ Spend(w)
    /\ Unreloaded({n})
    /\ UNCHANGED glob

Options(cfg) == IF cfg.prot = Nil THEN ZeroProt ELSE cfg.prot

KeyCluster ==
    /\ Alive /\ UNCHANGED ui
    /\ ui.tab = "cluster"
    /\ LET n == EffectiveTarget
           p == Options(LoadByName(disk, n))
       IN  /\ n \in Readable(disk)
           /\ \/ \E mode \in {"direct", "server_relay"} :
                   WriteProtection(n, ApplyClusterProtectionDefaults([p EXCEPT !.route = mode]))
              \/ WriteProtection(n, ApplyClusterProtectionDefaults(p))
              \/ WriteProtection(n, ApplyClusterProtectionDefaults(
                                      [p EXCEPT !.pref = "node", !.route = "server_relay"]))

\* Global protection: the file is replaced; a failed write leaves it unreadable.
SaveGlobal(p) ==
    /\ \/ spent.faults < MaxFaults /\ glob' = Nil /\ Spend([ok |-> FALSE])
       \/ glob' = SanitizeProtection(p) /\ Spend([ok |-> TRUE])
    /\ UNCHANGED <<disk, cached, unreloaded, read, topped, shrunk>>

\* The whole protection section is replaced.  A target that is gone: nothing.
SetProtection(p) ==
    \/ ui.target = "" /\ SaveGlobal(p)
    \/ ui.target # "" /\ WriteProtection(ui.target, p)
    \/ ui.target # "" /\ ui.target \notin Readable(disk) /\ KeepFiles

KeyPreset ==
    /\ Alive /\ UNCHANGED ui
    /\ ui.tab = "protection" /\ ui.form = "none"
    /\ \E p \in {ProtectionPresetBalanced, ProtectionPresetStrict} : SetProtection(p)

\* A ticket needs an identity, a key and an endpoint.  UpsertPeerTicket reads
\* the store and writes it back whole.
PeerTicketFrom(cfg) ==
    LET r == EffectiveRelayOptions(cfg)
    IN  r # Nil /\ r.id # "" /\ r.disc # "" /\ r.listen # ""
UpsertPeerTicket ==
    /\ TicketStore \in DOMAIN disk => disk[TicketStore].ok
    /\ \E w \in Outcomes(disk, TicketStore, [ok |-> TRUE, cfg |-> ZeroCfg, tickets |-> 1]) :
         disk' = w.disk /\ Spend(w)
    /\ Unreloaded({TicketStore}) /\ UNCHANGED glob

KeyExportTicket ==
    /\ Alive /\ UNCHANGED ui
    /\ ui.tab = "mesh" /\ ui.form = "none"
    /\ EffectiveTarget \in Readable(disk) /\ PeerTicketFrom(LoadByName(disk, EffectiveTarget))
    /\ UpsertPeerTicket

\* The import file holds a ticket that is well formed, signed and not expired.
KeyImportTicket ==
    /\ Alive /\ UNCHANGED ui
    /\ ui.tab = "mesh" /\ ui.form = "none"
    /\ UpsertPeerTicket

----------------------------------------------------------------------------
\* Forms: e opens one on what is in the files (or in the list), enter saves.

\* defaultMeshRelayInputs: the form shows the mesh section, every part of it on.
DefaultMeshRelayInputs(cfg) ==
    LET m == IF cfg.mesh = Nil THEN ZeroMesh ELSE cfg.mesh
        all == [m EXCEPT !.on = TRUE, !.p2p = TRUE, !.vol = TRUE, !.stunOn = TRUE, !.sr = TRUE]
    IN  ApplyRelayDefaults(MeshToRelayOptions(ApplyMeshDefaults(all)))

\* newProtectionInputs: empty values are shown as their defaults.
NewProtectionInputs(p) ==
    [p EXCEPT !.obf = Or(p.obf, "default"), !.engine = IF p.engine = "external" THEN "external" ELSE "embedded",
              !.emb = MergeDpiLocalEmbeddedDefaults(p.emb)]

\* What the two forms open on: the target's file, or nothing when it is gone.
MeshInputs ==
    DefaultMeshRelayInputs(
      IF EffectiveTarget \in Readable(disk) THEN LoadByName(disk, EffectiveTarget) ELSE ZeroCfg)
ProtectionInputs ==
    NewProtectionInputs(IF ui.target = "" THEN Options([prot |-> glob])
                        ELSE IF ui.target \in Readable(disk) THEN Options(LoadByName(disk, ui.target))
                        ELSE ZeroProt)

KeyE ==
    /\ Alive /\ KeepFiles
    /\ ui.form = "none"
    /\ \/ /\ ui.tab = "mesh" /\ names # <<>>
          /\ ui' = [ui EXCEPT !.form = "mesh", !.inputs.relay = MeshInputs]
       \/ /\ ui.tab = "protection"
          /\ ui' = [ui EXCEPT !.form = "protection", !.inputs.prot = ProtectionInputs]
       \/ /\ ui.tab = "config" /\ ui.deleting = ""
          /\ \E n \in DOMAIN cached :
               ui' = [ui EXCEPT !.form = "edit", !.editing = n,
                                !.inputs.conn = BuildConnectionURI(cached[n]),
                                !.inputs.tr = cached[n].transport]

\* meshRelayFromInputs: the key, the geo lists are not in the form.
MeshRelayFromInputs(r) == [r EXCEPT !.key = "", !.geo = ""]
RelayMergeKeepAdvanced(old, nu) ==
    IF old = Nil THEN nu
    ELSE [nu EXCEPT !.key = Or(nu.key, old.key), !.geo = Or(nu.geo, old.geo),
                    !.kbps = IF nu.kbps = 0 THEN old.kbps ELSE nu.kbps,
                    !.peerKbps = IF nu.peerKbps = 0 THEN old.peerKbps ELSE nu.peerKbps]

\* Mutant: the list is not read again.
MeshFormKeepsList(r) ==
    LET n == EffectiveTarget
        cfg == LoadByName(disk, n)
    IN  /\ n \in Readable(disk)
        /\ disk' = With(disk, n, ProfileFile([cfg EXCEPT !.relay = r])) /\ Spend([ok |-> TRUE])
        /\ ui' = Close /\ UNCHANGED <<cached, read, topped, shrunk, unreloaded>>

SaveMeshForm(r) ==
    LET n == EffectiveTarget
        cfg == LoadByName(disk, n)
        nu == RelayMergeKeepAdvanced(EffectiveRelayOptions(cfg), MeshRelayFromInputs(r))
        saved == IF On(cfg.mesh)
                   THEN [cfg EXCEPT !.mesh = RelayOptionsToMesh(nu, cfg.mesh), !.relay = Nil]
                   ELSE [cfg EXCEPT !.relay = nu]
    IN  /\ n \in Readable(disk)
        /\ \E w \in Save(disk, n, saved) :
             /\ disk' = w.disk /\ Spend(w)
             /\ IF w.ok THEN ReloadCfgs /\ ui' = Close ELSE Unreloaded({n}) /\ UNCHANGED ui

EnterMesh ==
    /\ Alive /\ ui.form = "mesh" /\ UNCHANGED glob
    /\ \E r \in {ui.inputs.relay, [ui.inputs.relay EXCEPT !.turn = "turn", !.stake = 5]} : SaveMeshForm(r)

\* protectionOptsFromInputs: numbers are clamped, unknown words are the default;
\* what the form does not show is absent from the result.
ProtectionOptsFromInputs(p) ==
    [ZeroProt EXCEPT !.obf = IF p.obf = "enhanced" THEN "enhanced" ELSE "default",
                     !.junk = Clamp(p.junk, 0, 12), !.rot = p.rot, !.preset = p.preset,
                     !.engine = p.engine, !.alone = p.alone,
                     !.emb = [split |-> Clamp(p.emb.split, 1, 65536), split2 |-> Clamp(p.emb.split2, 0, 65536)]]

EnterProtection ==
    /\ Alive /\ ui.form = "protection"
    /\ \E p \in {ui.inputs.prot, [ui.inputs.prot EXCEPT !.junk = 40, !.obf = "strong", !.preset = "long"]} :
         SetProtection(ProtectionOptsFromInputs(p))
    /\ ui' = Close

\* configFromConnFormInputs after fillConnectionFromAnyField.
ConfigFromConnFormInputs(conn, tr) ==
    [ZeroCfg EXCEPT !.server = "srv", !.pub = ParseConnection(conn).pub,
                    !.managed = ParseConnection(conn).managed, !.transport = tr]
FormOk(conn, tr) == ParseConnection(conn).ok /\ tr \in {"", "tcp", "quic"}

MergeCfgPreserveRelayProtection(d, old, cfg) ==
    IF old \notin Readable(d) THEN cfg
    ELSE LET was == LoadByName(d, old)
         IN  [cfg EXCEPT !.relay = was.relay, !.mesh = was.mesh, !.prot = was.prot]

\* A new name: the old file is deleted before the new one is written.
EnterConnForm ==
    /\ Alive /\ ui.form \in {"edit", "add"} /\ UNCHANGED glob
    /\ \E n \in {Names[i] : i \in 1 .. Len(Names)}, conn \in {ui.inputs.conn, "key"}, tr \in {ui.inputs.tr, "tcp", "http"} :
         LET typed == ConfigFromConnFormInputs(conn, tr)
             cfg == IF ui.form = "edit" THEN MergeCfgPreserveRelayProtection(disk, ui.editing, typed) ELSE typed
             rest == IF ui.form = "edit" /\ n # ui.editing THEN Without(disk, ui.editing) ELSE disk
         IN  /\ FormOk(conn, tr)
             /\ \E w \in Save(rest, n, cfg) :
                  /\ disk' = w.disk /\ Spend(w)
                  /\ IF w.ok THEN ReloadCfgs /\ ui' = Close
                     ELSE Unreloaded({n, ui.editing} \ {""}) /\ UNCHANGED ui

\* Enter on the list, or a connect by name, which comes in any tab and over an
\* open form: the cached profile is connected.  Its protection, or the global
\* one, is completed; the embedded engine in place.
Saved(prot) == IF prot # Nil THEN prot ELSE Options([prot |-> glob])
UsedBy(cfg) == MergeAntiDpiTransportTopUp(Saved(cfg.prot), cfg.transport, env)

\* configSnapshotForActive: the reconnect reads the file again where it can.
ConfigSnapshotForActive(n) == IF n \in Readable(disk) THEN LoadByName(disk, n) ELSE cached[n]

TryConnect ==
    /\ Alive /\ UNCHANGED <<disk, glob, ui, spent, unreloaded, read, shrunk>>
    /\ \E n \in DOMAIN cached :
         LET p == cached[n].prot
         IN  /\ cached[n].server # "" /\ p # Nil
             /\ cached' = [cached EXCEPT ![n].prot = TopUpEmbedded(p, env)]
             /\ topped' = IF TopUpEmbedded(p, env) # p THEN topped \cup {n} ELSE topped

FormsNext ==
    \/ KeyEsc \/ KeyN \/ KeyD \/ KeyY \/ KeyTab
    \/ KeyTarget(PrevTarget) \/ KeyTarget(NextTarget)
    \/ KeyCluster \/ KeyPreset \/ KeyExportTicket \/ KeyImportTicket \/ KeyE
    \/ EnterMesh \/ EnterProtection \/ EnterConnForm \/ TryConnect

FormsSpec == FormsInit /\ [][FormsNext]_formVars

----------------------------------------------------------------------------
Files == {Names[i] : i \in 1 .. Len(Names)}

FormsTypeOK ==
    /\ DOMAIN disk \subseteq Files /\ DOMAIN cached \subseteq Files
    /\ ui.tab \in Tabs
    /\ ui.form \in {"none", "mesh", "protection", "edit", "add"}
    /\ ui.idx \in 0 .. Len(Names) /\ ui.target \in Files \cup {""} /\ ui.deleting \in Files \cup {""}
    /\ unreloaded \subseteq Files /\ topped \subseteq Files

\* What is left of an old relay section once it is migrated: no least stake,
\* no transport where path probing was off, no reflexive address where it did
\* not listen, and a peer rate where there was none.
Migrated(r) ==
    [r EXCEPT !.stake = 0,
              !.udp = r.path /\ r.udp, !.tcp = IF r.path /\ r.tcp # "no" THEN "yes" ELSE "no",
              !.srflx = r.listen # "" /\ r.srflx,
              !.peerKbps = IF r.peerKbps <= 0 THEN r.kbps ELSE r.peerKbps]

\* The relay options a profile has, as Load returns them and as the file holds
\* them before any migration.
KeepsRelay(n) ==
    LET old == disk[n].cfg
        nu == disk'[n].cfg
    IN  /\ EffectiveRelayOptions(LoadByName(disk', n)) = EffectiveRelayOptions(LoadByName(disk, n))
        /\ nu = old \/ EffectiveRelayOptions(nu) =
                         IF Due(old) THEN Migrated(old.relay) ELSE EffectiveRelayOptions(old)

\* The mesh form does not show the key and the geo lists and keeps them; the
\* lists only where the mesh section was off, as it drops the relay section of
\* the others, and with it what was typed as turn or stake.
MeshFormKeeps(n) ==
    LET was == EffectiveRelayOptions(LoadByName(disk, n))
        now == EffectiveRelayOptions(LoadByName(disk', n))
    IN  was # Nil => /\ now # Nil /\ now.key = was.key
                     /\ On(LoadByName(disk, n).mesh) \/ now.geo = was.geo

Overwritten(n) == ui.form = "add" \/ (ui.form = "edit" /\ ui.editing # n)

\* A form or key changes only its own section of a profile that stays: the
\* protection comes from the protection tab and the cluster keys, the relay
\* options from the mesh form, server and identity from the connection forms.
\* The first save of a profile with an old relay section migrates that, and
\* changes of its options no more than Migrated says: StakeMin is lost, as
\* LegacyRelayCarryOver does not copy it, but no other text or number.
KeepsTheRest(n) ==
    /\ \/ LoadByName(disk', n).prot = LoadByName(disk, n).prot
       \/ ui.tab \in {"protection", "cluster"}
    /\ IF ui.form = "mesh" THEN MeshFormKeeps(n) ELSE KeepsRelay(n)
    /\ \/ LoadByName(disk', n).managed = LoadByName(disk, n).managed
       \/ ui.form = "edit"
FormsKeepTheRest ==
    [][\A n \in (Readable(disk) \cap Readable(disk')) \ {TicketStore} :
         disk' # disk => Overwritten(n) \/ KeepsTheRest(n)]_formVars

\* The list shows, and enter connects, what the files hold, except for files
\* that the protection, cluster and ticket handlers (which do not reload) or a
\* failed save touched since, and for the options a connect completed in place.
ListAgrees ==
    \A n \in Files \ unreloaded :
      /\ n \in DOMAIN cached <=> n \in Readable(disk)
      /\ n \in DOMAIN cached \ topped => cached[n] = LoadByName(disk, n)

\* The target index runs past the list, which ends the client in a panic, only
\* when entries were deleted after it was chosen.
PanicsOnlyAfterShrink == ui.over = "panic" => shrunk

\* What a connect uses is what was saved, the profile's own protection or else
\* the global file's, and the defaults fill only what is absent.  Enter on the
\* list and a connect by name use the profile as the list was last read,
\* whatever connects completed in place since; the reconnect of the watchdog
\* uses the file as it is now.  The two differ for a profile that a handler
\* which does not reload (the protection form, its presets, the cluster keys)
\* or a failed save has touched since, and for no other: there enter connects
\* with the old options, also after "reconnect after changing the route".
\* (With VOLTER_ANTIDPI_PRESET set the first two do not hold: route, flags and
\* engine of the profile are then left behind.)
Wins(saved, p) ==
    /\ saved.obf # "" => p.obf = saved.obf
    /\ saved.junk > 0 => p.junk = saved.junk
    /\ p.route = saved.route /\ p.pref = saved.pref /\ p.preset = saved.preset /\ p.alone = saved.alone
    /\ saved.emb # Nil /\ saved.emb.split > 0 => p.emb = saved.emb
ConnectsAsRead ==
    \A n \in DOMAIN cached :
      /\ env \in {"", "off"} => Wins(Saved(read[n].prot), UsedBy(cached[n]))
      /\ env \in {"", "off"} /\ n \in Readable(disk) =>
           Wins(Saved(LoadByName(disk, n).prot), UsedBy(ConfigSnapshotForActive(n)))
      /\ n \notin unreloaded => n \in Readable(disk) /\ read[n].prot = LoadByName(disk, n).prot

============================================================================
