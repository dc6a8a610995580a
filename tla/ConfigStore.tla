---------------------------- MODULE ConfigStore ----------------------------
(***************************************************************************)
(* Client, internal/config: what a profile holds and the conversions it    *)
(* goes through between the file, the forms and a connection.              *)
(*                                                                         *)
(* A record keeps one field per class of fields the code treats alike:     *)
(*  - relay options: "id", "dht" (mapped to the mesh section always),      *)
(*    "key" (the same, but absent from the form), "disc", "stun", "listen",*)
(*    "srflx", "udp", "tcp" (mapped under a switch of the mesh section),   *)
(*    the numbers with a default, "turn" (carried over, in the form),      *)
(*    "geo" (carried over, not in the form), "stake" (in neither);         *)
(*  - protection: "obf" (one of a list), "junk" (a clamped number), "rot"  *)
(*    (a flag), "preset" (a text with a limit), "split", "split2" (the     *)
(*    embedded engine), and what the form does not show: "route", "pref",  *)
(*    "paths", "planner".                                                  *)
(* "" and 0 are the absent values, as in the files (omitempty).            *)
(***************************************************************************)
EXTENDS Integers

CONSTANT
    Nil           \* a nil pointer

\* Any text; the provers know a string constant only by name.
Text == STRING \cup {"", "default", "enhanced", "strong", "long", "cut", "embedded", "external", "turn",
                     "direct", "server_relay", "node", "stun*", "any:0", "rnd"}

RelayOptions ==
    [id : Text, key : Text, disc : Text, stun : Text, dht : Text, listen : Text,
     srflx : BOOLEAN, path : BOOLEAN, udp : BOOLEAN, tcp : {"unset", "yes", "no"}, gossip : BOOLEAN,
     peerKbps : Int, kbps : Int, hops : Int, turn : Text, geo : Text, stake : Int]

MeshConfig ==
    [on : BOOLEAN, id : Text, key : Text, vol : BOOLEAN, listen : Text, peerKbps : Int,
     p2p : BOOLEAN, udp : BOOLEAN, tcp : BOOLEAN, sr : BOOLEAN, disc : Text,
     stunOn : BOOLEAN, stun : Text, srflx : BOOLEAN, gossip : BOOLEAN, dht : Text,
     kbps : Int, hops : Int]

DpiLocalEmbedded == [split : Int, split2 : Int]

ProtectionOptions ==
    [obf : Text, junk : Int, rot : BOOLEAN, preset : Text, engine : Text, alone : BOOLEAN,
     emb : DpiLocalEmbedded \cup {Nil}, route : Text, pref : Text, paths : BOOLEAN, planner : BOOLEAN]

\* A profile whose sections are of their types, or absent.
WellFormed(cfg) ==
    /\ {"managed", "prot", "mesh", "relay"} \subseteq DOMAIN cfg
    /\ cfg.prot \in ProtectionOptions \cup {Nil}
    /\ cfg.mesh \in MeshConfig \cup {Nil} /\ cfg.relay \in RelayOptions \cup {Nil}

ASSUME NilAssumption ==
    Nil \notin MeshConfig /\ Nil \notin RelayOptions /\ Nil \notin DpiLocalEmbedded /\ Nil \notin ProtectionOptions

ZeroRelay == [id |-> "", key |-> "", disc |-> "", stun |-> "", dht |-> "", listen |-> "",
              srflx |-> FALSE, path |-> FALSE, udp |-> FALSE, tcp |-> "unset", gossip |-> FALSE,
              peerKbps |-> 0, kbps |-> 0, hops |-> 0, turn |-> "", geo |-> "", stake |-> 0]

ZeroMesh == [on |-> TRUE, id |-> "", key |-> "", vol |-> FALSE, listen |-> "", peerKbps |-> 0,
             p2p |-> FALSE, udp |-> FALSE, tcp |-> FALSE, sr |-> FALSE, disc |-> "",
             stunOn |-> FALSE, stun |-> "", srflx |-> FALSE, gossip |-> FALSE, dht |-> "",
             kbps |-> 0, hops |-> 0]

ZeroProt == [obf |-> "", junk |-> 0, rot |-> FALSE, preset |-> "", engine |-> "", alone |-> FALSE,
             emb |-> Nil, route |-> "", pref |-> "", paths |-> FALSE, planner |-> FALSE]

ZeroCfg == [server |-> "", pub |-> "", managed |-> Nil, quic |-> "", transport |-> "", tun6 |-> FALSE,
            prot |-> Nil, mesh |-> Nil, relay |-> Nil]

----------------------------------------------------------------------------
\* Relay options and the mesh section.

On(m) == m # Nil /\ m.on

MeshToRelayOptions(m) ==
    [ZeroRelay EXCEPT
        !.id = m.id, !.key = m.key, !.dht = m.dht, !.gossip = m.gossip,
        !.peerKbps = m.peerKbps, !.kbps = m.kbps, !.hops = m.hops,
        !.path = m.p2p, !.udp = m.p2p /\ m.udp, !.tcp = IF m.p2p /\ m.tcp THEN "yes" ELSE "no",
        !.stun = IF m.stunOn THEN m.stun ELSE "",
        !.disc = IF m.sr THEN m.disc ELSE "",
        !.listen = IF m.vol THEN m.listen ELSE "",
        !.srflx = m.vol /\ m.stunOn /\ m.srflx]

RelayOptionsWithMeshOverlay(legacy, m) ==
    IF legacy = Nil THEN MeshToRelayOptions(m)
    ELSE [MeshToRelayOptions(m) EXCEPT !.turn = legacy.turn, !.geo = legacy.geo, !.stake = legacy.stake]

EffectiveRelayOptions(cfg) ==
    IF On(cfg.mesh) THEN RelayOptionsWithMeshOverlay(cfg.relay, cfg.mesh) ELSE cfg.relay

RelayOptionsHasMeshProfileData(r) ==
    r.id # "" \/ r.disc # "" \/ r.stun # "" \/ r.dht # "" \/ r.listen # ""

RelayOptionsHasCarryOverData(r) == r.turn # "" \/ r.geo # ""

\* Mutant: what the mesh section has no field for is dropped.
CarriesNothing(r) == Nil

LegacyRelayCarryOver(r) ==
    IF RelayOptionsHasCarryOverData(r)
      THEN [ZeroRelay EXCEPT !.turn = r.turn, !.geo = r.geo]
      ELSE Nil

RelayOptionsToMesh(r, base) ==
    [(IF base = Nil THEN ZeroMesh ELSE base) EXCEPT
        !.on = TRUE,
        !.id = r.id, !.key = r.key, !.listen = r.listen, !.vol = r.listen # "",
        !.peerKbps = IF r.peerKbps <= 0 THEN r.kbps ELSE r.peerKbps,
        !.p2p = r.path, !.udp = r.udp, !.tcp = r.tcp # "no",
        !.sr = TRUE, !.disc = r.disc,
        !.stunOn = r.stun # "" \/ r.srflx, !.stun = r.stun, !.srflx = r.srflx,
        !.gossip = r.gossip, !.dht = r.dht,
        !.kbps = r.kbps, !.hops = r.hops]

\* A relay section is migrated once: afterwards the mesh section is on.
Due(cfg) == cfg.relay # Nil /\ ~On(cfg.mesh) /\ RelayOptionsHasMeshProfileData(cfg.relay)

MigrateLegacyRelayToMesh(cfg) ==
    IF Due(cfg)
      THEN [cfg EXCEPT !.mesh = RelayOptionsToMesh(cfg.relay, cfg.mesh),
                       !.relay = LegacyRelayCarryOver(cfg.relay)]
      ELSE cfg

\* DefaultMeshMaxPeerHops, DefaultMeshVolunteerBudget, DefaultMeshPolicyBudget;
\* "rnd" stands for randomPeerID, "stun*" for DefaultSTUNServerList.
Or(v, default) == IF v = "" THEN default ELSE v
Pos(n, default) == IF n <= 0 THEN default ELSE n

ApplyMeshDefaults(m) ==
    IF ~m.on THEN m
    ELSE [m EXCEPT !.stunOn = TRUE, !.stun = Or(m.stun, "stun*"), !.srflx = m.srflx \/ m.vol,
                   !.sr = TRUE,
                   !.udp = m.udp \/ (m.p2p /\ ~m.tcp), !.tcp = m.tcp \/ (m.p2p /\ ~m.udp),
                   !.hops = Pos(m.hops, 2), !.kbps = Pos(m.kbps, 2048),
                   !.id = IF m.vol THEN Or(m.id, "rnd") ELSE m.id,
                   !.listen = IF m.vol THEN Or(m.listen, "any:0") ELSE m.listen,
                   !.peerKbps = IF m.vol THEN Pos(m.peerKbps, 768) ELSE m.peerKbps,
                   !.gossip = m.gossip \/ m.p2p \/ m.vol]

ApplyRelayDefaults(r) ==
    [r EXCEPT !.stun = Or(r.stun, "stun*"), !.hops = Pos(r.hops, 2),
              !.peerKbps = Pos(r.peerKbps, 768), !.kbps = Pos(r.kbps, 2048),
              !.id = Or(r.id, "rnd"),
              !.listen = IF r.udp THEN Or(r.listen, "any:0") ELSE r.listen,
              !.path = r.path \/ ~r.gossip,
              !.srflx = TRUE,
              !.tcp = IF r.tcp = "unset" THEN "yes" ELSE r.tcp,
              !.udp = r.udp \/ r.tcp # "no"]

----------------------------------------------------------------------------
\* Protection options.

Clamp(v, lo, hi) == IF v < lo THEN lo ELSE IF v > hi THEN hi ELSE v

\* ClampDpiLocalPreset: "long" is a text over the limit, "cut" what is left of it.
SanitizeProtection(p) ==
    IF p = Nil THEN Nil ELSE [p EXCEPT !.preset = IF p.preset = "long" THEN "cut" ELSE p.preset]

MergeDpiLocalEmbeddedDefaults(e) ==
    LET split == IF e # Nil /\ e.split > 0 THEN Clamp(e.split, 1, 65536) ELSE 1
        split2 == IF e # Nil /\ e.split2 > 0 THEN Clamp(e.split2, 1, 65536) ELSE 0
    IN  [split |-> split, split2 |-> IF split2 <= split THEN 0 ELSE split2]

ApplyClusterProtectionDefaults(p) ==
    [p EXCEPT !.paths = TRUE, !.planner = p.planner \/ p.route \in {"server_relay", "peer_relay"}]

ProtectionPresetBalanced == [ZeroProt EXCEPT !.obf = "default", !.junk = 4]
ProtectionPresetStrict == [ZeroProt EXCEPT !.obf = "enhanced", !.junk = 8, !.rot = TRUE]

\* ApplyAntiDpiPreset, from VOLTER_ANTIDPI_PRESET; an unknown name is moderate.
AntiDpi(obf, junk, rot, split, split2) ==
    [ZeroProt EXCEPT !.obf = obf, !.junk = junk, !.rot = rot, !.engine = "embedded",
                     !.emb = [split |-> split, split2 |-> split2]]
ApplyAntiDpiPreset(preset) ==
    CASE preset = "none"       -> ZeroProt
      [] preset = "light"      -> AntiDpi("enhanced", 3, FALSE, 2, 0)
      [] preset = "aggressive" -> AntiDpi("enhanced", 12, TRUE, 3, 7)
      [] preset = "paranoid"   -> AntiDpi("enhanced", 20, TRUE, 2, 5)
      [] OTHER                 -> AntiDpi("enhanced", 6, TRUE, 4, 0)

\* mergeProtectionOptions: the numbers and texts that are set override; the
\* flags, the engine, the preset text and the route are not copied.
MergeProtectionOptions(base, over) ==
    LET e == IF base.emb = Nil THEN [split |-> 0, split2 |-> 0] ELSE base.emb
    IN  [base EXCEPT
           !.obf = Or(over.obf, base.obf), !.junk = Pos(over.junk, base.junk),
           !.emb = IF over.emb = Nil THEN base.emb
                   ELSE [split |-> Pos(over.emb.split, e.split), split2 |-> Pos(over.emb.split2, e.split2)]]

\* The embedded engine is topped up in place: the struct that base.DpiLocalEmbedded
\* points to is the one of the profile the options were copied from.
TopsUpEmbedded(p, env) == env = "" /\ ~p.alone /\ p.engine # "external" /\ p.preset = ""
TopUpEmbedded(p, env) ==
    IF TopsUpEmbedded(p, env) /\ p.emb # Nil
      THEN [p EXCEPT !.emb.split = Pos(p.emb.split, 4)]
      ELSE p

\* Mutant: an absent number and a set one are both replaced.
TopUpOverrides(p, transport, env) == [p EXCEPT !.junk = 6]

MergeAntiDpiTransportTopUp(p, transport, env) ==
    IF env = "off" \/ (env = "" /\ p.alone) THEN p
    ELSE IF env # "" THEN MergeProtectionOptions(ApplyAntiDpiPreset(env), p)
    ELSE LET q == [TopUpEmbedded(p, env) EXCEPT
                     !.obf = Or(p.obf, "enhanced"), !.junk = Pos(p.junk, 6),
                     !.rot = p.rot \/ transport = "tcp"]
         IN  IF ~TopsUpEmbedded(p, env) THEN q
             ELSE [q EXCEPT !.engine = Or(p.engine, "embedded"),
                            !.emb = IF p.emb = Nil THEN [split |-> 4, split2 |-> 0] ELSE q.emb]

----------------------------------------------------------------------------
\* Connections and files.

\* ParseConnection and its kin: a text is no connection, a host:port:key, a
\* volter:// link, which carries a public key, or a voultkey, whose servers are
\* tried in order and which carries the identity of a managed client.
Link == [bad |-> [ok |-> FALSE, pub |-> "", managed |-> Nil],
         plain |-> [ok |-> TRUE, pub |-> "", managed |-> Nil],
         link |-> [ok |-> TRUE, pub |-> "pub", managed |-> Nil],
         key |-> [ok |-> TRUE, pub |-> "", managed |-> [client |-> "id"]]]
ParseConnection(text) == Link[text]

\* BuildConnectionURI: a link is rebuilt from server, token and public key.
BuildConnectionURI(cfg) ==
    IF cfg.server = "" THEN "bad" ELSE IF cfg.pub = "" THEN "plain" ELSE "link"

\* SanitizeManagedInPlace: without client id or secret nothing is left of it.
SanitizeManaged(m) == IF m = Nil THEN Nil ELSE IF m.client = "" THEN [client |-> ""] ELSE m

\* Load and Save pass every profile through the same three repairs.
Repair(cfg) ==
    MigrateLegacyRelayToMesh([cfg EXCEPT !.managed = SanitizeManaged(cfg.managed),
                                         !.prot = SanitizeProtection(cfg.prot)])

\* ApplyCloudConnectDefaults; mode is what the last probe of the name said.
ApplyCloudConnectDefaults(cfg, mode, v6) ==
    LET tcp == cfg.transport = "tcp" \/ mode = "tcp only"
    IN  [cfg EXCEPT !.transport = IF tcp THEN "tcp" ELSE cfg.transport,
                    !.quic = IF tcp THEN "" ELSE IF cfg.quic \in {"", cfg.server} THEN "4433" ELSE cfg.quic,
                    !.tun6 = cfg.tun6 \/ v6]

============================================================================
