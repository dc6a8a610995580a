----------------------------- MODULE SelfUpdate -----------------------------
(***************************************************************************)
(* Client, internal/update and the update keys of internal/tui/model.go:   *)
(* the check for a newer release, the question to the user beside the one  *)
(* about deleting a profile, the download into <exe>.new.partial, its      *)
(* checksum, the two renames and the exec.  The process may be killed      *)
(* between any two steps; it is then started again from the executable.    *)
(***************************************************************************)
EXTENDS Integers, Sequences

CONSTANTS
    Current,      \* the version that runs, parsed
    Releases,     \* what releases/latest may answer, parsed; <<>> an error
    MaxKills      \* bound: times the process is killed

ASSUME UpdateAssumption == MaxKills \in Nat

VARIABLES
    updUi,        \* tab, m.updateAvailable, m.updateAwaitingConfirm, m.deletingCfg
    step,         \* where runApplyUpdate is; "idle": m.updateBusy is empty
    sum,          \* a checksum of the asset was found
    file,         \* <exe>.new.partial, <exe>.new and the executable
    run,          \* what the process was started from
    unsure,       \* ghost: a download was installed without a checksum
    kills

updVars == <<updUi, step, sum, file, run, unsure, kills>>

Asleep == [tab |-> "home", avail |-> FALSE, ask |-> FALSE, deleting |-> FALSE]

UpdInit ==
    /\ updUi = Asleep /\ step = "idle" /\ sum = FALSE
    /\ file = [partial |-> "none", new |-> "none", exe |-> "old"]
    /\ run = "old" /\ unsure = FALSE /\ kills = 0

\* parseVersion keeps three numbers; a missing one counts as 0.
Part(v, i) == IF i <= Len(v) THEN v[i] ELSE 0
Newer(a, b) ==
    \E i \in 1 .. 3 : /\ Part(a, i) > Part(b, i)
                      /\ \A j \in 1 .. i - 1 : Part(a, j) = Part(b, j)

\* CheckLatest; "dev" builds take any release.
CheckLatest ==
    /\ ~updUi.avail
    /\ \E r \in Releases : r # <<>> /\ (Current = <<>> \/ Newer(r, Current))
    /\ updUi' = [updUi EXCEPT !.avail = TRUE]
    /\ UNCHANGED <<step, sum, file, run, unsure, kills>>

----------------------------------------------------------------------------
\* The two questions.  y answers the update first, n and esc as well; leaving
\* the tab takes back the question about the profile only.

Asks ==
    /\ UNCHANGED <<step, sum, file, run, unsure, kills>>
    /\ \/ updUi.tab = "home" /\ updUi.avail /\ step = "idle" /\ updUi' = [updUi EXCEPT !.ask = TRUE]
       \/ updUi.tab = "config" /\ ~updUi.deleting /\ updUi' = [updUi EXCEPT !.deleting = TRUE]
       \/ \E t \in {"home", "config"} \ {updUi.tab} : updUi' = [updUi EXCEPT !.tab = t, !.deleting = FALSE]

No ==
    /\ UNCHANGED <<step, sum, file, run, unsure, kills>>
    /\ \/ updUi.ask /\ updUi' = [updUi EXCEPT !.ask = FALSE]
       \/ ~updUi.ask /\ updUi.deleting /\ updUi' = [updUi EXCEPT !.deleting = FALSE]

\* (The tunnel is taken down first, which ClientApp has among its stops.)
Yes ==
    /\ UNCHANGED <<sum, file, run, unsure, kills>>
    /\ \/ /\ updUi.ask /\ updUi.avail /\ step = "idle"
          /\ updUi' = [updUi EXCEPT !.ask = FALSE] /\ step' = "asset"
       \/ /\ ~(updUi.ask /\ updUi.avail /\ step = "idle") /\ updUi.deleting
          /\ updUi' = [updUi EXCEPT !.deleting = FALSE] /\ UNCHANGED step

----------------------------------------------------------------------------
\* runApplyUpdate, one step per file operation.  An error is reported and
\* leaves the client running.

\* AssetForTag: no asset is an error, no checksum is not.  Apply removes .new.
AssetForTag ==
    /\ step = "asset"
    /\ \/ step' = "idle" /\ UNCHANGED <<sum, file>>
       \/ sum' \in BOOLEAN /\ step' = "open" /\ file' = [file EXCEPT !.new = "none"]
    /\ UNCHANGED <<updUi, run, unsure, kills>>

OpenPartial ==
    /\ step = "open"
    /\ \/ step' = "idle" /\ UNCHANGED file
       \/ step' = "copy" /\ file' = [file EXCEPT !.partial = "cut"]
    /\ UNCHANGED <<updUi, sum, run, unsure, kills>>

\* The copy fails, or ends with what the server sent.
CopyPartial ==
    /\ step = "copy"
    /\ \/ step' = "idle" /\ file' = [file EXCEPT !.partial = "none"]
       \/ step' = "verify" /\ \E c \in {"good", "bad"} : file' = [file EXCEPT !.partial = c]
    /\ UNCHANGED <<updUi, sum, run, unsure, kills>>

\* Mutant: a checksum that does not match is only reported.
VerifyOnlyReports ==
    /\ step = "verify" /\ step' = "install"
    /\ file' = [file EXCEPT !.partial = "none", !.new = file.partial]
    /\ UNCHANGED <<updUi, sum, run, unsure, kills>>

Verify ==
    /\ step = "verify"
    /\ IF sum /\ file.partial = "bad"
         THEN step' = "idle" /\ file' = [file EXCEPT !.partial = "none"]
         ELSE \/ step' = "idle" /\ file' = [file EXCEPT !.partial = "none"]
              \/ step' = "install" /\ file' = [file EXCEPT !.partial = "none", !.new = file.partial]
    /\ UNCHANGED <<updUi, sum, run, unsure, kills>>

\* chmod and rename over the executable; if the rename fails, .new is executed
\* where it lies, and removed when that fails too.
Install ==
    /\ step = "install"
    /\ \/ /\ step' = "idle" /\ file' = [file EXCEPT !.new = "none"]
          /\ UNCHANGED <<updUi, run, unsure>>
       \/ /\ step' = "exec" /\ file' = [file EXCEPT !.new = "none", !.exe = file.new]
          /\ unsure' = (unsure \/ ~sum)
          /\ UNCHANGED <<updUi, run>>
       \/ /\ step' = "idle" /\ updUi' = Asleep /\ run' = file.new /\ UNCHANGED file
          /\ unsure' = (unsure \/ ~sum)
    /\ UNCHANGED <<sum, kills>>

\* The process image is replaced, and the UI starts over; or that fails.
Exec ==
    /\ step = "exec" /\ step' = "idle"
    /\ \/ updUi' = Asleep /\ run' = file.exe
       \/ UNCHANGED <<updUi, run>>
    /\ UNCHANGED <<sum, file, unsure, kills>>

Killed ==
    /\ kills < MaxKills /\ kills' = kills + 1
    /\ step' = "idle" /\ updUi' = Asleep /\ run' = file.exe
    /\ UNCHANGED <<sum, file, unsure>>

UpdNext ==
    \/ CheckLatest \/ Asks \/ No \/ Yes
    \/ AssetForTag \/ OpenPartial \/ CopyPartial \/ Verify \/ Install \/ Exec
    \/ Killed

UpdSpec == UpdInit /\ [][UpdNext]_updVars

----------------------------------------------------------------------------
UpdTypeOK ==
    /\ step \in {"idle", "asset", "open", "copy", "verify", "install", "exec"}
    /\ file \in [partial : {"none", "cut", "good", "bad"}, new : {"none", "good", "bad"}, exe : {"old", "good", "bad"}]
    /\ run \in {"old", "good", "bad"}

\* Whatever is killed and whenever, the client runs, and will be started from,
\* the old executable or a whole download that matched its checksum; a damaged
\* one only if the release had no checksum the client could fetch.
RunsWhatWasChecked == ~unsure => {run, file.exe} \subseteq {"old", "good"}

=============================================================================
