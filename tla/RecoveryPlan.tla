---------------------------- MODULE RecoveryPlan ----------------------------
(***************************************************************************)
(* The failure-aware execution plan of radp/coordinator/recovery_plan.py.  *)
(*                                                                         *)
(* A placement is a sequence of devices: position i of the sequence is the *)
(* i-th layer range, so the order of the layers is the order of the        *)
(* sequence and a stage keeps its layer range when it changes hands.  A    *)
(* recovery table R maps a device to its backup; R.get(d) = None is        *)
(* R[d] = NoDevice.                                                        *)
(***************************************************************************)
EXTENDS Naturals, Sequences

CONSTANTS Device,    \* the workers the coordinator knows an address of
          NoDevice   \* Python's None

ASSUME NoDeviceIsNoDevice == NoDevice \notin Device

MaybeDevice == Device \cup {NoDevice}

RecoveryTable == [Device -> MaybeDevice]

\* R = {}: the table of a placement solved without backups.
NoBackups == [d \in Device |-> NoDevice]

\* A placement uses each device for at most one layer range.
Placements == {p \in Seq(Device) :
                 /\ p # << >>
                 /\ \A i, j \in DOMAIN p : p[i] = p[j] => i = j}

Owners(p) == {p[i] : i \in DOMAIN p}

(***************************************************************************)
(* build_execution_plan raises NoRecoveryError at the first dead stage     *)
(* whose backup is missing or dead; it returns a plan exactly when there   *)
(* is no such stage.                                                       *)
(***************************************************************************)
Viable(p, R, dead) ==
  \A i \in DOMAIN p :
    p[i] \in dead => R[p[i]] # NoDevice /\ R[p[i]] \notin dead

Serving(p, R, dead, i) == IF p[i] \in dead THEN R[p[i]] ELSE p[i]

build_execution_plan(p, R, dead) ==
  [i \in DOMAIN p |-> Serving(p, R, dead, i)]
=============================================================================
