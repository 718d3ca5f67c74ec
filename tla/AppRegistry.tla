----------------------------- MODULE AppRegistry -----------------------------
(***************************************************************************)
(* The columns of the apps table the payment handlers read: the KYC level, *)
(* which sets the cap of a transaction, and is_active, which RequireApp    *)
(* checks before any handler of /v1 runs.  The admin handlers write them.  *)
(***************************************************************************)
EXTENDS PaymentModel

CONSTANTS
  Apps,          \* client applications
  LevelApps,     \* applications whose KYC level the administrator changes
  ActiveApps     \* applications the administrator turns off and on

VARIABLES kyc, active

registryVars == <<kyc, active>>

RegistryTypeOK ==
  /\ kyc \in [Apps -> KYCLevels]
  /\ active \in [Apps -> BOOLEAN]

\* Defaults of a row of apps (migrations 001 and 004).
RegistryInit ==
  /\ kyc = [a \in Apps |-> "none"]
  /\ active = [a \in Apps |-> TRUE]

SetAppKYC(a, level) ==
  /\ level # kyc[a]
  /\ kyc' = [kyc EXCEPT ![a] = level]
  /\ UNCHANGED active

SetAppActive(a, on) ==
  /\ on # active[a]
  /\ active' = [active EXCEPT ![a] = on]
  /\ UNCHANGED kyc

RegistryNext ==
  \/ \E a \in LevelApps, level \in KYCLevels : SetAppKYC(a, level)
  \/ \E a \in ActiveApps, on \in BOOLEAN : SetAppActive(a, on)
=============================================================================
