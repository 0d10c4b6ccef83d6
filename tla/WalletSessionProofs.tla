-------------------------- MODULE WalletSessionProofs --------------------------
(***************************************************************************)
(* The three scenarios of MCWalletSessions inherit what WalletStoreProofs  *)
(* proves of the wallet home: a scenario never becomes another one, its    *)
(* steps are those of its instance, and each instance meets the            *)
(* assumptions of the theorem it needs.                                    *)
(***************************************************************************)
EXTENDS MCWalletSessions, TLAPS

LEMMA ManagerAssumptions ==
    /\ Manager!BoundAssumption /\ Manager!PlatformAssumption /\ Manager!SentinelAssumption
    /\ Manager!OneProcess
BY ValuesAssumption
   DEF Manager!BoundAssumption, Manager!PlatformAssumption, Manager!SentinelAssumption,
       Manager!OneProcess, Records

LEMMA KeysAssumptions ==
    Keys!BoundAssumption /\ Keys!PlatformAssumption /\ Keys!SentinelAssumption
BY ValuesAssumption
   DEF Keys!BoundAssumption, Keys!PlatformAssumption, Keys!SentinelAssumption, Records

LEMMA PlatformAssumptions ==
    /\ Platform!BoundAssumption /\ Platform!PlatformAssumption /\ Platform!SentinelAssumption
    /\ Platform!OneProcess
    /\ "reprotect" \notin Files
BY ValuesAssumption
   DEF Platform!BoundAssumption, Platform!PlatformAssumption, Platform!SentinelAssumption,
       Platform!OneProcess, Records, Files

----------------------------------------------------------------------------
\* A scenario that has begun goes on, with the steps of its instance.
LEMMA ManagerRuns == Spec => (scenario = "manager" => Manager!Spec)
<1>1. Init /\ scenario = "manager" => Manager!Init
  BY DEF Init
<1>2. [Next]_vars /\ scenario = "manager" => (scenario = "manager")' /\ [Manager!Next]_(Manager!vars)
  BY DEF Next, vars, Manager!vars, Manager!home
<1> QED
  BY <1>1, <1>2, PTL DEF Spec, Manager!Spec

LEMMA KeysRun == Spec => (scenario = "keys" => Keys!Spec)
<1>1. Init /\ scenario = "keys" => Keys!Init
  BY DEF Init
<1>2. [Next]_vars /\ scenario = "keys" => (scenario = "keys")' /\ [Keys!Next]_(Keys!vars)
  BY DEF Next, vars, Keys!vars, Keys!home
<1> QED
  BY <1>1, <1>2, PTL DEF Spec, Keys!Spec

LEMMA PlatformRuns == Spec => (scenario = "platform" => Platform!Spec)
<1>1. Init /\ scenario = "platform" => Platform!Init
  BY DEF Init
<1>2. [Next]_vars /\ scenario = "platform"
        => (scenario = "platform")' /\ [Platform!Next]_(Platform!vars)
  BY DEF Next, vars, Platform!vars, Platform!home
<1> QED
  BY <1>1, <1>2, PTL DEF Spec, Platform!Spec

----------------------------------------------------------------------------
\* Another scenario does not turn into this one.
LEMMA OthersStay ==
    /\ [Next]_vars /\ ~(scenario = "manager") => ~(scenario = "manager")'
    /\ [Next]_vars /\ ~(scenario = "keys") => ~(scenario = "keys")'
    /\ [Next]_vars /\ ~(scenario = "platform") => ~(scenario = "platform")'
BY DEF Next, vars

\* manager.py delete_wallet, downgrade_to_watch and reprotect_signer lock the session they
\* outdate, and storage.rs delete and set_default keep the default pointer on a wallet:
\* with every operation and no end inside one, both hold between operations.
THEOREM ManagerIsCurrent == Spec => []SessionIsCurrent
<1>1. Manager!Spec => []Manager!SessionIsCurrent
  BY ManagerAssumptions, Manager!SessionsAreCurrent
<1>2. Manager!Spec => []Manager!DefaultNamesWallet
  BY ManagerAssumptions, Manager!DefaultIsAWallet
<1>3. [Next]_vars /\ ~(scenario = "manager") => ~(scenario = "manager")'
  BY OthersStay
<1>4. Manager!SessionIsCurrent /\ Manager!DefaultNamesWallet => SessionIsCurrent
  BY DEF SessionIsCurrent
<1>5. ~(scenario = "manager") => SessionIsCurrent
  BY DEF SessionIsCurrent
<1> QED
  BY <1>1, <1>2, <1>3, <1>4, <1>5, ManagerRuns, PTL DEF Spec

\* client_system_unlock.py and validate_unlock_key: however two processes enrol, replace,
\* restore and unlock the keys of a wallet, a session's key is that of its record.
THEOREM KeysFitSessions == Spec => []SessionKeyFits
<1>1. Keys!Spec => []Keys!SessionKeyFits
  BY KeysAssumptions, Keys!SessionKeysFit
<1>2. [Next]_vars /\ ~(scenario = "keys") => ~(scenario = "keys")'
  BY OthersStay
<1>3. Keys!SessionKeyFits => SessionKeyFits
  BY DEF SessionKeyFits
<1>4. ~(scenario = "keys") => SessionKeyFits
  BY DEF SessionKeyFits
<1> QED
  BY <1>1, <1>2, <1>3, <1>4, KeysRun, PTL DEF Spec

\* validate_app_passcode: where no signer is re-protected on its own, one passcode opens
\* every signer, also where a file is removed before it is replaced and the process ends
\* in between.
THEOREM PlatformKeepsOnePasscode == Spec => []OnePasscode
<1>1. Platform!Spec => []Platform!OnePasscode
  BY PlatformAssumptions, Platform!SignersShareAPasscode
<1>2. [Next]_vars /\ ~(scenario = "platform") => ~(scenario = "platform")'
  BY OthersStay
<1>3. Platform!OnePasscode => OnePasscode
  BY DEF OnePasscode
<1>4. ~(scenario = "platform") => OnePasscode
  BY DEF OnePasscode
<1> QED
  BY <1>1, <1>2, <1>3, <1>4, PlatformRuns, PTL DEF Spec

\* atomic_write on Windows: while a wallet's file is missing, and no deletion took it, a
\* complete record of its account lies beside it, wherever the process ended.
THEOREM PlatformKeepsReplacements == Spec => ReplacementIsOnDisk
<1> DEFINE Step == scenario = "platform" => Platform!KeepsReplacement
<1>1. Platform!Spec => [][Platform!KeepsReplacement]_(Platform!vars)
  BY PlatformAssumptions, Platform!ReplacementIsKept
<1>2. [Next]_vars /\ ~(scenario = "platform") => ~(scenario = "platform")'
  BY OthersStay
<1>3. UNCHANGED Platform!vars => Platform!KeepsReplacement
  BY PlatformAssumptions
     DEF Platform!KeepsReplacement, Platform!vars, Platform!home, Platform!SentinelAssumption
<1>4. [Platform!KeepsReplacement]_(Platform!vars) => [Step]_vars
  BY <1>3
<1>5. ~(scenario = "platform") => [Step]_vars
  OBVIOUS
<1> HIDE DEF Step
<1>6. Spec => [][Step]_vars
  BY <1>1, <1>2, <1>4, <1>5, PlatformRuns, PTL DEF Spec
<1> QED
  BY <1>6 DEF Step, ReplacementIsOnDisk

=============================================================================
