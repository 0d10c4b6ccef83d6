--------------------------- MODULE SystemAuthDomain ---------------------------
(***************************************************************************)
(* The protection domain of the Android key store (WalletUnlockKeyStore)    *)
(* and the signer authorization and React Native module that drive it.      *)
(*                                                                          *)
(* One key pair of the operating system wraps the unlock keys of all local  *)
(* signers.  The preferences name the active pair and hold the wrapped      *)
(* keys; commit() changes them in memory first and then on disk, and may    *)
(* fail in between.  Two threads work on them: the native-modules thread    *)
(* runs the exported methods one after the other, the main thread runs the  *)
(* callbacks of the biometric prompt.  The process may end at any point;    *)
(* the key store and the preferences on disk survive it.                    *)
(*                                                                          *)
(* The key that opens an envelope is identified with the version of the     *)
(* envelope: re-protection makes a new one.                                 *)
(***************************************************************************)
EXTENDS Naturals, FiniteSets

CONSTANTS
    Signers,     \* public keys of the protected software signers
    Aliases,     \* names of key pairs; every enrolment takes a fresh one
    MaxVersion,  \* bound: re-protections of the signers
    WritesFail,  \* whether commit() may fail to write the preferences
    None

ASSUME MaxVersionIsNat == MaxVersion \in Nat
ASSUME WritesFailIsBoolean == WritesFail \in BOOLEAN
ASSUME NoneIsNoAlias == None \notin Aliases

VARIABLES
    keys,       \* key pairs in the AndroidKeyStore
    spoiled,    \* pairs a change of the enrolled biometrics has invalidated
    spent,      \* aliases generated so far
    memory,     \* SharedPreferences as the process sees them
    disk,       \* SharedPreferences as a restart finds them
    version,    \* signer -> version of its envelope in the application's database
    busy,       \* authenticationInProgress
    prompt,     \* the session behind the biometric prompt on screen
    main,       \* what the main thread is in the middle of
    native,     \* what the native-modules thread is in the middle of
    closed      \* a removal of the domain was reported done, and nothing registered since

vars == <<keys, spoiled, spent, memory, disk, version, busy, prompt, main, native, closed>>

Record == [alias : Aliases, unlocks : 0 .. MaxVersion]
Preferences == [active : Aliases \cup {None}, signers : [Signers -> Record \cup {None}]]

\* The sessions behind a prompt.
Prompts ==
    [kind : {"domain"}, alias : Aliases]
        \cup [kind : {"sign"}, alias : Aliases, signer : Signers,
              envelope : 0 .. MaxVersion, wrapped : 0 .. MaxVersion]

ASSUME NoneIsNoPrompt == None \notin Prompts

Cleared == [active |-> None, signers |-> [s \in Signers |-> None]]

Idle == [at |-> "idle"]

Init ==
    /\ keys = {} /\ spoiled = {} /\ spent = {}
    /\ memory = Cleared /\ disk = Cleared
    /\ version = [s \in Signers |-> 0]
    /\ busy = FALSE /\ prompt = None
    /\ main = Idle /\ native = Idle
    /\ closed = FALSE

\* requireActiveAlias: the preferences name a pair and the key store still has it.
HasDomain == memory.active # None /\ memory.active \in keys

\* A private-key operation of the pair succeeds.
Opens(alias) == alias \in keys \ spoiled

\* Editor.commit(): the process sees the edit at once; the write to disk may fail, and commit()
\* then returns false.
Commit(edited, written) ==
    /\ ~written => WritesFail
    /\ memory' = edited
    /\ disk' = IF written THEN edited ELSE disk

----------------------------------------------------------------------------
\* The native-modules thread.

\* initializeSystemAuth / beginDomainEnrollment: a fresh pair, and a prompt over its cipher.
InitializeSystemAuth ==
    /\ native = Idle /\ ~busy
    /\ \E alias \in Aliases \ spent :
          /\ keys' = keys \cup {alias}
          /\ spent' = spent \cup {alias}
          /\ prompt' = [kind |-> "domain", alias |-> alias]
    /\ busy' = TRUE
    /\ UNCHANGED <<spoiled, memory, disk, version, main, native, closed>>

\* registerSignerSystemAuth up to the wrapping: the passcode has opened the envelope, the
\* active pair's public key wraps its unlock key.
BeginRegister(s) ==
    /\ native = Idle /\ HasDomain
    /\ native' = [at |-> "register", signer |-> s,
                  record |-> [alias |-> memory.active, unlocks |-> version[s]]]
    /\ UNCHANGED <<keys, spoiled, spent, memory, disk, version, busy, prompt, main, closed>>

\* ... and the commit of the wrapped key.
StoreRegistration ==
    /\ native.at = "register"
    /\ \E written \in BOOLEAN :
          Commit([memory EXCEPT !.signers[native.signer] = native.record], written)
    /\ native' = Idle
    /\ closed' = FALSE
    /\ UNCHANGED <<keys, spoiled, spent, version, busy, prompt, main>>

RemoveSigner(s) ==
    /\ native = Idle
    /\ \E written \in BOOLEAN : Commit([memory EXCEPT !.signers[s] = None], written)
    /\ UNCHANGED <<keys, spoiled, spent, version, busy, prompt, main, native, closed>>

\* deleteDomain: the active alias is read, ...
BeginRemoveDomain ==
    /\ native = Idle
    /\ native' = [at |-> "clear", alias |-> memory.active]
    /\ UNCHANGED <<keys, spoiled, spent, memory, disk, version, busy, prompt, main, closed>>

\* ... the preferences are cleared, ...
ClearPreferences ==
    /\ native.at = "clear"
    /\ \E written \in BOOLEAN :
          /\ Commit(Cleared, written)
          /\ native' = IF written THEN [native EXCEPT !.at = "delete"] ELSE Idle
    /\ UNCHANGED <<keys, spoiled, spent, version, busy, prompt, main, closed>>

\* ... and the pair goes last.
\* Mutant: the pair is left to the operating system.
ForgetDomain ==
    /\ native.at = "delete"
    /\ native' = Idle
    /\ closed' = TRUE
    /\ UNCHANGED <<keys, spoiled, spent, memory, disk, version, busy, prompt, main>>

DeleteDomainKey ==
    /\ native.at = "delete"
    /\ keys' = keys \ {native.alias}
    /\ native' = Idle
    /\ closed' = TRUE
    /\ UNCHANGED <<spoiled, spent, memory, disk, version, busy, prompt, main>>

\* signWithSystemAuth / beginUnlock: the session keeps the wrapped key and the envelope the
\* caller passed, which is the one in its database.
SignWithSystemAuth(s) ==
    /\ native = Idle /\ ~busy
    /\ HasDomain /\ Opens(memory.active)
    /\ memory.signers[s] # None
    /\ memory.signers[s].alias = memory.active
    /\ busy' = TRUE
    /\ prompt' = [kind |-> "sign", alias |-> memory.active, signer |-> s,
                  envelope |-> version[s], wrapped |-> memory.signers[s].unlocks]
    /\ UNCHANGED <<keys, spoiled, spent, memory, disk, version, main, native, closed>>

----------------------------------------------------------------------------
\* The main thread: the callbacks of the prompt.

\* onAuthenticationError: a pending pair is deleted, a signing session only dropped.
\* Mutant: the operation in progress is left marked.
PromptErrorStaysBusy ==
    /\ main = Idle /\ prompt # None
    /\ keys' = IF prompt.kind = "domain" THEN keys \ {prompt.alias} ELSE keys
    /\ prompt' = None
    /\ UNCHANGED <<spoiled, spent, memory, disk, version, busy, main, native, closed>>

PromptError ==
    /\ main = Idle /\ prompt # None
    /\ keys' = IF prompt.kind = "domain" THEN keys \ {prompt.alias} ELSE keys
    /\ prompt' = None /\ busy' = FALSE
    /\ UNCHANGED <<spoiled, spent, memory, disk, version, main, native, closed>>

\* onAuthenticationSucceeded of a signing prompt: the wrapped key is opened and Core signs when
\* it is the key of the envelope; a failure of either rejects the promise.
FinishSign ==
    /\ main = Idle /\ prompt # None /\ prompt.kind = "sign"
    /\ main' = [at |-> "signed", ok |-> Opens(prompt.alias) /\ prompt.wrapped = prompt.envelope,
                wrapped |-> prompt.wrapped, envelope |-> prompt.envelope]
    /\ prompt' = None
    /\ UNCHANGED <<keys, spoiled, spent, memory, disk, version, busy, native, closed>>

\* onAuthenticationSucceeded of an enrolment: the challenge is decrypted and the active alias
\* read.  A pair that does not open is deleted and the promise rejected.
BeginFinishDomain ==
    /\ main = Idle /\ prompt # None /\ prompt.kind = "domain"
    /\ main' = IF Opens(prompt.alias)
               THEN [at |-> "commit", alias |-> prompt.alias, previous |-> memory.active]
               ELSE [at |-> "discard", alias |-> prompt.alias]
    /\ prompt' = None
    /\ UNCHANGED <<keys, spoiled, spent, memory, disk, version, busy, native, closed>>

\* Mutant: the previous pair is deleted before the commit.
CommitDomainLast ==
    /\ main.at = "commit"
    /\ IF main.previous \in keys
       THEN /\ keys' = keys \ {main.previous}
            /\ UNCHANGED <<memory, disk, main>>
       ELSE \E written \in BOOLEAN :
               /\ Commit([Cleared EXCEPT !.active = main.alias], written)
               /\ main' = IF written THEN [main EXCEPT !.at = "retire"]
                          ELSE [at |-> "discard", alias |-> main.alias]
               /\ UNCHANGED keys
    /\ UNCHANGED <<spoiled, spent, version, busy, prompt, native, closed>>

\* The new alias replaces the old one and every registration goes, in one commit.
CommitDomain ==
    /\ main.at = "commit"
    /\ \E written \in BOOLEAN :
          /\ Commit([Cleared EXCEPT !.active = main.alias], written)
          /\ main' = IF written THEN [main EXCEPT !.at = "retire"]
                     ELSE [at |-> "discard", alias |-> main.alias]
    /\ UNCHANGED <<keys, spoiled, spent, version, busy, prompt, native, closed>>

\* The previous pair is deleted once nothing on disk names it, or the pending one when the
\* commit failed; the callback ends.
EndFinishDomain ==
    /\ main.at \in {"retire", "discard"}
    /\ keys' = keys \ {IF main.at = "retire" THEN main.previous ELSE main.alias}
    /\ main' = Idle /\ busy' = FALSE
    /\ UNCHANGED <<spoiled, spent, memory, disk, version, prompt, native, closed>>

EndFinishSign ==
    /\ main.at = "signed"
    /\ main' = Idle /\ busy' = FALSE
    /\ UNCHANGED <<keys, spoiled, spent, memory, disk, version, prompt, native, closed>>

----------------------------------------------------------------------------
\* The surroundings.

\* The application re-protects every signer and replaces the envelopes in one transaction.
RotatePasscode ==
    /\ \A s \in Signers : version[s] < MaxVersion
    /\ version' = [s \in Signers |-> version[s] + 1]
    /\ UNCHANGED <<keys, spoiled, spent, memory, disk, busy, prompt, main, native, closed>>

\* setInvalidatedByBiometricEnrollment: the entries stay, their private keys stop working.
BiometricsChange ==
    /\ keys \ spoiled # {}
    /\ spoiled' = spoiled \cup keys
    /\ UNCHANGED <<keys, spent, memory, disk, version, busy, prompt, main, native, closed>>

\* The process ends and starts again.
Crash ==
    /\ memory' = disk
    /\ busy' = FALSE /\ prompt' = None /\ main' = Idle /\ native' = Idle
    /\ UNCHANGED <<keys, spoiled, spent, disk, version, closed>>

NativeThread ==
    \/ InitializeSystemAuth \/ StoreRegistration
    \/ BeginRemoveDomain \/ ClearPreferences \/ DeleteDomainKey
    \/ \E s \in Signers : BeginRegister(s) \/ RemoveSigner(s) \/ SignWithSystemAuth(s)

MainThread ==
    \/ PromptError \/ FinishSign \/ BeginFinishDomain
    \/ CommitDomain \/ EndFinishDomain \/ EndFinishSign

Next ==
    \/ NativeThread \/ MainThread
    \/ RotatePasscode \/ BiometricsChange \/ Crash

Spec == Init /\ [][Next]_vars

\* The system ends every prompt with one of its two final callbacks, and the main thread runs
\* what is posted to it.
LiveSpec == Spec /\ WF_vars(MainThread)

----------------------------------------------------------------------------
TypeOK ==
    /\ keys \subseteq spent /\ spent \subseteq Aliases
    /\ spoiled \subseteq spent
    /\ memory \in Preferences /\ disk \in Preferences
    /\ version \in [Signers -> 0 .. MaxVersion]
    /\ busy \in BOOLEAN /\ closed \in BOOLEAN
    /\ prompt \in Prompts \cup {None}
    /\ (prompt # None \/ main # Idle) <=> busy
    /\ ~(prompt # None /\ main # Idle)

\* The domain a restart would find on disk has its key pair: at no point, whatever the two
\* threads are in the middle of when the process ends, has the application deleted the pair
\* the preferences on disk name.  (Where commits fail this does not hold: the edit stays in
\* memory, and a later commit writes the alias of a pair that was discarded.)
DurableDomainHasItsKey == disk.active # None => disk.active \in keys

\* After the removal of the domain was reported done, no signature is made by system
\* authorization until a signer is registered anew; not even by a prompt that was on screen
\* all along.
RemovedDomainIsClosed ==
    [][main' # main /\ main'.at = "signed" /\ main'.ok => ~closed]_vars

\* The authentication in progress always ends, so that a later one is not refused for ever.
AuthenticationEnds == busy ~> ~busy

\* hasDomain returns "whether the device-level protection domain is currently usable": a domain
\* it reports opens when the user authenticates.
DomainIsUsable == HasDomain => Opens(memory.active)

=============================================================================
