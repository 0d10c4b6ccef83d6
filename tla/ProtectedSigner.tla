-------------------------- MODULE ProtectedSigner --------------------------
(***************************************************************************)
(* Protected software signers as a host sees them through Core, the SDK    *)
(* and its bindings (core/rust client_api.rs, protected_signer.rs,         *)
(* protection.rs, secret_store.rs, wallet_material.rs, wallet.rs,          *)
(* sdk/rust, bindings/native, process and wasm).                           *)
(*                                                                         *)
(* Every call is a function of its arguments and keeps nothing; the state  *)
(* is the host's: the envelopes it stores, some of them written by earlier *)
(* versions or damaged, the unlock keys it was handed, the passcodes its   *)
(* user has typed and the signing material that was revealed to it.        *)
(*                                                                         *)
(* Key derivation is injective, authenticated decryption succeeds with the *)
(* key of the encryption only.  An envelope remembers in "id" when and in  *)
(* "origin" for what material it was made; no operation reads them.        *)
(***************************************************************************)
EXTENDS Naturals, FiniteSets

CONSTANTS
    Passes,         \* non-empty passcodes
    Secrets,        \* secret seeds
    Mnemonics,      \* recovery phrases
    Ambiguous,      \* those that are valid in two languages
    MaxIndex,       \* bound: MAX_ACCOUNT_INDEX
    MaxEnvelopes    \* bound: envelopes ever made

IndexAssumption == MaxIndex \in Nat /\ MaxEnvelopes \in Nat
AmbiguousAssumption == Ambiguous \subseteq Mnemonics

VARIABLES
    envelopes,  \* envelopes the host stores
    made,       \* number of envelopes made
    keys,       \* unlock keys the host was handed
    typed,      \* passcodes its user has typed
    revealed    \* signing material revealed to it

vars == <<envelopes, made, keys, typed, revealed>>

Empty == "empty passcode"
AnyPasscode == Passes \union {Empty}
PassesAssumption == Empty \notin Passes

-----------------------------------------------------------------------------
(***************************************************************************)
(* Signing material and the account it signs for.                          *)
(***************************************************************************)
Indices == 0..MaxIndex + 1
Languages == {"named", "missing"}
Materials ==
    [kind: {"secret"}, root: Secrets, index: {0}, language: {"named"}]
    \union [kind: {"mnemonic"}, root: Mnemonics, index: Indices, language: Languages]

\* A phrase without a language is tried in all of them.
LanguageKnown(m) == m.language = "named" \/ m.root \notin Ambiguous

Derivable(m) == m.kind = "secret" \/ (m.index <= MaxIndex /\ LanguageKnown(m))

PublicKey(m) == <<m.kind, m.root, m.index>>
NoKey == <<"none", "none", 0>>
\* An address that is no classic account, say a contract.
ContractAddress == <<"contract", "contract", 0>>
PublicKeys == {PublicKey(m) : m \in {n \in Materials : Derivable(n)}}
Expected == PublicKeys \union {ContractAddress}

\* What is stored names the language it was derived in.
Resolved(m) == [m EXCEPT !.language = "named"]

-----------------------------------------------------------------------------
(***************************************************************************)
(* Envelopes.                                                              *)
(***************************************************************************)
Forms == {"wrapped", "legacy", "unsupported"}
Kdfs == {"argon2id", "scrypt"}
\* A ciphertext that fails authentication, a payload that is no signing material.
Garbled == [kind |-> "garbled", root |-> "none", index |-> 0, language |-> "none"]
Foreign == [kind |-> "foreign", root |-> "none", index |-> 0, language |-> "none"]
Bodies == Materials \union {Garbled, Foreign}
Envelope == [form: Forms, kdf: Kdfs, pass: Passes, salt: 1..MaxEnvelopes,
             body: Bodies, id: 1..MaxEnvelopes, origin: Materials]

Ok(v) == [code |-> "Ok", value |-> v]
Fail(c) == [code |-> c, value |-> "none"]
Succeeds(r) == r.code = "Ok"

\* The envelope's metadata name a format, a version, a provider and a key
\* derivation that this version knows.
Supported(e) == e.form /= "unsupported"

UnlockKey(e, w) == <<w, e.kdf, e.salt>>
ShortKey == <<Empty, "none", 0>>

\* Mutant: the salt of an envelope is that of the one before it.
SealWithOldSalt(m, w, n) ==
    [form |-> "wrapped", kdf |-> "argon2id", pass |-> w, salt |-> 1,
     body |-> Resolved(m), id |-> n, origin |-> m]

Seal(m, w, n) ==
    [form |-> "wrapped", kdf |-> "argon2id", pass |-> w, salt |-> n,
     body |-> Resolved(m), id |-> n, origin |-> m]

\* Mutant: a payload that is no signing material is reported as a wrong key.
DecryptVague(e, k) ==
    IF ~Supported(e) THEN Fail("InvalidProtectedData")
    ELSE IF e.body \in {Garbled, Foreign} \/ k /= UnlockKey(e, e.pass) THEN Fail("InvalidUnlockKey")
    ELSE Ok(e.body)

Decrypt(e, k) ==
    IF ~Supported(e) THEN Fail("InvalidProtectedData")
    ELSE IF e.body = Garbled \/ k /= UnlockKey(e, e.pass) THEN Fail("InvalidUnlockKey")
    ELSE Ok(e.body)

\* Signing material whose key is the expected one.
Identified(r, x) ==
    IF ~Succeeds(r) THEN r
    ELSE IF r.value = Foreign THEN Fail("InvalidProtectedData")
    ELSE IF ~Derivable(r.value) THEN Fail("InvalidProtectedData")
    ELSE IF x = ContractAddress THEN Fail("InvalidInput")
    ELSE IF PublicKey(r.value) /= x THEN Fail("IdentityMismatch")
    ELSE r

AsPasscode(r) == IF r.code = "InvalidUnlockKey" THEN Fail("InvalidPasscode") ELSE r

\* Mutant: revealing reports a wrong passcode as a wrong key.
DecryptUnmapped(e, w) ==
    IF ~Supported(e) THEN Fail("InvalidProtectedData")
    ELSE IF w = Empty THEN Fail("InvalidPasscode")
    ELSE Decrypt(e, UnlockKey(e, w))

DecryptWithPasscode(e, w) ==
    IF ~Supported(e) THEN Fail("InvalidProtectedData")
    ELSE IF w = Empty THEN Fail("InvalidPasscode")
    ELSE AsPasscode(Decrypt(e, UnlockKey(e, w)))

-----------------------------------------------------------------------------
(***************************************************************************)
(* The operations of CoreClientApi.                                        *)
(***************************************************************************)
Unlock(e, k, x) ==
    IF k = ShortKey THEN Fail("InvalidUnlockKey") ELSE Identified(Decrypt(e, k), x)

DeriveUnlockKey(e, w, x) ==
    IF Supported(e) /\ w = Empty THEN Fail("InvalidPasscode")
    ELSE LET r == Identified(AsPasscode(Decrypt(e, UnlockKey(e, w))), x)
         IN  IF Succeeds(r) THEN Ok(UnlockKey(e, w)) ELSE r

Reveal(e, w, x) == Identified(DecryptWithPasscode(e, w), x)

\* A payload that cannot be parsed is found before the signer is unlocked.
Sign(e, k, x, parses) ==
    IF k = ShortKey THEN Fail("InvalidUnlockKey")
    ELSE IF ~parses THEN Fail("InvalidTransaction")
    ELSE Unlock(e, k, x)

SignWithPasscode(e, w, x, parses) ==
    LET r == DeriveUnlockKey(e, w, x)
    IN  IF Succeeds(r) THEN Sign(e, r.value, x, parses) ELSE r

ExpectedSigner(m, x) ==
    IF x = NoKey THEN "Ok"
    ELSE IF x = ContractAddress THEN "InvalidInput"
    ELSE IF PublicKey(m) /= x THEN "IdentityMismatch"
    ELSE "Ok"

Protect(m, w, x, n) ==
    IF ~Derivable(m) THEN Fail("InvalidInput")
    ELSE IF w = Empty THEN Fail("InvalidPasscode")
    ELSE IF ExpectedSigner(m, x) /= "Ok" THEN Fail(ExpectedSigner(m, x))
    ELSE Ok(Seal(m, w, n))

\* Mutant: the first account of a phrase is re-protected, whichever it was.
ReprotectFirst(e, w, new, x, n) ==
    LET r == Reveal(e, w, x)
    IN  IF Succeeds(r) THEN Protect([r.value EXCEPT !.index = 0], new, NoKey, n) ELSE r

Reprotect(e, w, new, x, n) ==
    LET r == Reveal(e, w, x)
    IN  IF Succeeds(r) THEN Protect(Resolved(r.value), new, x, n) ELSE r

DeriveMnemonicSigner(e, w, x, i, n) ==
    LET r == Reveal(e, w, x)
    IN  IF ~Succeeds(r) THEN r
        ELSE IF r.value.kind = "secret" THEN Fail("InvalidInput")
        ELSE Protect([Resolved(r.value) EXCEPT !.index = i], w, NoKey, n)

-----------------------------------------------------------------------------
(***************************************************************************)
(* The layers above Core and the codes they can say.                       *)
(***************************************************************************)
Codes == {"Ok", "InvalidInput", "InvalidPasscode", "InvalidUnlockKey", "InvalidProtectedData",
          "IdentityMismatch", "InvalidTransaction", "InvalidAuthorization",
          "InvalidMessageSignature", "CoreError"}
Layers == {"sdk", "native", "process", "wasm"}
Calls == {"protect", "derive-signer", "reprotect", "derive-key", "validate-key",
          "sign", "sign-with-passcode", "sign-authorization", "reveal", "verify-message"}

SdkOffers == Calls
\* Mutant: the native binding signs authorization entries, too.
NativeOffersAll == Calls
NativeOffers == Calls \ {"sign-authorization", "sign-with-passcode"}
ProcessOffers == Calls \ {"verify-message"}
WasmOffers == {"protect", "reprotect", "sign-with-passcode", "reveal"}

Offers(layer) ==
    CASE layer = "sdk" -> SdkOffers
      [] layer = "native" -> NativeOffers
      [] layer = "process" -> ProcessOffers
      [] layer = "wasm" -> WasmOffers

SdkCode(c) == c

NativeCode(c) == IF c = "InvalidAuthorization" THEN "CoreError" ELSE c

CodeAt(layer, c) == IF layer = "native" THEN NativeCode(SdkCode(c)) ELSE SdkCode(c)

\* An entry that is not a direct account's, or that the key has signed already.
SignAuthorization(e, k, x, direct) ==
    LET r == Unlock(e, k, x)
    IN  IF Succeeds(r) /\ ~direct THEN Fail("InvalidAuthorization") ELSE r

VerifyMessage(valid) == IF valid THEN Ok("none") ELSE Fail("InvalidMessageSignature")

\* The codes a call can return for the host's envelopes, keys and any passcode.
CodesOf(call) ==
    CASE call = "derive-key" ->
           {DeriveUnlockKey(e, w, x).code : e \in envelopes, w \in AnyPasscode, x \in Expected}
      [] call = "reveal" ->
           {Reveal(e, w, x).code : e \in envelopes, w \in AnyPasscode, x \in Expected}
      [] call \in {"reprotect", "derive-signer"} ->
           {DeriveMnemonicSigner(e, w, x, MaxIndex + 1, 1).code :
              e \in envelopes, w \in AnyPasscode, x \in Expected}
      [] call = "validate-key" ->
           {Unlock(e, k, x).code : e \in envelopes, k \in keys \union {ShortKey}, x \in Expected}
      [] call = "sign" ->
           {Sign(e, k, x, FALSE).code : e \in envelopes, k \in keys \union {ShortKey}, x \in Expected}
      [] call = "sign-with-passcode" ->
           {SignWithPasscode(e, w, x, FALSE).code : e \in envelopes, w \in AnyPasscode, x \in Expected}
      [] call = "sign-authorization" ->
           {SignAuthorization(e, k, x, FALSE).code : e \in envelopes, k \in keys, x \in Expected}
      [] call = "protect" -> {Protect(m, w, ContractAddress, 1).code : m \in Materials, w \in AnyPasscode}
      [] call = "verify-message" -> {VerifyMessage(FALSE).code}

-----------------------------------------------------------------------------
(***************************************************************************)
(* The host.                                                               *)
(***************************************************************************)
Init ==
    /\ envelopes = {} /\ made = 0 /\ keys = {} /\ typed = {} /\ revealed = {}

Store(r, origin) ==
    /\ Succeeds(r)
    /\ made' = made + 1
    /\ envelopes' = envelopes \union {[r.value EXCEPT !.origin = origin]}

Types(ws) == typed' = typed \union ws

\* The user enters new material, or the client makes it.
ProtectMaterial(m, w, x) ==
    /\ made < MaxEnvelopes
    /\ Store(Protect(m, w, x, made + 1), m)
    /\ Types({w})
    /\ UNCHANGED <<keys, revealed>>

\* An envelope of an earlier version, or of another client, is restored.
RestoreLegacy(m, w) ==
    /\ made < MaxEnvelopes
    /\ made' = made + 1
    /\ envelopes' = envelopes \union
         {[form |-> "legacy", kdf |-> "scrypt", pass |-> w, salt |-> made + 1,
           body |-> m, id |-> made + 1, origin |-> m]}
    /\ UNCHANGED <<keys, typed, revealed>>

\* Storage that lost some of what was written.
Damage(e) ==
    /\ \E d \in {[e EXCEPT !.form = "unsupported"], [e EXCEPT !.body = Garbled],
                 [e EXCEPT !.body = Foreign]} : envelopes' = (envelopes \ {e}) \union {d}
    /\ UNCHANGED <<made, keys, typed, revealed>>

\* The session ends: what is on screen is gone, the unlock keys are kept by the
\* platform.
Leave ==
    /\ typed' = {} /\ revealed' = {}
    /\ UNCHANGED <<envelopes, made, keys>>

ReprotectEnvelope(e, w, new, x) ==
    LET r == Reprotect(e, w, new, x, made + 1) IN
    /\ made < MaxEnvelopes
    /\ Store(r, e.origin)
    /\ Types({w, new})
    /\ UNCHANGED <<keys, revealed>>

DeriveSigner(e, w, x, i) ==
    LET r == DeriveMnemonicSigner(e, w, x, i, made + 1) IN
    /\ made < MaxEnvelopes
    /\ Store(r, [e.origin EXCEPT !.index = i])
    /\ Types({w})
    /\ UNCHANGED <<keys, revealed>>

HandOutKey(e, w, x) ==
    LET r == DeriveUnlockKey(e, w, x) IN
    /\ Succeeds(r)
    /\ keys' = keys \union {r.value}
    /\ Types({w})
    /\ UNCHANGED <<envelopes, made, revealed>>

\* Mutant: a released unlock key is enough to see the material.
RevealMaterialByKey(e, w, x) ==
    \E k \in keys :
        /\ Succeeds(Unlock(e, k, x))
        /\ revealed' = revealed \union {Unlock(e, k, x).value}
        /\ UNCHANGED <<envelopes, made, keys, typed>>

RevealMaterial(e, w, x) ==
    LET r == Reveal(e, w, x) IN
    /\ Succeeds(r)
    /\ revealed' = revealed \union {r.value}
    /\ Types({w})
    /\ UNCHANGED <<envelopes, made, keys>>

Next ==
    \/ \E m \in Materials, w \in AnyPasscode, x \in {NoKey} \union Expected : ProtectMaterial(m, w, x)
    \/ \E m \in Materials, w \in Passes : RestoreLegacy(m, w)
    \/ Leave
    \/ \E e \in envelopes :
        \/ Damage(e)
        \/ \E w \in AnyPasscode, x \in Expected :
            \/ \E new \in AnyPasscode : ReprotectEnvelope(e, w, new, x)
            \/ \E i \in Indices : DeriveSigner(e, w, x, i)
            \/ HandOutKey(e, w, x) \/ RevealMaterial(e, w, x)

Spec == Init /\ [][Next]_vars

-----------------------------------------------------------------------------
(***************************************************************************)
(* Properties.                                                             *)
(***************************************************************************)
TypeOK ==
    /\ envelopes \subseteq Envelope
    /\ made \in 0..MaxEnvelopes
    /\ keys \subseteq Passes \X Kdfs \X (1..MaxEnvelopes)
    /\ typed \subseteq AnyPasscode
    /\ revealed \subseteq Materials

\* However an envelope came about, through re-protections, derivations and
\* migrations of older formats, what it opens to signs for the account it was
\* made for: reprotect and derive_mnemonic_signer keep phrase, index and language.
SignerKept ==
    \A e \in envelopes, w \in AnyPasscode, x \in Expected :
        LET r == Reveal(e, w, x)
        IN  Succeeds(r) => PublicKey(r.value) = PublicKey(e.origin) /\ x = PublicKey(e.origin)

\* An unlock key belongs to one envelope: one that was handed out before a
\* re-protection opens none that was made afterwards, whatever the passcodes.
KeyOpensOne ==
    \A k \in keys, e, f \in envelopes :
        Decrypt(e, k).code = "Ok" /\ Decrypt(f, k).code = "Ok" => e.id = f.id

\* Unlock keys sign and never reveal: material is shown only in a session in which
\* the user typed the passcode of an envelope that holds it.
MaterialNeedsPasscode ==
    \A m \in revealed : \E e \in envelopes :
        e.pass \in typed /\ PublicKey(e.origin) = PublicKey(m)

\* All paths that take a passcode accept the same passcodes of an envelope and
\* refuse the others with the same code.
PathsAgree ==
    \A e \in envelopes, w \in AnyPasscode, x \in Expected :
        LET c == DeriveUnlockKey(e, w, x).code IN
        /\ Reveal(e, w, x).code = c
        /\ Reprotect(e, w, w, x, 1).code = c
        /\ SignWithPasscode(e, w, x, TRUE).code = c

\* A code tells the host what to do: another passcode helps after
\* "invalid-passcode" unless the ciphertext is damaged, a key derived afresh after
\* "invalid-unlock-key", and nothing after "invalid-protected-data".
CodesGuide ==
    \A e \in envelopes, x \in PublicKeys, k \in keys, w \in AnyPasscode :
        /\ DeriveUnlockKey(e, w, x).code = "InvalidPasscode" /\ e.body /= Garbled
             => DeriveUnlockKey(e, e.pass, x).code /= "InvalidPasscode"
        /\ Unlock(e, k, x).code = "InvalidUnlockKey" /\ e.body /= Garbled
             => Unlock(e, UnlockKey(e, e.pass), x).code /= "InvalidUnlockKey"
        /\ Unlock(e, k, x).code = "InvalidProtectedData"
             => \A v \in Passes, y \in PublicKeys : ~Succeeds(DeriveUnlockKey(e, v, y))

\* The bindings pass on every code that one of their operations can return: none
\* of them becomes "core-error" on the way.
CodesSurvive ==
    \A layer \in Layers : \A call \in Offers(layer) : \A c \in CodesOf(call) : CodeAt(layer, c) = c
=============================================================================
