----------------------------- MODULE CryptoKeys -----------------------------
(***************************************************************************)
(* crypto.subtle (llrt_crypto/src/subtle): the CryptoKey objects a program  *)
(* makes by generating, importing, unwrapping, deriving, encapsulating and  *)
(* taking public halves, and what it can do with them.  Kept is every       *)
(* decision on names, kinds, formats, usages and extractability in the      *)
(* order the code takes it.  A key's handle is abstracted to `mat`: which   *)
(* secret or pair it is (a set of numbers, so that two parties' agreement   *)
(* is a union), which half, and the length of the bytes where a length is   *)
(* looked at.  The primitives of the provider are external: what they       *)
(* compute is represented by a record that names its inputs.                *)
(*                                                                         *)
(* CryptoKey objects never change, so a call that reads no buffer of the    *)
(* program is one step; sign, verify, encrypt, decrypt, importKey and       *)
(* unwrapKey are a call and a later poll of the future, between which the   *)
(* program may write to the buffer it passed.                               *)
(***************************************************************************)
EXTENDS Integers, FiniteSets, Sequences, SequencesExt

CONSTANTS
    Programs,   \* sets of names of algorithms: those a program uses
    MaxSecrets, \* bound on the secrets and pairs that are generated
    MaxKeys,    \* bound on the number of different keys
    MaxOuts     \* bound on the number of different outputs

VARIABLE c

vars == c

-----------------------------------------------------------------------------
(* The algorithms, by the family that from_js sends a name to.              *)

Family(name) ==
    CASE name \in {"AES-CBC", "AES-CTR", "AES-GCM", "AES-KW"} -> "aes"
      [] name = "HMAC" -> "hmac"
      [] name = "ChaCha20-Poly1305" -> "chacha"
      [] name \in {"HKDF", "PBKDF2"} -> "kdf"
      [] name \in {"ECDH", "ECDSA"} -> "ec"
      [] name \in {"Ed25519", "X25519"} -> "okp"
      [] name \in {"RSA-OAEP", "RSA-PSS", "RSASSA-PKCS1-v1_5"} -> "rsa"
      [] name \in {"ML-DSA-65", "ML-KEM-768"} -> "ml"
      [] name = "MLKEM768-X25519" -> "hybrid"

SecretFamilies == {"aes", "hmac", "chacha", "kdf"}

PairFamilies == {"ec", "okp", "rsa", "ml", "hybrid"}

KeyUsageAlgorithm(name) ==
    CASE name = "AES-KW" -> "AesKw"
      [] name \in {"AES-CBC", "AES-CTR", "AES-GCM", "ChaCha20-Poly1305"} -> "Symmetric"
      [] name = "HMAC" -> "Hmac"
      [] name \in {"ECDH", "X25519"} -> "DeriveAsymmetric"
      [] name \in {"HKDF", "PBKDF2"} -> "DeriveSymmetric"
      [] name = "RSA-OAEP" -> "RsaOaep"
      [] name \in {"ML-KEM-768", "MLKEM768-X25519"} -> "MlKem"
      [] OTHER -> "Sign"

(* The masks of KeyUsageAlgorithm: the usages a private key may have ...     *)
PrivateMask(ua) ==
    CASE ua = "DeriveAsymmetric" -> {"deriveKey", "deriveBits"}
      [] ua = "RsaOaep" -> {"decrypt", "unwrapKey"}
      [] ua = "Sign" -> {"sign"}
      [] ua = "MlKem" -> {"decapsulateKey", "decapsulateBits"}
      [] OTHER -> {}

(* ... and those a public or a secret key may have.                         *)
PublicMask(ua) ==
    CASE ua = "AesKw" -> {"wrapKey", "unwrapKey"}
      [] ua = "Symmetric" -> {"encrypt", "decrypt", "wrapKey", "unwrapKey"}
      [] ua = "Hmac" -> {"sign", "verify"}
      [] ua = "DeriveSymmetric" -> {"deriveKey", "deriveBits"}
      [] ua = "RsaOaep" -> {"encrypt", "wrapKey"}
      [] ua = "Sign" -> {"verify"}
      [] ua = "MlKem" -> {"encapsulateKey", "encapsulateBits"}
      [] OTHER -> {}

Refuse == [ok |-> FALSE]

(* classify_and_check_usages; kind is "none" where there is no key yet.      *)
ClassifyAndCheckUsages(ua, usages, kind) ==
    LET private == IF kind \in {"secret", "public"} THEN {} ELSE PrivateMask(ua)
        public == IF kind = "private" THEN {} ELSE PublicMask(ua)
        same == private = public
        ofPrivate == IF same THEN usages ELSE usages \cap private
        ofPublic == IF same THEN usages ELSE (usages \cap public) \ private
    IN  IF \/ ~(usages \subseteq (private \cup public))
           \/ usages = {} /\ kind # "public"
           \/ /\ ofPrivate # ofPublic
              /\ \/ kind \in {"secret", "public"} /\ (ofPrivate # {} \/ ofPublic = {})
                 \/ kind = "private" /\ (ofPrivate = {} \/ ofPublic # {})
          THEN Refuse
          ELSE [ok |-> TRUE, private |-> ofPrivate, public |-> ofPublic]

SyntheticKeyUsage(name) ==
    CASE KeyUsageAlgorithm(name) = "AesKw" -> {"wrapKey"}
      [] KeyUsageAlgorithm(name) \in {"Symmetric", "RsaOaep"} -> {"encrypt"}
      [] KeyUsageAlgorithm(name) \in {"DeriveAsymmetric", "DeriveSymmetric"} -> {"deriveKey"}
      [] KeyUsageAlgorithm(name) = "MlKem" -> {"encapsulateKey"}
      [] OTHER -> {"sign"}

-----------------------------------------------------------------------------
(* Key data outside of CryptoKey objects.  [enc, name, kind, mat, ops, cut]:  *)
(* how it is encoded, the algorithm and the kind of the key it came from    *)
(* (which a JWK, SPKI or PKCS#8 states and raw bytes do not), the material, *)
(* a JWK's key_ops, and whether zero bytes were appended to DER.             *)

Formats == {"jwk", "raw", "raw-private", "raw-public", "raw-secret", "raw-seed",
            "spki", "pkcs8"}

Encoding(fmt) ==
    CASE fmt \in {"raw", "raw-private", "raw-public", "raw-secret"} -> "raw"
      [] fmt = "raw-seed" -> "seed"
      [] OTHER -> fmt

FormatsOf(enc) == {fmt \in Formats : Encoding(fmt) = enc}

PublicLength(name) ==
    CASE Family(name) = "okp" -> 32
      [] Family(name) = "ec" -> 65
      [] Family(name) = "rsa" -> 270
      [] name = "ML-DSA-65" -> 1952
      [] name = "ML-KEM-768" -> 1184
      [] OTHER -> 1216

(* The importers: the kind of key each makes of the data, or "none".         *)

(* The JWK's kty, crv and alg are those of the algorithm; that of an EC key   *)
(* has no alg.                                                               *)
JwkOf(name, d) ==
    IF Family(name) = "ec" THEN Family(d.name) = "ec" ELSE d.name = name

(* validate_oid: one OID for all EC keys and one for all RSA keys.  DER that  *)
(* zeros were appended to does not parse.                                    *)
DerOf(name, d) ==
    /\ ~d.cut
    /\ IF Family(name) \in {"ec", "rsa"} THEN Family(d.name) = Family(name) ELSE d.name = name

ImportDeriveKey(fmt) == IF fmt \in {"raw", "raw-secret"} THEN "secret" ELSE "none"

ImportSymmetricKey(name, fmt, d) ==
    IF fmt \in {"raw", "raw-secret"} \/ (fmt = "jwk" /\ JwkOf(name, d))
      THEN "secret" ELSE "none"

FromAes(name, fmt, d) ==
    IF d.mat.len \in {16, 24, 32} THEN ImportSymmetricKey(name, fmt, d) ELSE "none"

FromHmac(name, fmt, d) ==
    IF d.mat.len > 0 THEN ImportSymmetricKey(name, fmt, d) ELSE "none"

FromChaCha20Poly1305(name, fmt, d) ==
    IF (fmt = "raw-secret" \/ (fmt = "jwk" /\ JwkOf(name, d))) /\ d.mat.len = 32
      THEN "secret" ELSE "none"

(* A pair's half in a format the importer takes.                             *)
HalfOf(name, fmt, d) ==
    CASE fmt = "jwk" /\ JwkOf(name, d) -> d.kind
      [] fmt \in {"raw", "raw-public"} /\ d.mat.len = PublicLength(name) -> "public"
      [] fmt = "raw-seed" /\ d.name = name -> "private"
      [] fmt = "spki" /\ DerOf(name, d) -> "public"
      [] fmt = "pkcs8" /\ DerOf(name, d) -> "private"
      [] OTHER -> "none"

ImportRsaKey(name, fmt, d) ==
    IF fmt \in {"jwk", "raw", "raw-public", "pkcs8", "spki"} THEN HalfOf(name, fmt, d) ELSE "none"

ImportEcKey(name, fmt, d) ==
    IF fmt \in {"jwk", "raw", "raw-public", "spki", "pkcs8"} THEN HalfOf(name, fmt, d) ELSE "none"

ImportOkpKey(name, fmt, d) ==
    IF fmt \in {"jwk", "raw", "raw-public", "spki", "pkcs8"} THEN HalfOf(name, fmt, d) ELSE "none"

FromRsa(name, fmt, d) == ImportRsaKey(name, fmt, d)

FromEc(name, fmt, d) == ImportEcKey(name, fmt, d)

FromEd25519(fmt, d) == ImportOkpKey("Ed25519", fmt, d)

FromX25519(fmt, d) == ImportOkpKey("X25519", fmt, d)

FromHkdf(fmt) == ImportDeriveKey(fmt)

FromPbkdf2(fmt) == ImportDeriveKey(fmt)

FromMlDsa(name, fmt, d) ==
    IF fmt \in {"raw-public", "spki", "raw-seed", "pkcs8", "jwk"} THEN HalfOf(name, fmt, d) ELSE "none"

FromMlKem(name, fmt, d) ==
    IF fmt \in {"raw-public", "spki", "raw-seed", "pkcs8", "jwk"} THEN HalfOf(name, fmt, d) ELSE "none"

FromHybridKem(name, fmt, d) ==
    IF fmt \in {"raw-public", "raw-seed", "jwk"} THEN HalfOf(name, fmt, d) ELSE "none"

ImportedKind(name, fmt, d) ==
    CASE Family(name) = "aes" -> FromAes(name, fmt, d)
      [] Family(name) = "hmac" -> FromHmac(name, fmt, d)
      [] Family(name) = "chacha" -> FromChaCha20Poly1305(name, fmt, d)
      [] name = "HKDF" -> FromHkdf(fmt)
      [] name = "PBKDF2" -> FromPbkdf2(fmt)
      [] Family(name) = "rsa" -> FromRsa(name, fmt, d)
      [] Family(name) = "ec" -> FromEc(name, fmt, d)
      [] name = "Ed25519" -> FromEd25519(fmt, d)
      [] name = "X25519" -> FromX25519(fmt, d)
      [] name = "ML-DSA-65" -> FromMlDsa(name, fmt, d)
      [] name = "ML-KEM-768" -> FromMlKem(name, fmt, d)
      [] OTHER -> FromHybridKem(name, fmt, d)

AllUsages == {"encrypt", "decrypt", "sign", "verify", "deriveKey", "deriveBits", "wrapKey",
              "unwrapKey", "encapsulateKey", "encapsulateBits", "decapsulateKey",
              "decapsulateBits"}

(* A CryptoKey; `within` is history: the key_ops it was imported with.        *)
CryptoKey(kind, name, ext, usages, mat, within) ==
    [kind |-> kind, name |-> name, ext |-> ext, usages |-> usages, mat |-> mat,
     within |-> within]

(* A JWK that export_jwk made has "ext" set and its usages in key_ops.        *)
ValidateRequestedJwkKeyOps(granted, d) == granted \subseteq d.ops

(* import_key, which importKey, unwrapKey, deriveKey, encapsulateKey and      *)
(* decapsulateKey end with.                                                  *)
ImportKey(name, fmt, d, ext, usages) ==
    LET kind == ImportedKind(name, fmt, d)
        u == ClassifyAndCheckUsages(KeyUsageAlgorithm(name), usages, kind)
        granted == IF kind = "private" THEN u.private ELSE u.public
    IN  CASE kind = "none" -> Refuse
          [] kind # "none" /\ ~u.ok -> Refuse
          [] OTHER ->
               IF \/ ext /\ Family(name) = "kdf"
                  \/ fmt = "jwk" /\ ~ValidateRequestedJwkKeyOps(granted, d)
                 THEN Refuse
                 ELSE [ok |-> TRUE,
                       key |-> CryptoKey(kind, name, ext, granted, d.mat,
                                         IF fmt = "jwk" THEN d.ops ELSE AllUsages)]

(* What subtle_import_key checks first, without the data.                    *)
ValidateImportAlgorithm(name, fmt, ext, usages) ==
    /\ ClassifyAndCheckUsages(KeyUsageAlgorithm(name),
            IF usages = {} THEN SyntheticKeyUsage(name) ELSE usages, "none").ok
    /\ Family(name) = "kdf" => fmt \in {"raw", "raw-secret"} /\ ~ext

SupportsDerExport(name) == Family(name) \in {"ec", "okp", "rsa", "ml"}

ExportRaw(k) == Family(k.name) \in {"aes", "hmac", "chacha", "ec", "okp"} /\ k.kind # "private"

ExportSpki(k) == SupportsDerExport(k.name) /\ k.kind = "public"

ExportPkcs8(k) == SupportsDerExport(k.name) /\ k.kind = "private"

(* The formats a key can be given out in.                                    *)
HasFormat(fmt, k) ==
    LET modern == Family(k.name) \in {"ml", "hybrid"}
    IN  CASE fmt = "jwk" -> TRUE
          [] fmt = "raw-public" /\ modern -> k.kind = "public"
          [] fmt = "raw-seed" /\ modern -> k.kind = "private"
          [] fmt = "raw" -> ~modern /\ ExportRaw(k)
          [] fmt = "raw-public" /\ ~modern -> k.kind # "secret" /\ ExportRaw(k)
          [] fmt = "raw-secret" -> k.kind = "secret" /\ ExportRaw(k)
          [] fmt = "spki" -> ExportSpki(k)
          [] fmt = "pkcs8" -> ExportPkcs8(k)
          [] OTHER -> FALSE

(* Planted fault: it is not asked whether the key is extractable.            *)
ExportsFault(fmt, k) == Family(k.name) # "kdf" /\ HasFormat(fmt, k)

Exports(fmt, k) == Family(k.name) # "kdf" /\ k.ext /\ HasFormat(fmt, k)

Exported(fmt, k) ==
    [t |-> "data", enc |-> Encoding(fmt), name |-> k.name, kind |-> k.kind, mat |-> k.mat,
     ops |-> IF fmt = "jwk" THEN k.usages ELSE AllUsages, cut |-> FALSE]

RawSecret(mat) ==
    [t |-> "data", enc |-> "raw", name |-> "HMAC", kind |-> "secret", mat |-> mat,
     ops |-> AllUsages, cut |-> FALSE]

-----------------------------------------------------------------------------
(* Using keys.                                                               *)

EncryptionNames == {"AES-CBC", "AES-CTR", "AES-GCM", "ChaCha20-Poly1305", "RSA-OAEP", "AES-KW"}

SigningNames == {"Ed25519", "HMAC", "RSASSA-PKCS1-v1_5", "ECDSA", "RSA-PSS", "ML-DSA-65"}

(* encrypt_decrypt's checks.  AES-KW looks at the length of the handle (in   *)
(* the provider), not at the algorithm of the key.                           *)
CanEncrypt(alg, k, wrapping) ==
    CASE alg \in EncryptionNames \ {"AES-KW", "RSA-OAEP"} -> k.name = alg
      [] alg = "AES-KW" -> wrapping /\ k.mat.len \in {16, 24, 32}
      [] alg = "RSA-OAEP" -> Family(k.name) = "rsa"
      [] OTHER -> FALSE

Padded(mat) == [mat EXCEPT !.len = 8 * ((@ + 7) \div 8)]

(* The bytes that come back from wrapping: AES-KW fills up to a multiple of 8 *)
(* bytes, with spaces for a JWK, which are cut off again, and with zeros      *)
(* otherwise, which stay.  odd: the length of DER is not a multiple of 8.     *)
Padding(alg, d, odd) ==
    CASE alg = "AES-KW" /\ d.enc = "raw" -> [d EXCEPT !.mat = Padded(@)]
      [] alg = "AES-KW" /\ d.enc \in {"spki", "pkcs8"} /\ odd -> [d EXCEPT !.cut = TRUE]
      [] OTHER -> d

(* RSA-OAEP takes no more than the modulus leaves room for (external).       *)
Fits(alg, d) == alg = "RSA-OAEP" => d.enc \in {"raw", "seed"} /\ d.mat.len <= 65

(* DeriveAlgorithm::from_js and derive_bits.  A length is a number of bits or  *)
(* left to the algorithm.  The agreement of two parties is the union of what *)
(* they bring.                                                               *)
DeriveAlgorithm(alg, pub) ==
    CASE alg = "X25519" -> pub.kind = "public" /\ pub.name = "X25519"
      [] alg = "ECDH" -> pub.kind = "public" /\ Family(pub.name) = "ec"
      [] OTHER -> alg \in {"HKDF", "PBKDF2"}

Default == -1

Lengths == {Default, 256, 257}

(* validate_ecdh_length and validate_hkdf_length; the shared secret is 256    *)
(* bits long.                                                                *)
ValidLength(alg, length) ==
    IF alg \in {"ECDH", "X25519"} THEN length <= 256 ELSE length # Default /\ length % 8 = 0

DeriveBits(alg, base, pub, length) ==
    /\ ValidLength(alg, length)
    /\ CASE alg = "ECDH" -> pub.name = "ECDH" /\ base.name = "ECDH" /\ base.kind = "private"
         [] OTHER -> base.name = alg

(* truncate_derived_bits.                                                    *)
Truncated(length) == ((IF length = Default THEN 256 ELSE length) + 7) \div 8

Derived(alg, base, pub, length) ==
    [id |-> IF alg \in {"ECDH", "X25519"} THEN base.mat.id \cup pub.mat.id
                                          ELSE base.mat.id \cup {0},
     half |-> "secret", len |-> Truncated(length)]

(* check_encapsulation_key.                                                  *)
CheckEncapsulationKey(k, alg, usage, kind) ==
    /\ KeyUsageAlgorithm(alg) = "MlKem"
    /\ k.name = alg
    /\ usage \in k.usages
    /\ k.kind = kind

SupportsGenerateKey(name) == Family(name) # "kdf"

SupportsExportKey(name) == Family(name) # "kdf"

SupportsEncrypt(name) == name \in EncryptionNames \ {"AES-KW"}

SupportsGetPublicKey(name) == Family(name) \in PairFamilies

SupportsWrap(op, name, inner) ==
    name \in EncryptionNames /\ (op = "wrapKey" => Family(inner) # "kdf")

SupportsDeriveBits(name) == name \in {"X25519", "ECDH", "HKDF", "PBKDF2"}

SupportsDeriveKey(name, inner) ==
    /\ SupportsDeriveBits(name)
    /\ Family(inner) \in SecretFamilies
    /\ Family(inner) = "kdf" => name \in {"X25519", "ECDH"}

SupportsSharedKey(name, inner) ==
    KeyUsageAlgorithm(name) = "MlKem" /\ Family(inner) \in SecretFamilies

(* SubtleCrypto.supports, of the full providers: may the operation work with  *)
(* this algorithm (and this algorithm of the key inside).                    *)
Supports(op, name, inner) ==
    CASE op = "generateKey" -> SupportsGenerateKey(name)
      [] op = "importKey" -> TRUE
      [] op = "exportKey" -> SupportsExportKey(name)
      [] op \in {"sign", "verify"} -> name \in SigningNames
      [] op \in {"encrypt", "decrypt"} -> SupportsEncrypt(name)
      [] op \in {"wrapKey", "unwrapKey"} -> SupportsWrap(op, name, inner)
      [] op = "deriveBits" -> SupportsDeriveBits(name)
      [] op = "deriveKey" -> SupportsDeriveKey(name, inner)
      [] op \in {"encapsulateKey", "decapsulateKey"} -> SupportsSharedKey(name, inner)
      [] op \in {"encapsulateBits", "decapsulateBits"} -> KeyUsageAlgorithm(name) = "MlKem"
      [] op = "getPublicKey" -> SupportsGetPublicKey(name)

-----------------------------------------------------------------------------
(* c.names: what this program uses; c.keys, c.outs: the CryptoKeys and the    *)
(* results it holds; c.next: the next fresh secret.  History: c.free, the     *)
(* secrets it was given in an extractable key or as bytes; c.unforeseen: an   *)
(* operation worked that supports() denied; c.changed: a key came back from   *)
(* wrapping as another one; c.late: importKey read a rewritten buffer.        *)

Init ==
    \E names \in Programs :
        c = [names |-> names, keys |-> {}, outs |-> {}, next |-> 1,
             free |-> {}, unforeseen |-> FALSE, changed |-> FALSE, late |-> FALSE]

(* The usages asked for: none, those of the public half, all, the first, and  *)
(* one that is another algorithm's.                                          *)
UsageArguments == [n \in UNION Programs |->
    LET ua == KeyUsageAlgorithm(n)
    IN  {{}, PublicMask(ua), PrivateMask(ua) \cup PublicMask(ua), SyntheticKeyUsage(n),
         {IF ua = "Hmac" THEN "encrypt" ELSE "sign"}}]

Does(op, name, inner, m) ==
    /\ m.next <= MaxSecrets + 1
    /\ Cardinality(m.keys) <= MaxKeys
    /\ Cardinality(m.outs) <= MaxOuts
    /\ c' = [m EXCEPT !.unforeseen = @ \/ ~Supports(op, name, inner)]

AddKey(m, k) ==
    [m EXCEPT !.keys = @ \cup {k},
              !.free = IF k.ext /\ k.mat.half # "public" THEN @ \cup {k.mat} ELSE @]

(* Results the program can read: what of a secret they hold is free.         *)
AddOuts(m, outs) == [m EXCEPT !.outs = @ \cup outs]

Half(id, half, len) == [id |-> id, half |-> half, len |-> len]

GenerateKey ==
    \E name \in c.names, ext \in BOOLEAN : \E usages \in UsageArguments[name] :
      LET u == ClassifyAndCheckUsages(KeyUsageAlgorithm(name), usages, "none")
          fresh == [c EXCEPT !.next = @ + 1]
      IN  /\ Family(name) # "kdf"
          /\ u.ok
          /\ \/ /\ Family(name) \in SecretFamilies
                /\ \E len \in {IF name = "HMAC" THEN 20 ELSE 32} :
                     Does("generateKey", name, name,
                          AddKey(fresh, CryptoKey("secret", name, ext, u.public,
                                                  Half({c.next}, "secret", len), AllUsages)))
             \/ /\ Family(name) \in PairFamilies
                /\ LET len == PublicLength(name)
                   IN  Does("generateKey", name, name,
                         AddKey(AddKey(fresh,
                           CryptoKey("private", name, ext, u.private,
                                     Half({c.next}, "private", len), AllUsages)),
                           CryptoKey("public", name, TRUE, u.public,
                                     Half({c.next}, "public", len), AllUsages)))

(* What the buffer holds when the program has written other bytes to it.     *)
Rewritten(d) ==
    IF d.enc \in {"raw", "seed"}
      THEN [d EXCEPT !.mat = Half({99}, IF d.enc = "raw" THEN "secret" ELSE "private", @.len)]
      ELSE [d EXCEPT !.cut = TRUE]

(* subtle_import_key is an async function: the data is read at the first     *)
(* poll, when the program may have written to the buffer.                    *)
SubtleImportKey ==
    \E d \in {o \in c.outs : o.t = "data"} :
    \E name \in c.names, fmt \in FormatsOf(d.enc), rewritten \in BOOLEAN :
      LET read == IF rewritten THEN Rewritten(d) ELSE d
      IN  /\ fmt = "jwk" => ~rewritten
          /\ ImportedKind(name, fmt, read) # "none"
          /\ \E ext \in BOOLEAN, usages \in UsageArguments[name] :
               LET r == ImportKey(name, fmt, read, ext, usages)
               IN  /\ ValidateImportAlgorithm(name, fmt, ext, usages)
                   /\ r.ok
                   /\ Does("importKey", name, name,
                           [AddKey(c, r.key) EXCEPT !.late = @ \/ read # d])

SubtleExportKey ==
    \E k \in c.keys, fmt \in Formats :
        /\ Exports(fmt, k)
        /\ Does("exportKey", k.name, k.name, AddOuts(c, {Exported(fmt, k)}))

Cipher(alg, k, of, was) ==
    [t |-> "cipher", alg |-> alg, id |-> k.mat.id, len |-> k.mat.len, of |-> of, was |-> was]

Opens(alg, k, o) == o.alg = alg /\ o.id = k.mat.id /\ o.len = k.mat.len

Having(usage) == {k \in c.keys : usage \in k.usages}

SubtleWrapKey ==
    \E w \in Having("wrapKey"), k \in c.keys, alg \in c.names \cap EncryptionNames :
      /\ CanEncrypt(alg, w, TRUE)
      /\ \E fmt \in Formats, odd \in BOOLEAN :
           /\ Exports(fmt, k)
           /\ Fits(alg, Exported(fmt, k))
           /\ Does("wrapKey", alg, k.name,
                   AddOuts(c, {Cipher(alg, w, Padding(alg, Exported(fmt, k), odd),
                                      Exported(fmt, k))}))

SubtleUnwrapKey ==
    \E o \in {x \in c.outs : x.t = "cipher"}, w \in Having("unwrapKey") :
      /\ CanEncrypt(o.alg, w, TRUE)
      /\ Opens(o.alg, w, o)
      /\ o.of.t = "data"
      /\ \E fmt \in FormatsOf(o.of.enc), name \in c.names :
         /\ ImportedKind(name, fmt, o.of) # "none"
         /\ \E ext \in BOOLEAN, usages \in UsageArguments[name] :
           LET r == ImportKey(name, fmt, o.of, ext, usages)
           IN  /\ r.ok
               /\ Does("unwrapKey", o.alg, name,
                       [AddKey(c, r.key) EXCEPT
                          !.changed = @ \/ /\ r.key.mat # o.was.mat
                                           /\ ~(/\ o.alg = "AES-KW" /\ o.was.enc = "raw"
                                                /\ o.was.mat.len % 8 # 0)])

Texts == {"m", "n"}

(* Planted fault: the data is read when the future is first polled.          *)
PrepareFault(data, rewritten) == IF rewritten THEN CHOOSE x \in Texts : x # data ELSE data

(* prepare_sign, prepare_verify, prepare_encrypt_decrypt, prepare_digest:     *)
(* the data is copied at the call, before the program can write to it.       *)
Prepare(data, rewritten) == data

SubtleSign ==
    \E k \in Having("sign"), name \in c.names \cap SigningNames, data \in {"m"},
       rewritten \in BOOLEAN :
        /\ k.name = name
        /\ k.kind = IF name = "HMAC" THEN "secret" ELSE "private"
        /\ Does("sign", name, name,
                AddOuts(c, {[t |-> "signature", name |-> name, id |-> k.mat.id,
                             len |-> k.mat.len, of |-> Prepare(data, rewritten),
                             said |-> data]}))

(* verify answers; an answer that is not the right one is a change of data.   *)
SubtleVerify ==
    \E o \in {x \in c.outs : x.t = "signature"}, k \in Having("verify"),
       name \in c.names \cap SigningNames, data \in Texts, rewritten \in BOOLEAN :
        /\ k.name = name
        /\ k.kind = IF name = "HMAC" THEN "secret" ELSE "public"
        /\ LET mine == o.name = name /\ o.id = k.mat.id /\ o.len = k.mat.len
               answer == mine /\ o.of = Prepare(data, rewritten)
           IN  Does("verify", name, name,
                    [c EXCEPT !.changed = @ \/ answer # (mine /\ o.said = data)])

SubtleEncrypt ==
    \E k \in Having("encrypt"), alg \in c.names \cap EncryptionNames, data \in {"m"},
       rewritten \in BOOLEAN :
        /\ CanEncrypt(alg, k, FALSE)
        /\ Does("encrypt", alg, alg,
                AddOuts(c, {Cipher(alg, k, [t |-> "text", v |-> Prepare(data, rewritten)],
                                   [t |-> "text", v |-> data])}))

(* Decrypting what was wrapped gives the key data.  The result of a wrong    *)
(* key, an error or noise, is left out.                                      *)
SubtleDecrypt ==
    \E o \in {x \in c.outs : x.t = "cipher"}, k \in Having("decrypt") :
        /\ CanEncrypt(o.alg, k, FALSE)
        /\ Opens(o.alg, k, o)
        /\ Does("decrypt", o.alg, o.alg,
                AddOuts([c EXCEPT !.changed = @ \/ o.of # o.was], {o.of}))

GiveBits(m, mat) == [AddOuts(m, {RawSecret(mat)}) EXCEPT !.free = @ \cup {mat}]

SubtleDeriveBits ==
    \E base \in Having("deriveBits"), pub \in c.keys, alg \in c.names, length \in Lengths :
        /\ DeriveAlgorithm(alg, pub)
        /\ DeriveBits(alg, base, pub, length)
        /\ Does("deriveBits", alg, alg, GiveBits(c, Derived(alg, base, pub, length)))

(* The secret of deriveKey, encapsulateKey or decapsulateKey becomes a key.  *)
Makes(name, mat, ext, usages) == ImportKey(name, "raw-secret", RawSecret(mat), ext, usages)

(* The secret becomes free where the program asked for an extractable key.   *)
MakeKey(op, alg, name, mat, ext, usages, m) ==
    LET r == Makes(name, mat, ext, usages)
    IN  /\ r.ok
        /\ Does(op, alg, name, [AddKey(m, r.key) EXCEPT
                                  !.free = IF ext THEN @ ELSE m.free])

(* The length that derive_key asks for: that of the key to be made.          *)
LengthFor(name) == IF Family(name) = "kdf" THEN Default ELSE 256

SubtleDeriveKey ==
    \E base \in Having("deriveKey"), pub \in c.keys, alg, name \in c.names :
        /\ DeriveAlgorithm(alg, pub)
        /\ Family(name) \in SecretFamilies
        /\ DeriveBits(alg, base, pub, LengthFor(name))
        /\ \E ext \in BOOLEAN, usages \in UsageArguments[name] :
             MakeKey("deriveKey", alg, name, Derived(alg, base, pub, LengthFor(name)), ext,
                     usages, c)

Encapsulated(alg, k, mat) == [t |-> "kem", alg |-> alg, id |-> k.mat.id, of |-> mat]

Fresh == Half({c.next}, "secret", 32)

SubtleEncapsulate ==
    \E k \in c.keys, alg \in c.names :
      LET m == [AddOuts(c, {Encapsulated(alg, k, Fresh)}) EXCEPT !.next = @ + 1]
      IN  \/ /\ CheckEncapsulationKey(k, alg, "encapsulateBits", "public")
             /\ Does("encapsulateBits", alg, alg, GiveBits(m, Fresh))
          \/ /\ CheckEncapsulationKey(k, alg, "encapsulateKey", "public")
             /\ \E name \in c.names, ext \in BOOLEAN : \E usages \in UsageArguments[name] :
                    MakeKey("encapsulateKey", alg, name, Fresh, ext, usages, m)

SubtleDecapsulate ==
    \E k \in c.keys, o \in {x \in c.outs : x.t = "kem"} :
      /\ o.id = k.mat.id
      /\ \/ /\ CheckEncapsulationKey(k, o.alg, "decapsulateBits", "private")
            /\ Does("decapsulateBits", o.alg, o.alg, GiveBits(c, o.of))
         \/ /\ CheckEncapsulationKey(k, o.alg, "decapsulateKey", "private")
            /\ \E name \in c.names, ext \in BOOLEAN : \E usages \in UsageArguments[name] :
                   MakeKey("decapsulateKey", o.alg, name, o.of, ext, usages, c)

ValidatePublicUsages(name, usages) ==
    ClassifyAndCheckUsages(KeyUsageAlgorithm(name), usages, "public")

(* subtle_get_public_key: supports_get_public_key, the kind, and the usages.  *)
SubtleGetPublicKey ==
    \E k \in c.keys :
      \E usages \in UsageArguments[k.name] :
        LET u == ValidatePublicUsages(k.name, usages)
        IN  /\ SupportsGetPublicKey(k.name)
            /\ k.kind = "private"
            /\ u.ok
            /\ Does("getPublicKey", k.name, k.name,
                    AddKey(c, CryptoKey("public", k.name, TRUE, u.public,
                                        [k.mat EXCEPT !.half = "public"], AllUsages)))

Next ==
    \/ GenerateKey \/ SubtleImportKey \/ SubtleExportKey \/ SubtleWrapKey \/ SubtleUnwrapKey
    \/ SubtleSign \/ SubtleVerify \/ SubtleEncrypt \/ SubtleDecrypt \/ SubtleDeriveBits
    \/ SubtleDeriveKey \/ SubtleEncapsulate \/ SubtleDecapsulate \/ SubtleGetPublicKey

Spec == Init /\ [][Next]_vars

-----------------------------------------------------------------------------
(* Properties.                                                               *)

IsMat(m) ==
    /\ m.id \subseteq (0..MaxSecrets \cup {99})
    /\ m.half \in {"secret", "private", "public"}
    /\ m.len \in Nat

TypeOK ==
    /\ \A k \in c.keys : /\ k.kind \in {"secret", "private", "public"}
                         /\ k.name \in c.names
                         /\ k.ext \in BOOLEAN
                         /\ k.usages \subseteq AllUsages
                         /\ IsMat(k.mat)
    /\ c.next \in 1..(MaxSecrets + 1)

(* The secret is the program's to see.                                       *)
Known(m) ==
    \/ m.half = "public"
    \/ m.id = {99}
    \/ \E f \in c.free : f.id = m.id /\ f.half = m.half

(* A CryptoKey keeps to its terms however it was made, by generateKey,        *)
(* importKey, unwrapKey, deriveKey, encapsulateKey, decapsulateKey or         *)
(* getPublicKey.  Its usages are among those that classify_and_check_usages   *)
(* gives its algorithm and kind, and among the key_ops of the JWK it was      *)
(* read from, so that a key that goes through wrapping never comes back able  *)
(* to do more; a secret key has a usage.  And a secret that the program only  *)
(* ever asked for in keys that are not extractable is in none of the results  *)
(* it holds, in clear or wrapped: not through exportKey and not through       *)
(* wrapKey, deriveKey and their like.  (A private key may have no usage:      *)
(* generateKey with the usages of the public half alone gives one.)           *)
KeysKeepTheirTerms ==
    /\ TypeOK
    /\ \A k \in c.keys :
          /\ k.usages \subseteq (IF k.kind = "private" THEN PrivateMask(KeyUsageAlgorithm(k.name))
                                                      ELSE PublicMask(KeyUsageAlgorithm(k.name)))
          /\ k.usages \subseteq k.within
          /\ k.kind = "secret" => k.usages # {}
          /\ Family(k.name) = "kdf" => ~k.ext
          /\ k.kind = "secret" <=> Family(k.name) \in SecretFamilies
    /\ \A o \in c.outs :
          /\ o.t = "data" => Known(o.mat)
          /\ o.t = "cipher" /\ o.of.t = "data" => Known(o.of.mat)

(* What goes in comes out: decrypt gives the data that encrypt was called     *)
(* with, verify accepts exactly the data that sign was called with, even if   *)
(* the program writes to its buffer before the future is polled (the          *)
(* prepare_* functions copy at the call), and unwrapKey gives the material    *)
(* that wrapKey took (AES-KW of raw data whose length is not a multiple of 8  *)
(* apart, which comes back with zeros).  And SubtleCrypto.supports never      *)
(* denies an operation that works.                                           *)
RoundTrips == ~c.changed /\ ~c.unforeseen

(* "WebCrypto requires call-time algorithm normalization and input            *)
(* snapshotting" (sign.rs): importKey too makes the key of the data it was    *)
(* called with.                                                              *)
(* It does not hold; no run checks it (README).                            *)
ImportsAtTheCall == ~c.late

=============================================================================
