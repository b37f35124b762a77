----------------------------- MODULE MCPlatform -----------------------------
(***************************************************************************)
(* What finds, loads and runs a program and its tests: the resolution of   *)
(* packages, require() beside import, the test runner; and the keys of     *)
(* SubtleCrypto.  The first state says which one runs; the others stay as  *)
(* they are.                                                               *)
(***************************************************************************)
EXTENDS Naturals

VARIABLES
  part,        \* the component that runs
  r,           \* PackageResolver
  m,           \* ModuleRequire
  wk, sv, g,   \* TestRunner
  c            \* CryptoKeys

Resolver == INSTANCE PackageResolver WITH MaxInstalls <- 1

Require == INSTANCE ModuleRequire WITH
  C1 <- "c1", C2 <- "c2", E <- "e", MaxCalls <- 2

Runner == INSTANCE TestRunner WITH
  FileList <- <<"a", "b">>, WorkerCount <- 2, MaxFaults <- 2

Crypto == INSTANCE CryptoKeys WITH
  Programs <- {{"HMAC", "AES-KW"}, {"AES-GCM", "ECDSA"}, {"ECDH", "ECDSA"},
               {"X25519", "HKDF"}, {"ML-KEM-768", "HMAC"}, {"RSA-OAEP", "HMAC"},
               {"Ed25519"}},
  MaxSecrets <- 2, MaxKeys <- 3, MaxOuts <- 2

all == <<part, r, m, wk, sv, g, c>>

MCInit ==
  /\ part \in {"resolver", "require", "runner", "crypto"}
  /\ IF part = "resolver" THEN Resolver!Init ELSE r = 0
  /\ IF part = "require" THEN Require!Init ELSE m = 0
  /\ IF part = "runner" THEN Runner!Init ELSE wk = 0 /\ sv = 0 /\ g = 0
  /\ IF part = "crypto" THEN Crypto!Init ELSE c = 0

MCNext ==
  \/ part = "resolver" /\ Resolver!Next /\ UNCHANGED <<part, m, wk, sv, g, c>>
  \/ part = "require" /\ Require!Next /\ UNCHANGED <<part, r, wk, sv, g, c>>
  \/ part = "runner" /\ Runner!Next /\ UNCHANGED <<part, r, m, c>>
  \/ part = "crypto" /\ Crypto!Next /\ UNCHANGED <<part, r, m, wk, sv, g>>

MCSpec == MCInit /\ [][MCNext]_all

----------------------------------------------------------------------------
(* Properties *)

(* The cache of node_modules directories changes no answer of              *)
(* require_resolve(), but for the three ways that PackageResolver tells    *)
(* apart.                                                                  *)
CacheIsTransparent == part = "resolver" => Resolver!CacheIsTransparent

(* However require() and import are nested, a file is evaluated at most    *)
(* once, and everyone who asks for it gets the same exports.               *)
ModulesAreShared == part = "require" => Require!ModulesAreShared

(* A test file is reported as passed only if its worker ran to the end and *)
(* nothing in it failed, in whatever order messages, exits and timeouts    *)
(* come.                                                                   *)
PassMeansPassed == part = "runner" => Runner!PassMeansPassed

(* Whatever workers fail, the test runner is never left without something  *)
(* that will bring it to its report.                                       *)
RunnerGoesOn == part = "runner" => Runner!RunnerGoesOn

(* A CryptoKey never comes to more usages, nor its material to a form,     *)
(* than the calls that made it allow.                                      *)
KeysKeepTheirTerms == part = "crypto" => Crypto!KeysKeepTheirTerms

(* What was encrypted, signed or wrapped comes back as it was at the call, *)
(* and supports() denies nothing that works.                               *)
RoundTrips == part = "crypto" => Crypto!RoundTrips
=============================================================================
