------------------------- MODULE AbortSignalProofs -------------------------
(* Proofs about AbortSignal, for every set of signals and every length of  *)
(* the argument of any().                                                  *)
EXTENDS AbortSignal, SequenceTheorems, FiniteSetTheorems, WellFoundedInduction,
        TLAPS

Kinds == {"unborn", "controller", "timeout", "timed out", "aborted", "any"}

(* The types, with the sequences over all signals.                         *)
Types ==
  /\ kind \in [Signal -> Kinds]
  /\ aborted \in [Signal -> BOOLEAN]
  /\ reason \in [Signal -> Reason \cup {"undefined"}]
  /\ sent \in [Signal -> Reason \cup {"none"}]
  /\ followers \in [Signal -> Seq(Signal)]
  /\ sources \in [Signal -> SUBSET Signal]
  /\ calls \in Seq(Signal \X Signal)
  /\ plain \in [Signal -> BOOLEAN]

(* Only live signals are followed, and only those that any() made follow.  *)
(* A signal that is not born, or whose timer runs, is not aborted.         *)
OnlyLive ==
  /\ \A s \in Signal : \A x \in sources[s] : kind[x] # "unborn"
  /\ \A x \in Signal : \A i \in 1 .. Len(followers[x]) :
       kind[followers[x][i]] = "any"
  /\ \A i \in 1 .. Len(calls) :
       kind[calls[i][1]] # "unborn" /\ kind[calls[i][2]] = "any"
  /\ \A s \in Signal : followers[s] # <<>> => kind[s] # "unborn"
  /\ \A s \in Signal : kind[s] \in {"unborn", "timeout"} => aborted[s] = FALSE
  /\ \A s \in Signal : aborted[s] = FALSE => sent[s] = "none"
  /\ \A s \in Signal : kind[s] = "unborn" => sources[s] = {}

(* The abort of a source is on its way to a signal that follows it: the    *)
(* listener is still there, or about to be called.                         *)
OnItsWay ==
  \A s \in Signal : \A x \in sources[s] :
    /\ aborted[s] = FALSE /\ aborted[x] = TRUE =>
         \E i \in 1 .. Len(calls) : calls[i][2] = s
    /\ aborted[s] = FALSE /\ aborted[x] = FALSE =>
         \E i \in 1 .. Len(followers[x]) : followers[x][i] = s

(* A plain signal has one listener that aborts it at most, and none once   *)
(* it is aborted.                                                          *)
Once(s) ==
  /\ \A x, y \in Signal : \A i \in 1 .. Len(followers[x]) :
       \A j \in 1 .. Len(followers[y]) :
         followers[x][i] = s /\ followers[y][j] = s => x = y /\ i = j
  /\ \A i, j \in 1 .. Len(calls) :
       calls[i][2] = s /\ calls[j][2] = s => i = j
  /\ \A x \in Signal : \A i \in 1 .. Len(followers[x]) :
       \A j \in 1 .. Len(calls) : ~(followers[x][i] = s /\ calls[j][2] = s)
  /\ aborted[s] = TRUE =>
       /\ \A x \in Signal : \A i \in 1 .. Len(followers[x]) : followers[x][i] # s
       /\ \A i \in 1 .. Len(calls) : calls[i][2] # s

PlainOnce == \A s \in Signal : plain[s] = TRUE => Once(s)

Inv == Types /\ OnlyLive /\ OnItsWay /\ PlainOnce /\ ObserversSee

----------------------------------------------------------------------------
(* The elements of the sequences.                                          *)
LEMMA Elements ==
  ASSUME Types
  PROVE  /\ \A x \in Signal : followers[x] \in Seq(Signal) /\ Len(followers[x]) \in Nat
         /\ \A x \in Signal : \A i \in 1 .. Len(followers[x]) : followers[x][i] \in Signal
         /\ calls \in Seq(Signal \X Signal) /\ Len(calls) \in Nat
         /\ \A i \in 1 .. Len(calls) : calls[i][1] \in Signal /\ calls[i][2] \in Signal
<1>1. ASSUME NEW x \in Signal
      PROVE  followers[x] \in Seq(Signal) /\ Len(followers[x]) \in Nat
  <2>1. followers[x] \in Seq(Signal)
    BY DEF Types
  <2> QED
    BY <2>1, LenProperties
<1>2. ASSUME NEW x \in Signal, NEW i \in 1 .. Len(followers[x])
      PROVE  followers[x][i] \in Signal
  BY <1>1, ElementOfSeq
<1>3. calls \in Seq(Signal \X Signal)
  BY DEF Types
<1>4. Len(calls) \in Nat
  BY <1>3, LenProperties
<1>5. ASSUME NEW i \in 1 .. Len(calls)
      PROVE  calls[i][1] \in Signal /\ calls[i][2] \in Signal
  <2>1. calls[i] \in Signal \X Signal
    BY <1>3, ElementOfSeq
  <2> QED
    BY <2>1
<1> QED
  BY <1>1, <1>2, <1>3, <1>4, <1>5

(* The listeners of any() go in front of those that are still to run.      *)
LEMMA CallsInFront ==
  ASSUME NEW s \in Signal, NEW f \in Seq(Signal),
         NEW rest \in Seq(Signal \X Signal)
  PROVE  LET c == Listeners(s, f) \o rest IN
         /\ c \in Seq(Signal \X Signal)
         /\ Len(c) = Len(f) + Len(rest)
         /\ \A i \in 1 .. Len(f) : c[i] = <<s, f[i]>>
         /\ \A i \in 1 .. Len(rest) : c[Len(f) + i] = rest[i]
         /\ \A i \in 1 .. Len(c) :
              IF i <= Len(f) THEN c[i] = <<s, f[i]>>
              ELSE i - Len(f) \in 1 .. Len(rest) /\ c[i] = rest[i - Len(f)]
<1> DEFINE g == Listeners(s, f)
           c == g \o rest
<1>1. /\ g \in Seq(Signal \X Signal) /\ Len(g) = Len(f)
      /\ \A i \in 1 .. Len(f) : g[i] = <<s, f[i]>>
  <2>1. DOMAIN f = 1 .. Len(f) /\ Len(f) \in Nat
    BY LenProperties
  <2>2. \A i \in 1 .. Len(f) : f[i] \in Signal
    BY <2>1, ElementOfSeq
  <2>3. g \in [1 .. Len(f) -> Signal \X Signal]
    BY <2>1, <2>2 DEF Listeners
  <2>4. \A i \in 1 .. Len(f) : g[i] = <<s, f[i]>>
    BY <2>1 DEF Listeners
  <2> HIDE DEF g
  <2> QED
    BY <2>1, <2>3, <2>4, IsASeq, LenProperties
<1> HIDE DEF g
<1>2. /\ g \o rest \in Seq(Signal \X Signal)
      /\ Len(g \o rest) = Len(g) + Len(rest)
      /\ \A i \in 1 .. Len(g) + Len(rest) : (g \o rest)[i] =
           IF i <= Len(g) THEN g[i] ELSE rest[i - Len(g)]
  BY <1>1, ConcatProperties, Zenon
<1>3. c = g \o rest
  OBVIOUS
<1> HIDE DEF c
<1>4. Len(f) \in Nat /\ Len(rest) \in Nat
  BY LenProperties
<1>5. \A i \in 1 .. Len(f) : c[i] = <<s, f[i]>>
  <2> SUFFICES ASSUME NEW i \in 1 .. Len(f) PROVE c[i] = <<s, f[i]>>
    OBVIOUS
  <2>1. i \in 1 .. Len(g) + Len(rest) /\ i <= Len(g)
    BY <1>1, <1>4
  <2>2. c[i] = g[i]
    BY <2>1, <1>2, <1>3, Zenon
  <2> QED
    BY <2>2, <1>1, Zenon
<1>6. \A i \in 1 .. Len(c) : i > Len(f) =>
        i - Len(f) \in 1 .. Len(rest) /\ c[i] = rest[i - Len(f)]
  BY <1>1, <1>2, <1>3, <1>4
<1>7. \A i \in 1 .. Len(rest) : c[Len(f) + i] = rest[i]
  <2> SUFFICES ASSUME NEW i \in 1 .. Len(rest) PROVE c[Len(f) + i] = rest[i]
    BY Zenon
  <2>1. (Len(f) + i) - Len(f) = i /\ Len(f) + i \in 1 .. Len(c) /\ Len(f) + i > Len(f)
    BY <1>1, <1>2, <1>3, <1>4
  <2> QED
    BY <2>1, <1>6, Zenon
<1>8. c \in Seq(Signal \X Signal) /\ Len(c) = Len(f) + Len(rest)
  BY <1>1, <1>2, <1>3
<1>9. ASSUME NEW i \in 1 .. Len(c)
      PROVE  IF i <= Len(f) THEN c[i] = <<s, f[i]>>
             ELSE i - Len(f) \in 1 .. Len(rest) /\ c[i] = rest[i - Len(f)]
  <2>1. i <= Len(f) => i \in 1 .. Len(f)
    BY <1>4
  <2>2. ~(i <= Len(f)) => i > Len(f)
    BY <1>4, <1>8
  <2> QED
    BY <2>1, <2>2, <1>5, <1>6, Zenon
<1> QED
  BY <1>5, <1>7, <1>8, <1>9, Zenon DEF c, g

(* What an abort may be called for: the kind of s becomes one that is      *)
(* aborted, and `rest` are the listeners to run, perhaps without the first *)
(* one if that is for s.                                                   *)
Allowed(s, rest, d) ==
  /\ kind' \in [Signal -> Kinds]
  /\ \A x \in Signal : /\ kind[x] = "any" => kind'[x] = "any"
                       /\ kind'[x] = "unborn" => kind[x] = "unborn"
                       /\ kind'[x] = "timeout" => kind[x] = "timeout"
  /\ kind'[s] \notin {"unborn", "timeout"}
  /\ d \in {0, 1}
  /\ rest \in Seq(Signal \X Signal)
  /\ Len(calls) = Len(rest) + d
  /\ \A i \in 1 .. Len(rest) : rest[i] = calls[i + d]
  /\ d = 1 => calls[1][2] = s
  /\ plain[s] = TRUE =>
       /\ \A x \in Signal : \A i \in 1 .. Len(followers[x]) : followers[x][i] # s
       /\ \A i \in 1 .. Len(rest) : rest[i][2] # s
  /\ UNCHANGED <<sources, plain>>

(* An abort keeps the invariant.                                           *)
LEMMA SendAborted ==
  ASSUME Inv, NEW s \in Signal, NEW r \in Reason \cup {"undefined"},
         NEW rest, NEW d, send_aborted(s, r, rest), Allowed(s, rest, d),
         plain[s] = TRUE => sent[s] = "none"
  PROVE  Inv'
<1> DEFINE why == get_reason_or_dom_exception(r, "AbortError")
           f == followers[s]
<1>1. why \in Reason
  BY DEF get_reason_or_dom_exception, Reason
<1>2. /\ aborted' = [aborted EXCEPT ![s] = TRUE]
      /\ reason' = [reason EXCEPT ![s] = why]
      /\ sent' = [sent EXCEPT ![s] = IF @ = "none" THEN why ELSE @]
      /\ calls' = Listeners(s, f) \o rest
      /\ followers' = [followers EXCEPT ![s] = <<>>]
      /\ sources' = sources /\ plain' = plain
  BY DEF send_aborted, send, Allowed
<1>3. f \in Seq(Signal) /\ Len(f) \in Nat
  BY LenProperties DEF Inv, Types
<1>4. rest \in Seq(Signal \X Signal) /\ Len(rest) \in Nat
  BY LenProperties DEF Allowed
<1>5. LET c == Listeners(s, f) \o rest IN
      /\ c \in Seq(Signal \X Signal)
      /\ Len(c) = Len(f) + Len(rest)
      /\ \A i \in 1 .. Len(f) : c[i] = <<s, f[i]>>
      /\ \A i \in 1 .. Len(rest) : c[Len(f) + i] = rest[i]
      /\ \A i \in 1 .. Len(c) :
           IF i <= Len(f) THEN c[i] = <<s, f[i]>>
           ELSE i - Len(f) \in 1 .. Len(rest) /\ c[i] = rest[i - Len(f)]
  BY <1>3, <1>4, CallsInFront, Zenon
<1> HIDE DEF why, f
<1>51. /\ calls' \in Seq(Signal \X Signal)
       /\ Len(calls') = Len(f) + Len(rest)
       /\ \A i \in 1 .. Len(f) : calls'[i] = <<s, f[i]>>
       /\ \A i \in 1 .. Len(rest) : calls'[Len(f) + i] = rest[i]
       /\ \A i \in 1 .. Len(calls') :
            IF i <= Len(f) THEN calls'[i] = <<s, f[i]>>
            ELSE i - Len(f) \in 1 .. Len(rest) /\ calls'[i] = rest[i - Len(f)]
  BY <1>2, <1>5, Zenon
<1>6. Types'
  BY <1>1, <1>2, <1>51 DEF Inv, Types, Allowed
<1>7. \A x \in Signal : followers'[x] = IF x = s THEN <<>> ELSE followers[x]
  BY <1>2 DEF Inv, Types
<1>71. f = followers[s]
  BY DEF f
<1>72. \A i \in 1 .. Len(calls') :
         \/ i \in 1 .. Len(f) /\ calls'[i][1] = s /\ calls'[i][2] = f[i]
         \/ /\ i > Len(f) /\ (i - Len(f)) + d \in 1 .. Len(calls)
            /\ i - Len(f) \in 1 .. Len(rest)
            /\ calls'[i] = rest[i - Len(f)]
            /\ calls'[i] = calls[(i - Len(f)) + d]
  <2>1. /\ d \in {0, 1} /\ Len(calls) = Len(rest) + d
        /\ \A j \in 1 .. Len(rest) : rest[j] = calls[j + d]
    BY DEF Allowed
  <2>2. TAKE i \in 1 .. Len(calls')
  <2>3. CASE i <= Len(f)
    <3>1. i \in 1 .. Len(f)
      BY <1>3, <2>3
    <3>2. calls'[i] = <<s, f[i]>>
      BY <1>51, <3>1, Zenon
    <3> QED
      BY <3>1, <3>2
  <2>4. CASE ~(i <= Len(f))
    <3>1. i - Len(f) \in 1 .. Len(rest) /\ calls'[i] = rest[i - Len(f)]
      BY <1>51, <2>4, Zenon
    <3>2. rest[i - Len(f)] = calls[(i - Len(f)) + d]
      BY <2>1, <3>1, Zenon
    <3>3. i > Len(f) /\ (i - Len(f)) + d \in 1 .. Len(calls)
      BY <1>3, <1>4, <2>1, <2>4, <3>1, SMTT(20)
    <3> QED
      BY <3>1, <3>2, <3>3, Zenon
  <2> QED
    BY <2>3, <2>4, Zenon
<1>73. \A x \in Signal : aborted'[x] = IF x = s THEN TRUE ELSE aborted[x]
  BY <1>2 DEF Inv, Types
<1>74. \A i \in 1 .. Len(calls) : calls[i][2] # s =>
         \E j \in 1 .. Len(calls') : calls'[j] = calls[i]
  <2> SUFFICES ASSUME NEW i \in 1 .. Len(calls), calls[i][2] # s
               PROVE  \E j \in 1 .. Len(calls') : calls'[j] = calls[i]
    OBVIOUS
  <2>1. i - d \in 1 .. Len(rest) /\ rest[i - d] = calls[i]
    BY <1>4 DEF Allowed
  <2>2. Len(f) + (i - d) \in 1 .. Len(calls')
    BY <2>1, <1>3, <1>4, <1>51, SMTT(20)
  <2> QED
    BY <2>1, <2>2, <1>51
<1>75. /\ \A x \in Signal : /\ kind[x] = "any" => kind'[x] = "any"
                            /\ kind'[x] = "unborn" => kind[x] = "unborn"
                            /\ kind'[x] = "timeout" => kind[x] = "timeout"
       /\ kind'[s] \notin {"unborn", "timeout"}
  BY DEF Allowed
<1>76. /\ \A x \in Signal : followers[x] \in Seq(Signal)
       /\ \A x \in Signal : \A i \in 1 .. Len(followers[x]) : followers[x][i] \in Signal
       /\ \A i \in 1 .. Len(calls) : calls[i][1] \in Signal /\ calls[i][2] \in Signal
  BY DEF Inv, Types
<1>77. Len(<<>>) = 0 /\ 1 .. 0 = {}
  OBVIOUS
<1>8. OnlyLive'
  <2>1. \A t \in Signal : \A x \in sources'[t] : kind'[x] # "unborn"
    BY <1>2, <1>75 DEF Inv, Types, OnlyLive
  <2>2. \A x \in Signal : \A i \in 1 .. Len(followers'[x]) :
          kind'[followers'[x][i]] = "any"
    BY <1>7, <1>75, <1>76, <1>77 DEF Inv, OnlyLive
  <2>3. ASSUME NEW i \in 1 .. Len(calls')
        PROVE  kind'[calls'[i][1]] # "unborn" /\ kind'[calls'[i][2]] = "any"
    <3>1. CASE i \in 1 .. Len(f) /\ calls'[i][1] = s /\ calls'[i][2] = f[i]
      BY <3>1, <1>71, <1>75, <1>76 DEF Inv, OnlyLive
    <3>2. CASE /\ (i - Len(f)) + d \in 1 .. Len(calls)
               /\ calls'[i] = calls[(i - Len(f)) + d]
      <4>1. PICK k \in 1 .. Len(calls) : calls'[i] = calls[k]
        BY <3>2
      <4>2. /\ kind[calls[k][1]] # "unborn" /\ kind[calls[k][2]] = "any"
            /\ calls[k][1] \in Signal /\ calls[k][2] \in Signal
        BY <4>1, <1>76 DEF Inv, OnlyLive
      <4>3. kind'[calls[k][1]] # "unborn" /\ kind'[calls[k][2]] = "any"
        BY <4>2, <1>75
      <4> QED
        BY <4>1, <4>3
    <3> QED
      BY <3>1, <3>2, <1>72
  <2>4. \A t \in Signal : followers'[t] # <<>> => kind'[t] # "unborn"
    BY <1>7, <1>75 DEF Inv, OnlyLive
  <2>5. ASSUME NEW t \in Signal, kind'[t] \in {"unborn", "timeout"}
        PROVE  aborted'[t] = FALSE
    <3>1. t # s /\ kind[t] \in {"unborn", "timeout"}
      BY <2>5, <1>75
    <3>2. aborted[t] = FALSE
      BY <3>1 DEF Inv, OnlyLive
    <3> QED
      BY <3>1, <3>2, <1>73, Zenon
  <2>6. \A t \in Signal : aborted'[t] = FALSE => sent'[t] = "none"
    BY <1>2, <1>73 DEF Inv, Types, OnlyLive
  <2>7. \A t \in Signal : kind'[t] = "unborn" => sources'[t] = {}
    BY <1>2, <1>75 DEF Inv, OnlyLive
  <2> QED
    BY <2>1, <2>2, <2>3, <2>4, <2>5, <2>6, <2>7, Zenon DEF OnlyLive
<1>9. OnItsWay'
  <2> SUFFICES ASSUME NEW t \in Signal, NEW x \in sources[t], aborted'[t] = FALSE
               PROVE  /\ aborted'[x] = TRUE =>
                           \E i \in 1 .. Len(calls') : calls'[i][2] = t
                      /\ aborted'[x] = FALSE =>
                           \E i \in 1 .. Len(followers'[x]) : followers'[x][i] = t
    BY <1>2, ZenonT(30) DEF OnItsWay
  <2>1. x \in Signal /\ t # s /\ aborted[t] = FALSE
    BY <1>73, Zenon DEF Inv, Types
  <2>2. CASE aborted[x] = TRUE
    <3>1. PICK i \in 1 .. Len(calls) : calls[i][2] = t
      BY <2>1, <2>2 DEF Inv, OnItsWay
    <3>2. aborted'[x] # FALSE
      BY <2>1, <2>2, <1>73, Zenon
    <3> QED
      BY <3>1, <3>2, <2>1, <1>74, Zenon
  <2>3. CASE aborted[x] = FALSE
    <3>1. PICK i \in 1 .. Len(followers[x]) : followers[x][i] = t
      BY <2>1, <2>3 DEF Inv, OnItsWay
    <3>2. CASE x = s
      <4>1. i \in 1 .. Len(f) /\ f[i] = t
        BY <3>1, <3>2, <1>71
      <4>2. i \in 1 .. Len(calls')
        BY <4>1, <1>3, <1>4, <1>51
      <4>3. calls'[i] = <<s, f[i]>>
        BY <4>1, <1>51
      <4>4. aborted'[x] = TRUE
        BY <3>2, <2>1, <1>73, Zenon
      <4>5. calls'[i][2] = t
        BY <4>1, <4>3
      <4> QED
        BY <4>2, <4>4, <4>5
    <3>3. CASE x # s
      BY <3>1, <3>3, <2>1, <2>3, <1>7, <1>73, Zenon
    <3> QED
      BY <3>2, <3>3, Zenon
  <2> QED
    BY <2>1, <2>2, <2>3, Zenon DEF Inv, Types
<1>10. PlainOnce'
  <2> SUFFICES ASSUME NEW t \in Signal, plain[t] = TRUE PROVE Once(t)'
    BY <1>2, Zenon DEF PlainOnce
  <2>1. Once(t)
    BY DEF Inv, PlainOnce
  <2>2. ASSUME NEW x \in Signal, NEW i \in 1 .. Len(followers'[x]), followers'[x][i] = t
        PROVE  x # s /\ i \in 1 .. Len(followers[x]) /\ followers[x][i] = t
    BY <2>2, <1>7, <1>77, SMTT(20)
  <2>3. ASSUME NEW i \in 1 .. Len(calls'), calls'[i][2] = t
        PROVE  \/ i \in 1 .. Len(followers[s]) /\ followers[s][i] = t
               \/ /\ (i - Len(f)) + d \in 1 .. Len(calls)
                  /\ calls[(i - Len(f)) + d][2] = t
                  /\ i - Len(f) \in 1 .. Len(rest) /\ rest[i - Len(f)][2] = t
    BY <2>3, <1>71, <1>72, SMTT(20)
  <2>4. \A x, y \in Signal : \A i \in 1 .. Len(followers'[x]) :
          \A j \in 1 .. Len(followers'[y]) :
            followers'[x][i] = t /\ followers'[y][j] = t => x = y /\ i = j
    <3> SUFFICES ASSUME NEW x \in Signal, NEW y \in Signal, NEW i \in 1 .. Len(followers'[x]),
                        NEW j \in 1 .. Len(followers'[y]),
                        followers'[x][i] = t, followers'[y][j] = t
                 PROVE  x = y /\ i = j
      OBVIOUS
    <3> QED
      BY <2>1, <2>2 DEF Once
  <2>5. \A i, j \in 1 .. Len(calls') : calls'[i][2] = t /\ calls'[j][2] = t => i = j
    <3> SUFFICES ASSUME NEW i \in 1 .. Len(calls'), NEW j \in 1 .. Len(calls'),
                        calls'[i][2] = t, calls'[j][2] = t
                 PROVE  i = j
      OBVIOUS
    <3>1. CASE /\ i \in 1 .. Len(followers[s]) /\ followers[s][i] = t
               /\ j \in 1 .. Len(followers[s]) /\ followers[s][j] = t
      BY <3>1, <2>1 DEF Once
    <3>2. CASE /\ (i - Len(f)) + d \in 1 .. Len(calls) /\ calls[(i - Len(f)) + d][2] = t
               /\ (j - Len(f)) + d \in 1 .. Len(calls) /\ calls[(j - Len(f)) + d][2] = t
      <4>1. (i - Len(f)) + d = (j - Len(f)) + d
        BY <3>2, <2>1 DEF Once
      <4> QED
        BY <4>1, <1>3 DEF Allowed
    <3> QED
      BY <3>1, <3>2, <2>1, <2>3 DEF Once
  <2>6. ASSUME NEW x \in Signal, NEW i \in 1 .. Len(followers'[x]), NEW j \in 1 .. Len(calls'),
               followers'[x][i] = t, calls'[j][2] = t
        PROVE  FALSE
    <3>1. x # s /\ i \in 1 .. Len(followers[x]) /\ followers[x][i] = t
      BY <2>2, <2>6
    <3>2. CASE j \in 1 .. Len(followers[s]) /\ followers[s][j] = t
      BY <3>1, <3>2, <2>1 DEF Once
    <3>3. CASE /\ (j - Len(f)) + d \in 1 .. Len(calls)
               /\ calls[(j - Len(f)) + d][2] = t
      BY <3>1, <3>3, <2>1 DEF Once
    <3> QED
      BY <3>2, <3>3, <2>3, <2>6, SMTT(20)
  <2>7. ASSUME aborted'[t] = TRUE
        PROVE  /\ \A x \in Signal : \A i \in 1 .. Len(followers'[x]) : followers'[x][i] # t
               /\ \A i \in 1 .. Len(calls') : calls'[i][2] # t
    <3>1. CASE t = s
      <4>1. /\ \A x \in Signal : \A i \in 1 .. Len(followers[x]) : followers[x][i] # t
            /\ \A i \in 1 .. Len(rest) : rest[i][2] # t
        BY <3>1 DEF Allowed
      <4> QED
        BY <4>1, <2>2, <2>3, Zenon
    <3>2. CASE t # s
      <4>1. /\ \A x \in Signal : \A i \in 1 .. Len(followers[x]) : followers[x][i] # t
            /\ \A i \in 1 .. Len(calls) : calls[i][2] # t
        BY <3>2, <2>1, <2>7, <1>73, Zenon DEF Once
      <4> QED
        BY <4>1, <2>2, <2>3, SMTT(20)
    <3> QED
      BY <3>1, <3>2
  <2>9. \A x \in Signal : \A i \in 1 .. Len(followers'[x]) :
          \A j \in 1 .. Len(calls') : ~(followers'[x][i] = t /\ calls'[j][2] = t)
    BY <2>6, Zenon
  <2> QED
    BY <2>4, <2>5, <2>7, <2>9, Zenon DEF Once
<1>11. ObserversSee'
  BY <1>1, <1>2 DEF Inv, Types, ObserversSee
<1> QED
  BY <1>6, <1>8, <1>9, <1>10, <1>11 DEF Inv

----------------------------------------------------------------------------
(* The least element of a nonempty set of numbers is one of them.          *)
LEMMA LeastIn ==
  ASSUME NEW S \in SUBSET Nat, S # {}
  PROVE  Min(S) \in S
<1> DEFINE Less == {ss \in Nat \X Nat : ss[1] < ss[2]}
<1>1. IsWellFoundedOn(Less, Nat)
  BY NatLessThanWellFounded, Zenon DEF OpToRel
<1> HIDE DEF Less
<1>2. PICK x \in S : \A y \in S : ~(<<y, x>> \in Less)
  BY <1>1, WFMin, Zenon
<1>3. ASSUME NEW y \in S PROVE x <= y
  <2>1. x \in Nat /\ y \in Nat
    OBVIOUS
  <2>2. ASSUME y < x PROVE <<y, x>> \in Less
    BY <2>1, <2>2 DEF Less
  <2>3. ~(y < x)
    BY <2>2, <1>2
  <2> QED
    BY <2>1, <2>3
<1> QED
  BY <1>3, Zenon DEF Min

(* The first signal that is aborted, if there is one.                      *)
LEMMA FirstAborted ==
  ASSUME Types, NEW n \in Nat \ {0}, NEW signals \in [1 .. n -> Signal]
  PROVE  LET first == SelectInSeq(signals, LAMBDA x : aborted[x]) IN
         /\ first # 0 => first \in 1 .. n /\ \E i \in 1 .. n : aborted[signals[i]] = TRUE
         /\ first = 0 => \A i \in 1 .. n : aborted[signals[i]] = FALSE
<1> DEFINE I == {i \in 1 .. Len(signals) : aborted[signals[i]]}
<1>1. Len(signals) = n
  BY IsASeq, LenProperties
<1>2. I \in SUBSET Nat /\ I \subseteq 1 .. n
  BY <1>1
<1>3. SelectInSeq(signals, LAMBDA x : aborted[x]) = IF I # {} THEN Min(I) ELSE 0
  BY DEF SelectInSeq
<1>4. I # {} => Min(I) \in I
  BY <1>2, LeastIn, Zenon
<1>5. \A i \in 1 .. n : aborted[signals[i]] \in BOOLEAN
  BY DEF Types
<1>6. \A i \in 1 .. n : i \in I <=> aborted[signals[i]] = TRUE
  BY <1>1, <1>5
<1> HIDE DEF I
<1>7. CASE I = {}
  BY <1>3, <1>5, <1>6, <1>7
<1>8. CASE I # {}
  BY <1>2, <1>3, <1>4, <1>6, <1>8
<1> QED
  BY <1>7, <1>8, Zenon

(* How often any() adds a listener to a signal.                            *)
LEMMA TimesGiven ==
  ASSUME NEW n \in Nat \ {0}, NEW signals \in [1 .. n -> Signal], NEW x \in Signal
  PROVE  /\ Times(x, signals) \in Nat
         /\ Times(x, signals) > 0 <=> \E i \in 1 .. n : signals[i] = x
         /\ n = 1 => Times(x, signals) = IF signals[1] = x THEN 1 ELSE 0
<1> DEFINE T == {i \in 1 .. n : signals[i] = x}
<1>1. DOMAIN signals = 1 .. n
  OBVIOUS
<1>2. Times(x, signals) = Cardinality(T)
  BY <1>1 DEF Times
<1>3. IsFiniteSet(T)
  <2>1. IsFiniteSet(1 .. n)
    BY FS_Interval
  <2> QED
    BY <2>1, FS_Subset
<1>4. Cardinality(T) \in Nat
  BY <1>3, FS_CardinalityType
<1>5. Cardinality(T) = 0 <=> T = {}
  BY <1>3, FS_EmptySet
<1>6. T = {} <=> ~ \E i \in 1 .. n : signals[i] = x
  OBVIOUS
<1>7. ASSUME n = 1 PROVE Cardinality(T) = IF signals[1] = x THEN 1 ELSE 0
  <2>1. 1 .. n = {1}
    BY <1>7
  <2>2. CASE signals[1] = x
    <3>1. T = {1}
      BY <2>1, <2>2
    <3> QED
      BY <2>2, <3>1, FS_Singleton, Zenon
  <2>3. CASE signals[1] # x
    <3>1. T = {}
      BY <2>1, <2>3
    <3> QED
      BY <2>3, <3>1, FS_EmptySet, Zenon
  <2> QED
    BY <2>2, <2>3
<1> HIDE DEF T
<1> QED
  BY <1>2, <1>4, <1>5, <1>6, <1>7

Copies(k, s) == [i \in 1 .. k |-> s]

(* g is f with k times s behind it.                                        *)
Longer(g, f, k, s) ==
  /\ g \in Seq(Signal)
  /\ Len(g) = Len(f) + k
  /\ Len(f) \in Nat
  /\ \A i \in 1 .. Len(g) :
       \/ i \in 1 .. Len(f) /\ g[i] = f[i]
       \/ i > Len(f) /\ g[i] = s
  /\ \A i \in 1 .. Len(f) : i \in 1 .. Len(g) /\ g[i] = f[i]

(* The listeners that any() adds to those of a signal.                     *)
LEMMA AddedListeners ==
  ASSUME NEW f \in Seq(Signal), NEW k \in Nat, NEW s \in Signal
  PROVE  Longer(f \o Copies(k, s), f, k, s)
<1> DEFINE h == Copies(k, s)
           g == f \o Copies(k, s)
<1>1. h \in Seq(Signal) /\ Len(h) = k /\ \A i \in 1 .. k : h[i] = s
  <2>1. h \in [1 .. k -> Signal] /\ \A i \in 1 .. k : h[i] = s
    BY DEF Copies
  <2> QED
    BY <2>1, IsASeq, LenProperties
<1>4. g = f \o h
  OBVIOUS
<1> HIDE DEF h, g
<1>2. /\ f \o h \in Seq(Signal)
      /\ Len(f \o h) = Len(f) + Len(h)
      /\ \A i \in 1 .. Len(f) + Len(h) : (f \o h)[i] =
           IF i <= Len(f) THEN f[i] ELSE h[i - Len(f)]
  BY <1>1, ConcatProperties, Zenon
<1>3. Len(f) \in Nat
  BY LenProperties
<1>5. Len(g) = Len(f) + k /\ g \in Seq(Signal)
  BY <1>1, <1>2, <1>4
<1>6. ASSUME NEW i \in 1 .. Len(g)
      PROVE  \/ i \in 1 .. Len(f) /\ g[i] = f[i]
             \/ i > Len(f) /\ g[i] = s
  <2>1. g[i] = IF i <= Len(f) THEN f[i] ELSE h[i - Len(f)]
    BY <1>1, <1>2, <1>4, <1>5
  <2>2. CASE i <= Len(f)
    BY <2>1, <2>2, <1>3
  <2>3. CASE i > Len(f)
    <3>1. i - Len(f) \in 1 .. k
      BY <2>3, <1>3, <1>5
    <3>2. g[i] = h[i - Len(f)]
      BY <2>1, <2>3, <1>3
    <3> QED
      BY <3>1, <3>2, <2>3, <1>1
  <2> QED
    BY <2>2, <2>3, <1>3, <1>5
<1>7. ASSUME NEW i \in 1 .. Len(f) PROVE i \in 1 .. Len(g) /\ g[i] = f[i]
  BY <1>1, <1>2, <1>3, <1>4, <1>5, SMTT(20)
<1>8. Longer(g, f, k, s)
  BY <1>3, <1>5, <1>6, <1>7 DEF Longer
<1> QED
  BY <1>8 DEF g

----------------------------------------------------------------------------
(* any() keeps the invariant.                                              *)
LEMMA AnyKeeps ==
  ASSUME Inv, NEW s \in Signal, NEW n \in Nat \ {0}, NEW signals \in [1 .. n -> Live],
         AnySignal(s, signals)
  PROVE  Inv'
<1> DEFINE first == SelectInSeq(signals, LAMBDA x : aborted[x])
<1>1. signals \in [1 .. n -> Signal] /\ \A i \in 1 .. n : kind[signals[i]] # "unborn"
  BY DEF Live
<1>2. Len(signals) = n /\ ToSet(signals) = {signals[i] : i \in 1 .. n}
  BY <1>1, IsASeq, LenProperties DEF ToSet
<1>3. /\ kind[s] = "unborn" /\ kind' = [kind EXCEPT ![s] = "any"]
      /\ sources' = [sources EXCEPT ![s] = ToSet(signals)]
      /\ plain' = [plain EXCEPT ![s] = Len(signals) = 1 /\ ~aborted[signals[1]]]
      /\ sent' = sent /\ calls' = calls
      /\ IF first # 0
         THEN /\ aborted' = [aborted EXCEPT ![s] = TRUE]
              /\ reason' = [reason EXCEPT ![s] = reason[signals[first]]]
              /\ followers' = followers
         ELSE /\ followers' = [x \in Signal |-> followers[x] \o
                                 [i \in 1 .. Times(x, signals) |-> s]]
              /\ aborted' = aborted /\ reason' = reason
  BY Zenon DEF AnySignal, Born
<1>4. /\ first # 0 => first \in 1 .. n /\ \E i \in 1 .. n : aborted[signals[i]] = TRUE
      /\ first = 0 => \A i \in 1 .. n : aborted[signals[i]] = FALSE
  BY <1>1, FirstAborted, Zenon DEF Inv
<1> HIDE DEF first
<1>5. /\ aborted[s] = FALSE /\ sources[s] = {} /\ sent[s] = "none"
      /\ \A x \in Signal : \A i \in 1 .. Len(followers[x]) :
           followers[x][i] # s /\ followers[x][i] \in Signal
      /\ \A i \in 1 .. Len(calls) :
           /\ calls[i][2] # s /\ calls[i][1] \in Signal /\ calls[i][2] \in Signal
           /\ calls[i][1] # s
      /\ \A t \in Signal : s \notin sources[t] /\ sources[t] \subseteq Signal
  <2>1. aborted[s] = FALSE /\ sources[s] = {} /\ sent[s] = "none"
    BY <1>3 DEF Inv, OnlyLive
  <2>2. \A x \in Signal : \A i \in 1 .. Len(followers[x]) :
          followers[x][i] # s /\ followers[x][i] \in Signal
    BY <1>3, Elements DEF Inv, OnlyLive
  <2>3. \A i \in 1 .. Len(calls) :
          calls[i][1] # s /\ calls[i][2] # s /\ calls[i][1] \in Signal /\ calls[i][2] \in Signal
    BY <1>3, Elements, SMTT(20) DEF Inv, OnlyLive
  <2>4. \A t \in Signal : s \notin sources[t] /\ sources[t] \subseteq Signal
    BY <1>3 DEF Inv, Types, OnlyLive
  <2> QED
    BY <2>1, <2>2, <2>3, <2>4, SMTT(20)
<1>6. /\ \A t \in Signal : kind'[t] = IF t = s THEN "any" ELSE kind[t]
      /\ \A t \in Signal : sources'[t] = IF t = s THEN ToSet(signals) ELSE sources[t]
      /\ \A t \in Signal : t # s => plain'[t] = plain[t]
      /\ plain'[s] = (n = 1 /\ ~aborted[signals[1]])
      /\ kind' \in [Signal -> Kinds] /\ plain' \in [Signal -> BOOLEAN]
      /\ sources' \in [Signal -> SUBSET Signal]
  <2>1. kind \in [Signal -> Kinds] /\ plain \in [Signal -> BOOLEAN]
        /\ sources \in [Signal -> SUBSET Signal]
    BY DEF Inv, Types
  <2>2. ToSet(signals) \in SUBSET Signal
    BY <1>1, <1>2
  <2>3. kind' \in [Signal -> Kinds] /\ \A t \in Signal : kind'[t] = IF t = s THEN "any" ELSE kind[t]
    BY <2>1, <1>3, Zenon DEF Kinds
  <2>4. /\ sources' \in [Signal -> SUBSET Signal]
        /\ \A t \in Signal : sources'[t] = IF t = s THEN ToSet(signals) ELSE sources[t]
    BY <2>1, <2>2, <1>3
  <2> DEFINE one == Len(signals) = 1 /\ ~aborted[signals[1]]
  <2>5. one \in BOOLEAN /\ one = (n = 1 /\ ~aborted[signals[1]])
    BY <1>2
  <2>6. plain' = [plain EXCEPT ![s] = one]
    BY <1>3
  <2> HIDE DEF one
  <2>7. /\ plain' \in [Signal -> BOOLEAN] /\ plain'[s] = one
        /\ \A t \in Signal : t # s => plain'[t] = plain[t]
    BY <2>1, <2>5, <2>6, SMTT(20)
  <2> QED
    BY <2>3, <2>4, <2>5, <2>7, SMTT(20)
<1>7. \A x \in ToSet(signals) : x \in Signal /\ x # s /\ kind[x] # "unborn"
  BY <1>1, <1>2, <1>3
<1>8. CASE first # 0
  <2>1. /\ \A t \in Signal : aborted'[t] = IF t = s THEN TRUE ELSE aborted[t]
        /\ \A t \in Signal : t # s => reason'[t] = reason[t]
        /\ followers' = followers
        /\ aborted' \in [Signal -> BOOLEAN]
        /\ reason' \in [Signal -> Reason \cup {"undefined"}]
    <3> DEFINE why == reason[signals[first]]
    <3>1. aborted \in [Signal -> BOOLEAN] /\ reason \in [Signal -> Reason \cup {"undefined"}]
      BY DEF Inv, Types
    <3>2. why \in Reason \cup {"undefined"}
      BY <3>1, <1>1, <1>4, <1>8
    <3>3. /\ aborted' = [aborted EXCEPT ![s] = TRUE] /\ followers' = followers
          /\ reason' = [reason EXCEPT ![s] = why]
      BY <1>3, <1>8
    <3> HIDE DEF why
    <3> QED
      BY <3>1, <3>2, <3>3
  <2>2. plain'[s] = FALSE
    <3>1. CASE n = 1
      <4>1. aborted[signals[1]] = TRUE
        BY <3>1, <1>4, <1>8
      <4> QED
        BY <4>1, <1>6
    <3>2. CASE n # 1
      BY <3>2, <1>6, SMTT(20)
    <3> QED
      BY <3>1, <3>2, Zenon
  <2>3. Types'
    BY <2>1, <1>3, <1>6, SMTT(20) DEF Inv, Types
  <2>4. OnlyLive'
    <3>1. \A t \in Signal : \A x \in sources'[t] : kind'[x] # "unborn"
      BY <1>5, <1>6, <1>7, SMTT(20) DEF Inv, OnlyLive
    <3>2. \A x \in Signal : \A i \in 1 .. Len(followers'[x]) :
            kind'[followers'[x][i]] = "any"
      BY <2>1, <1>5, <1>6, SMTT(20) DEF Inv, OnlyLive
    <3>3. \A i \in 1 .. Len(calls') :
            kind'[calls'[i][1]] # "unborn" /\ kind'[calls'[i][2]] = "any"
      BY <1>3, <1>5, <1>6, SMTT(20) DEF Inv, OnlyLive
    <3>4. \A t \in Signal : followers'[t] # <<>> => kind'[t] # "unborn"
      BY <2>1, <1>6 DEF Inv, OnlyLive
    <3>5. \A t \in Signal : kind'[t] \in {"unborn", "timeout"} => aborted'[t] = FALSE
      BY <2>1, <1>6, ZenonT(30) DEF Inv, OnlyLive
    <3>6. \A t \in Signal : aborted'[t] = FALSE => sent'[t] = "none"
      BY <2>1, <1>3 DEF Inv, OnlyLive
    <3>7. \A t \in Signal : kind'[t] = "unborn" => sources'[t] = {}
      BY <1>6 DEF Inv, OnlyLive
    <3> QED
      BY <3>1, <3>2, <3>3, <3>4, <3>5, <3>6, <3>7, SMTT(20) DEF OnlyLive
  <2>5. OnItsWay'
    <3> SUFFICES ASSUME NEW t \in Signal, NEW x \in sources'[t], aborted'[t] = FALSE
                 PROVE  /\ aborted'[x] = TRUE =>
                             \E i \in 1 .. Len(calls') : calls'[i][2] = t
                        /\ aborted'[x] = FALSE =>
                             \E i \in 1 .. Len(followers'[x]) : followers'[x][i] = t
      BY Zenon DEF OnItsWay
    <3>1. t # s /\ aborted[t] = FALSE
      BY <2>1, Zenon
    <3>2. x \in sources[t] /\ x \in Signal
      BY <3>1, <1>6 DEF Inv, Types
    <3>3. x # s
      BY <3>2, <1>5
    <3>4. aborted'[x] = aborted[x] /\ calls' = calls /\ followers' = followers
      BY <3>2, <3>3, <2>1, <1>3, SMTT(20)
    <3> QED
      BY <3>1, <3>2, <3>4 DEF Inv, OnItsWay
  <2>6. PlainOnce'
    <3> SUFFICES ASSUME NEW t \in Signal, plain'[t] = TRUE PROVE Once(t)'
      BY Zenon DEF PlainOnce
    <3>1. t # s /\ plain[t] = TRUE /\ aborted'[t] = aborted[t]
      BY <2>1, <2>2, <1>6, Zenon
    <3>2. Once(t)
      BY <3>1 DEF Inv, PlainOnce
    <3> QED
      BY <3>1, <3>2, <2>1, <1>3 DEF Once
  <2>7. ObserversSee'
    BY <2>1, <2>2, <1>3, <1>6, SMTT(20) DEF Inv, Types, ObserversSee
  <2> QED
    BY <2>3, <2>4, <2>5, <2>6, <2>7 DEF Inv
<1>9. CASE first = 0
  <2>1. /\ followers' = [x \in Signal |-> followers[x] \o
                           [i \in 1 .. Times(x, signals) |-> s]]
        /\ aborted' = aborted /\ reason' = reason
        /\ \A i \in 1 .. n : aborted[signals[i]] = FALSE
    BY <1>3, <1>4, <1>9, Zenon
  <2>2. \A x \in Signal :
          /\ Times(x, signals) \in Nat
          /\ Times(x, signals) > 0 <=> x \in ToSet(signals)
          /\ n = 1 => Times(x, signals) = IF signals[1] = x THEN 1 ELSE 0
    BY <1>1, <1>2, TimesGiven
  <2>3. ASSUME NEW x \in Signal
        PROVE  /\ followers'[x] \in Seq(Signal)
               /\ Len(followers'[x]) = Len(followers[x]) + Times(x, signals)
               /\ Len(followers[x]) \in Nat
               /\ \A i \in 1 .. Len(followers'[x]) :
                    \/ i \in 1 .. Len(followers[x]) /\ followers'[x][i] = followers[x][i]
                    \/ i > Len(followers[x]) /\ followers'[x][i] = s
               /\ \A i \in 1 .. Len(followers[x]) :
                    i \in 1 .. Len(followers'[x]) /\ followers'[x][i] = followers[x][i]
    <3>1. followers'[x] = followers[x] \o Copies(Times(x, signals), s)
      BY <2>1, Zenon DEF Copies
    <3>2. followers[x] \in Seq(Signal) /\ Times(x, signals) \in Nat
      BY <2>2 DEF Inv, Types
    <3>3. Longer(followers[x] \o Copies(Times(x, signals), s), followers[x],
                 Times(x, signals), s)
      BY <3>2, AddedListeners
    <3>4. Longer(followers'[x], followers[x], Times(x, signals), s)
      BY <3>1, <3>3, SMTT(20)
    <3> QED
      BY <3>4 DEF Longer
  <2>4. Types'
    <3>1. followers' \in [Signal -> Seq(Signal)]
      BY <2>1, <2>3, SMTT(20)
    <3> QED
      BY <3>1, <2>1, <1>3, <1>6, SMTT(20) DEF Inv, Types
  <2>5. OnlyLive'
    <3>1. \A x \in Signal : \A i \in 1 .. Len(followers'[x]) :
            kind'[followers'[x][i]] = "any"
      <4> TAKE x \in Signal
      <4> TAKE i \in 1 .. Len(followers'[x])
      <4>1. CASE i \in 1 .. Len(followers[x]) /\ followers'[x][i] = followers[x][i]
        <5>1. followers[x][i] \in Signal /\ followers[x][i] # s
          BY <4>1, <1>5, Zenon
        <5>2. kind[followers[x][i]] = "any"
          BY <4>1, Zenon DEF Inv, OnlyLive
        <5> QED
          BY <4>1, <5>1, <5>2, <1>6, Zenon
      <4>2. CASE followers'[x][i] = s
        BY <4>2, <1>6, Zenon
      <4> QED
        BY <4>1, <4>2, <2>3, Zenon
    <3>2. ASSUME NEW t \in Signal, followers'[t] # <<>> PROVE kind'[t] # "unborn"
      <4>1. CASE Times(t, signals) > 0
        BY <4>1, <2>2, <1>6, <1>7, SMTT(20)
      <4>2. CASE Times(t, signals) = 0
        <5>1. Len(followers'[t]) # 0
          BY <3>2, <2>3, EmptySeq
        <5>2. followers[t] # <<>>
          BY <5>1, <4>2, <2>3, EmptySeq, SMTT(20)
        <5> QED
          BY <5>2, <1>6 DEF Inv, OnlyLive
      <4> QED
        BY <4>1, <4>2, <2>2
    <3>3. \A t \in Signal : \A x \in sources'[t] : kind'[x] # "unborn"
      BY <1>5, <1>6, <1>7 DEF Inv, OnlyLive
    <3>4. \A i \in 1 .. Len(calls') :
            kind'[calls'[i][1]] # "unborn" /\ kind'[calls'[i][2]] = "any"
      BY <1>3, <1>5, <1>6 DEF Inv, OnlyLive
    <3>5. \A t \in Signal : kind'[t] \in {"unborn", "timeout"} => aborted'[t] = FALSE
      BY <2>1, <1>6 DEF Inv, OnlyLive
    <3>6. \A t \in Signal : aborted'[t] = FALSE => sent'[t] = "none"
      BY <2>1, <1>3 DEF Inv, OnlyLive
    <3>7. \A t \in Signal : kind'[t] = "unborn" => sources'[t] = {}
      BY <1>6 DEF Inv, OnlyLive
    <3> QED
      BY <3>1, <3>2, <3>3, <3>4, <3>5, <3>6, <3>7, SMTT(20) DEF OnlyLive
  <2>6. OnItsWay'
    <3> SUFFICES ASSUME NEW t \in Signal, NEW x \in sources'[t], aborted[t] = FALSE
                 PROVE  /\ aborted[x] = TRUE =>
                             \E i \in 1 .. Len(calls) : calls[i][2] = t
                        /\ aborted[x] = FALSE =>
                             \E i \in 1 .. Len(followers'[x]) : followers'[x][i] = t
      BY <2>1, <1>3, ZenonT(30) DEF OnItsWay
    <3>1. CASE t = s
      <4>1. x \in ToSet(signals) /\ x \in Signal /\ aborted[x] = FALSE
        BY <3>1, <2>1, <1>2, <1>6, <1>7, SMTT(20)
      <4>2. Times(x, signals) > 0
        BY <4>1, <2>2
      <4>3. Len(followers[x]) + 1 \in 1 .. Len(followers'[x])
        BY <4>1, <4>2, <2>2, <2>3, SMTT(20)
      <4>4. followers'[x][Len(followers[x]) + 1] = s
        BY <4>1, <4>3, <2>3
      <4> QED
        BY <4>1, <4>3, <4>4, <3>1
    <3>2. CASE t # s
      <4>1. x \in sources[t] /\ x \in Signal
        BY <3>2, <1>5, <1>6, SMTT(20)
      <4>2. ASSUME aborted[x] = TRUE
            PROVE  \E i \in 1 .. Len(calls) : calls[i][2] = t
        BY <4>1, <4>2 DEF Inv, OnItsWay
      <4>3. ASSUME aborted[x] = FALSE
            PROVE  \E i \in 1 .. Len(followers'[x]) : followers'[x][i] = t
        <5>1. PICK i \in 1 .. Len(followers[x]) : followers[x][i] = t
          BY <4>1, <4>3 DEF Inv, OnItsWay
        <5> QED
          BY <5>1, <4>1, <2>3, Zenon
      <4> QED
        BY <4>2, <4>3, Zenon
    <3> QED
      BY <3>1, <3>2, Zenon
  <2>7. PlainOnce'
    <3> SUFFICES ASSUME NEW t \in Signal, plain'[t] = TRUE PROVE Once(t)'
      BY Zenon DEF PlainOnce
    <3>1. CASE t = s
      <4>1. n = 1
        BY <3>1, <1>6, SMTT(20)
      <4>2. ASSUME NEW x \in Signal, NEW i \in 1 .. Len(followers'[x]), followers'[x][i] = s
            PROVE  x = signals[1] /\ i = Len(followers[x]) + 1
        <5>1. i > Len(followers[x])
          BY <4>2, <2>3, <1>5, SMTT(20)
        <5>2. Times(x, signals) = 1 /\ signals[1] = x
          BY <5>1, <4>1, <2>2, <2>3, SMTT(20)
        <5> QED
          BY <5>1, <5>2, <2>3, SMTT(20)
      <4>3. \A i \in 1 .. Len(calls') : calls'[i][2] # s
        BY <1>3, <1>5
      <4>4. aborted'[s] = FALSE
        BY <2>1, <1>5
      <4> QED
        BY <3>1, <4>2, <4>3, <4>4, SMTT(20) DEF Once
    <3>2. CASE t # s
      <4>1. Once(t)
        BY <3>2, <1>6 DEF Inv, PlainOnce
      <4>2. ASSUME NEW x \in Signal, NEW i \in 1 .. Len(followers'[x]), followers'[x][i] = t
            PROVE  i \in 1 .. Len(followers[x]) /\ followers[x][i] = t
        BY <4>2, <3>2, <2>3, Zenon
      <4>3. \A x, y \in Signal : \A i \in 1 .. Len(followers'[x]) :
              \A j \in 1 .. Len(followers'[y]) :
                followers'[x][i] = t /\ followers'[y][j] = t => x = y /\ i = j
        <5> SUFFICES ASSUME NEW x \in Signal, NEW y \in Signal,
                            NEW i \in 1 .. Len(followers'[x]),
                            NEW j \in 1 .. Len(followers'[y]),
                            followers'[x][i] = t, followers'[y][j] = t
                     PROVE  x = y /\ i = j
          OBVIOUS
        <5> QED
          BY <4>1, <4>2 DEF Once
      <4>4. ASSUME NEW x \in Signal, NEW i \in 1 .. Len(followers'[x]), followers'[x][i] = t
            PROVE  /\ \A j \in 1 .. Len(calls) : calls[j][2] # t
                   /\ aborted[t] # TRUE
        BY <4>1, <4>2, <4>4, Zenon DEF Once
      <4>5. /\ \A i, j \in 1 .. Len(calls) : calls[i][2] = t /\ calls[j][2] = t => i = j
            /\ aborted[t] = TRUE => \A i \in 1 .. Len(calls) : calls[i][2] # t
        BY <4>1 DEF Once
      <4>6. calls' = calls /\ aborted'[t] = aborted[t]
        BY <3>2, <2>1, <1>3
      <4>8. \A i, j \in 1 .. Len(calls') :
              calls'[i][2] = t /\ calls'[j][2] = t => i = j
        BY <4>5, <4>6
      <4>9. \A x \in Signal : \A i \in 1 .. Len(followers'[x]) :
              \A j \in 1 .. Len(calls') : ~(followers'[x][i] = t /\ calls'[j][2] = t)
        BY <4>4, <4>6, Zenon
      <4>10. aborted'[t] = TRUE =>
               /\ \A x \in Signal : \A i \in 1 .. Len(followers'[x]) : followers'[x][i] # t
               /\ \A i \in 1 .. Len(calls') : calls'[i][2] # t
        BY <4>4, <4>5, <4>6, Zenon
      <4> QED
        BY <4>3, <4>8, <4>9, <4>10, Zenon DEF Once
    <3> QED
      BY <3>1, <3>2, SMTT(20)
  <2>8. ObserversSee'
    BY <2>1, <1>3, <1>5, <1>6 DEF Inv, Types, ObserversSee
  <2> QED
    BY <2>4, <2>5, <2>6, <2>7, <2>8 DEF Inv
<1> QED
  BY <1>8, <1>9

----------------------------------------------------------------------------
(* Every step keeps the invariant.                                         *)
LEMMA InitInv == SignalInit => Inv
<1> SUFFICES ASSUME SignalInit PROVE Inv
  OBVIOUS
<1>1. Len(<<>>) = 0 /\ 1 .. 0 = {}
  OBVIOUS
<1>2. Types
  BY DEF SignalInit, Types, Kinds, Reason
<1>3. \A s \in Signal : followers[s] = <<>> /\ Len(followers[s]) = 0
  BY <1>1 DEF SignalInit
<1>4. calls = <<>> /\ Len(calls) = 0
  BY <1>1 DEF SignalInit
<1>5. \A s \in Signal : kind[s] = "unborn" /\ aborted[s] = FALSE /\ sources[s] = {}
                        /\ sent[s] = "none"
  BY DEF SignalInit
<1>6. OnlyLive
  BY <1>1, <1>3, <1>4, <1>5, SMTT(20) DEF OnlyLive
<1>7. OnItsWay
  BY <1>5 DEF OnItsWay
<1>8. PlainOnce
  BY <1>1, <1>3, <1>4, <1>5, SMTT(20) DEF PlainOnce, Once
<1>9. ObserversSee
  BY <1>5 DEF ObserversSee
<1> QED
  BY <1>2, <1>6, <1>7, <1>8, <1>9 DEF Inv

(* An abort outside a listener, of a signal that any() did not make.       *)
LEMMA AllowedNow ==
  ASSUME Inv, NEW s \in Signal, NEW how \in Kinds \ {"unborn", "timeout"},
         kind[s] # "any", kind' = [kind EXCEPT ![s] = how], UNCHANGED <<sources, plain>>
  PROVE  Allowed(s, calls, 0)
<1>1. calls \in Seq(Signal \X Signal) /\ Len(calls) \in Nat
  BY Elements DEF Inv
<1>2. kind \in [Signal -> Kinds]
  BY DEF Inv, Types
<1>3. kind' \in [Signal -> Kinds] /\ kind'[s] = how
  BY <1>2
<1>4. \A x \in Signal : x # s => kind'[x] = kind[x]
  BY <1>2
<1>5. how # "unborn" /\ how # "timeout"
  OBVIOUS
<1>6. \A x \in Signal : /\ kind[x] = "any" => kind'[x] = "any"
                        /\ kind'[x] = "unborn" => kind[x] = "unborn"
                        /\ kind'[x] = "timeout" => kind[x] = "timeout"
  BY <1>3, <1>4, <1>5
<1>7. kind'[s] \notin {"unborn", "timeout"}
  BY <1>3, <1>5
<1>8. Len(calls) = Len(calls) + 0
  BY <1>1
<1>9. ASSUME NEW i \in 1 .. Len(calls) PROVE calls[i] = calls[i + 0]
  <2>1. i + 0 = i
    BY <1>1
  <2> QED
    BY <2>1
<1>10. /\ \A x \in Signal : \A i \in 1 .. Len(followers[x]) : followers[x][i] # s
       /\ \A i \in 1 .. Len(calls) : calls[i][2] # s
  BY DEF Inv, OnlyLive
<1> QED
  BY <1>1, <1>3, <1>6, <1>7, <1>8, <1>9, <1>10, SMTT(20) DEF Allowed

LEMMA StepInv ==
  ASSUME MaxSources \in Nat, Inv, [SignalNext]_abort_signal
  PROVE  Inv'
<1> USE DEF Kinds
<1>1. ASSUME NEW s \in Signal, NEW how \in {"controller", "timeout"}, new(s, how)
      PROVE  Inv'
  <2>1. /\ kind[s] = "unborn" /\ kind' = [kind EXCEPT ![s] = how]
        /\ UNCHANGED <<aborted, reason, sent, followers, sources, calls, plain>>
    BY <1>1 DEF new, Born
  <2>2. Types'
    BY <2>1, Zenon DEF Inv, Types
  <2>3. \A t \in Signal : kind'[t] = IF t = s THEN how ELSE kind[t]
    BY <2>1, Zenon DEF Inv, Types
  <2>4. /\ \A x \in Signal : \A i \in 1 .. Len(followers[x]) : followers[x][i] \in Signal
        /\ \A i \in 1 .. Len(calls) : calls[i][1] \in Signal /\ calls[i][2] \in Signal
        /\ \A t \in Signal : sources[t] \subseteq Signal
    BY Elements, Zenon DEF Inv, Types
  <2>5. OnlyLive'
    <3>1. \A t \in Signal : \A x \in sources'[t] : kind'[x] # "unborn"
      BY <2>1, <2>3, <2>4, SMTT(20) DEF Inv, OnlyLive
    <3>2. \A x \in Signal : \A i \in 1 .. Len(followers'[x]) :
            kind'[followers'[x][i]] = "any"
      BY <2>1, <2>3, <2>4, SMTT(20) DEF Inv, OnlyLive
    <3>3. \A i \in 1 .. Len(calls') :
            kind'[calls'[i][1]] # "unborn" /\ kind'[calls'[i][2]] = "any"
      BY <2>1, <2>3, <2>4, SMTT(20) DEF Inv, OnlyLive
    <3>4. \A t \in Signal : followers'[t] # <<>> => kind'[t] # "unborn"
      BY <2>1, <2>3, SMTT(20) DEF Inv, OnlyLive
    <3>5. \A t \in Signal : kind'[t] \in {"unborn", "timeout"} => aborted'[t] = FALSE
      BY <2>1, <2>3 DEF Inv, OnlyLive
    <3>6. \A t \in Signal : aborted'[t] = FALSE => sent'[t] = "none"
      BY <2>1 DEF Inv, OnlyLive
    <3>7. \A t \in Signal : kind'[t] = "unborn" => sources'[t] = {}
      BY <2>1, <2>3 DEF Inv, OnlyLive
    <3> QED
      BY <3>1, <3>2, <3>3, <3>4, <3>5, <3>6, <3>7, SMTT(20) DEF OnlyLive
  <2>6. OnItsWay'
    BY <2>1 DEF Inv, OnItsWay
  <2>7. PlainOnce'
    <3>1. ASSUME NEW t \in Signal, Once(t) PROVE Once(t)'
      BY <2>1, <3>1 DEF Once
    <3> QED
      BY <3>1, <2>1 DEF Inv, PlainOnce
  <2>8. ObserversSee'
    BY <2>1 DEF Inv, ObserversSee
  <2> QED
    BY <2>2, <2>5, <2>6, <2>7, <2>8, SMTT(20) DEF Inv
<1>2. /\ calls \in Seq(Signal \X Signal) /\ Len(calls) \in Nat /\ Len(calls) + 0 = Len(calls)
      /\ \A i \in 1 .. Len(calls) : i + 0 = i
  <2>1. calls \in Seq(Signal \X Signal) /\ Len(calls) \in Nat
    BY Elements DEF Inv
  <2>2. Len(calls) + 0 = Len(calls)
    BY <2>1
  <2>3. \A i \in 1 .. Len(calls) : i + 0 = i
    BY <2>1
  <2> QED
    BY <2>1, <2>2, <2>3
<1>4. ASSUME NEW s \in Signal, NEW r \in Given, Abort(s, r)
      PROVE  Inv'
  <2>1. r \in Reason \cup {"undefined"}
    BY DEF Given, Reason
  <2>2. /\ kind[s] = "controller" /\ aborted[s] = FALSE
        /\ UNCHANGED <<kind, sources, plain>> /\ send_aborted(s, r, calls)
    BY <1>4, Zenon DEF Abort, Inv, Types
  <2>3. sent[s] = "none"
    BY <2>2 DEF Inv, OnlyLive
  <2>4. kind' = [kind EXCEPT ![s] = "controller"]
    BY <2>2, Zenon DEF Inv, Types
  <2>5. Allowed(s, calls, 0)
    BY <2>2, <2>4, AllowedNow, Zenon
  <2> QED
    BY <2>1, <2>2, <2>3, <2>5, SendAborted, Zenon
<1>5. ASSUME NEW s \in Signal, NEW r \in Given, AbortedSignal(s, r)
      PROVE  Inv'
  <2>1. r \in Reason \cup {"undefined"}
    BY DEF Given, Reason
  <2>2. /\ kind[s] = "unborn" /\ kind' = [kind EXCEPT ![s] = "aborted"]
        /\ UNCHANGED <<sources, plain>> /\ send_aborted(s, r, calls)
    BY <1>5 DEF AbortedSignal, Born
  <2>3. sent[s] = "none"
    BY <2>2 DEF Inv, OnlyLive
  <2>4. Allowed(s, calls, 0)
    BY <2>2, AllowedNow, Zenon
  <2> QED
    BY <2>1, <2>2, <2>3, <2>4, SendAborted, Zenon
<1>6. ASSUME NEW s \in Signal, TimeoutFires(s)
      PROVE  Inv'
  <2>1. "TimeoutError" \in Reason \cup {"undefined"}
    BY DEF Reason
  <2>2. /\ kind[s] = "timeout" /\ kind' = [kind EXCEPT ![s] = "timed out"]
        /\ UNCHANGED <<sources, plain>> /\ send_aborted(s, "TimeoutError", calls)
    BY <1>6, Zenon DEF TimeoutFires
  <2>3. sent[s] = "none"
    BY <2>2, Zenon DEF Inv, OnlyLive
  <2>4. Allowed(s, calls, 0)
    BY <2>2, AllowedNow, Zenon
  <2> QED
    BY <2>1, <2>2, <2>3, <2>4, SendAborted, Zenon
<1>7. ASSUME NEW s \in Signal, NEW n \in 1 .. MaxSources, NEW signals \in [1 .. n -> Live],
             AnySignal(s, signals)
      PROVE  Inv'
  <2>1. n \in Nat \ {0}
    OBVIOUS
  <2> QED
    BY <2>1, <1>7, AnyKeeps
<1>8. ASSUME Follow
      PROVE  Inv'
  <2> DEFINE source == Head(calls)[1]
             s == Head(calls)[2]
             r == reason[source]
             rest == Tail(calls)
  <2>1. /\ calls # <<>> /\ send_aborted(s, r, rest)
        /\ UNCHANGED <<kind, sources, plain>>
    BY <1>8 DEF Follow
  <2>2. /\ Len(calls) > 0 /\ Head(calls) = calls[1]
        /\ rest \in Seq(Signal \X Signal) /\ Len(rest) = Len(calls) - 1
        /\ \A i \in 1 .. Len(rest) : rest[i] = calls[i + 1]
    BY <2>1, <1>2
  <2>3. source \in Signal /\ s \in Signal /\ r \in Reason \cup {"undefined"} /\ calls[1][2] = s
        /\ 1 \in 1 .. Len(calls)
    <3>1. 1 \in 1 .. Len(calls)
      BY <2>2, <1>2
    <3>2. source = calls[1][1] /\ s = calls[1][2]
      BY <2>2
    <3>3. source \in Signal /\ s \in Signal
      BY <3>1, <3>2, Elements DEF Inv
    <3>4. r \in Reason \cup {"undefined"}
      BY <3>3, Zenon DEF Inv, Types
    <3> QED
      BY <3>1, <3>2, <3>3, <3>4
  <2> HIDE DEF source, s, r, rest
  <2>4. kind[s] = "any"
    BY <2>3 DEF Inv, OnlyLive
  <2>5. ASSUME plain[s] = TRUE
        PROVE  /\ \A x \in Signal : \A i \in 1 .. Len(followers[x]) : followers[x][i] # s
               /\ \A i \in 1 .. Len(rest) : rest[i][2] # s
               /\ sent[s] = "none"
    <3>1. Once(s)
      BY <2>3, <2>5 DEF Inv, PlainOnce
    <3>2. aborted[s] = FALSE
      BY <3>1, <2>3, Zenon DEF Once, Inv, Types
    <3>3. ASSUME NEW i \in 1 .. Len(rest) PROVE rest[i][2] # s
      <4>1. i + 1 \in 1 .. Len(calls) /\ i + 1 # 1
        BY <2>2, <1>2
      <4> QED
        BY <4>1, <3>1, <2>2, <2>3 DEF Once
    <3>4. sent[s] = "none"
      BY <3>2, <2>3 DEF Inv, OnlyLive
    <3> QED
      BY <3>1, <3>3, <3>4, <2>3, SMTT(20) DEF Once
  <2>6. Allowed(s, rest, 1)
    <3>1. kind' = kind /\ kind \in [Signal -> Kinds]
      BY <2>1, Zenon DEF Inv, Types
    <3>2. kind'[s] \notin {"unborn", "timeout"}
      BY <3>1, <2>4, Zenon
    <3>3. Len(calls) = Len(rest) + 1
      BY <2>2, <1>2
    <3>4. \A x \in Signal : /\ kind[x] = "any" => kind'[x] = "any"
                            /\ kind'[x] = "unborn" => kind[x] = "unborn"
                            /\ kind'[x] = "timeout" => kind[x] = "timeout"
      BY <3>1, Zenon
    <3> HIDE DEF Kinds
    <3> QED
      BY <3>1, <3>2, <3>3, <3>4, <2>1, <2>2, <2>3, <2>5, Zenon DEF Allowed
  <2> QED
    BY <2>1, <2>3, <2>5, <2>6, SendAborted, Zenon
<1>9. ASSUME NEW s \in Signal, NEW r \in Given, set_reason(s, r)
      PROVE  Inv'
  <2>1. /\ plain' = [plain EXCEPT ![s] = FALSE] /\ reason' = [reason EXCEPT ![s] = r]
        /\ UNCHANGED <<kind, aborted, sent, followers, sources, calls>>
    BY <1>9 DEF set_reason
  <2>2. Types'
    BY <2>1, Zenon DEF Inv, Types, Given, Reason
  <2>3. OnlyLive' /\ OnItsWay'
    BY <2>1 DEF Inv, OnlyLive, OnItsWay
  <2>4. \A t \in Signal : plain'[t] = TRUE =>
          t # s /\ plain[t] = TRUE /\ reason'[t] = reason[t]
    BY <2>1, Zenon DEF Inv, Types
  <2>5. PlainOnce'
    BY <2>1, <2>4 DEF Inv, PlainOnce, Once
  <2>6. ObserversSee'
    BY <2>1, <2>2, <2>4, Zenon DEF Inv, Types, ObserversSee
  <2> QED
    BY <2>2, <2>3, <2>5, <2>6 DEF Inv
<1>10. CASE UNCHANGED abort_signal
  <2>1. Types'
    BY <1>10, Zenon DEF abort_signal, Inv, Types
  <2>2. OnlyLive'
    BY <1>10 DEF abort_signal, Inv, OnlyLive
  <2>3. OnItsWay'
    BY <1>10 DEF abort_signal, Inv, OnItsWay
  <2>4. PlainOnce'
    BY <1>10, SMTT(20) DEF abort_signal, Inv, PlainOnce, Once
  <2>5. ObserversSee'
    BY <1>10 DEF abort_signal, Inv, ObserversSee
  <2> QED
    BY <2>1, <2>2, <2>3, <2>4, <2>5, SMTT(20) DEF Inv
<1> QED
  BY <1>1, <1>4, <1>5, <1>6, <1>7, <1>8, <1>9, <1>10, SMTT(20) DEF SignalNext

(* What TypeOK says of the sequences follows: they hold live signals.      *)
LEMMA InvImplies == Inv => FollowersAborted /\ ObserversSee
<1> SUFFICES ASSUME Inv PROVE FollowersAborted /\ ObserversSee
  OBVIOUS
<1>1. ASSUME NEW s \in Signal PROVE followers[s] \in Seq(Live)
  <2>1. followers[s] \in Seq(Signal)
    BY DEF Inv, Types
  <2>2. \A i \in 1 .. Len(followers[s]) : followers[s][i] \in Live
    BY <2>1 DEF Inv, OnlyLive, Live
  <2> QED
    BY <2>1, <2>2
<1>2. calls \in Seq(Live \X Live)
  <2>1. calls \in Seq(Signal \X Signal)
    BY DEF Inv, Types
  <2>2. \A i \in 1 .. Len(calls) : calls[i] \in Live \X Live
    BY <2>1 DEF Inv, OnlyLive, Live
  <2> QED
    BY <2>1, <2>2
<1>3. SignalTypeOK
  BY <1>1, <1>2, Zenon DEF Inv, Types, SignalTypeOK, Kinds
<1>4. ASSUME calls = <<>>, NEW s \in Signal, NEW x \in sources[s], aborted[x]
      PROVE  aborted[s]
  <2>1. Len(calls) = 0 /\ 1 .. 0 = {}
    BY <1>4
  <2>2. x \in Signal /\ aborted[x] = TRUE /\ aborted[s] \in BOOLEAN
    BY <1>4 DEF Inv, Types
  <2> QED
    BY <2>1, <2>2 DEF Inv, OnItsWay
<1> QED
  BY <1>3, <1>4 DEF FollowersAborted, Inv

(* Once the listeners of any() have run, a signal made from aborted ones   *)
(* is aborted, through any chain, in whatever order listeners and the      *)
(* program's own aborts come; and a plain signal that is aborted has sent  *)
(* the reason it shows to those who wait on its channel.                   *)
THEOREM AbortSignalSafe ==
  ASSUME MaxSources \in Nat
  PROVE  SignalSpec => []AbortReachesFollowers
<1>1. SignalInit => Inv
  BY InitInv
<1>2. Inv /\ [SignalNext]_abort_signal => Inv'
  BY StepInv
<1>3. Inv => AbortReachesFollowers
  BY InvImplies DEF AbortReachesFollowers
<1> QED
  BY <1>1, <1>2, <1>3, PTL DEF SignalSpec

(* A step that leaves the reason that counts alone.                        *)
Settled ==
  \A s \in Signal : /\ plain'[s] /\ aborted[s] => reason'[s] = reason[s]
                    /\ sent[s] # "none" => sent'[s] = sent[s]

(* An abort of a signal that is not aborted, or not plain, does so.        *)
LEMMA SendSettles ==
  ASSUME Inv, NEW s \in Signal, NEW r, NEW rest, send_aborted(s, r, rest),
         plain' = plain, plain[s] = TRUE => aborted[s] = FALSE
  PROVE  Settled
<1>1. /\ \A t \in Signal : t # s => reason'[t] = reason[t] /\ sent'[t] = sent[t]
      /\ sent[s] # "none" => sent'[s] = sent[s]
  BY DEF send_aborted, send, Inv, Types
<1>2. plain[s] \in BOOLEAN
  BY DEF Inv, Types
<1> QED
  BY <1>1, <1>2 DEF Settled

LEMMA StepSettles ==
  ASSUME Inv, [SignalNext]_abort_signal
  PROVE  Settled
<1>1. ASSUME NEW s \in Signal, NEW how, new(s, how)
      PROVE  Settled
  BY <1>1 DEF new, Settled
<1>2. ASSUME NEW s \in Signal, NEW r \in Given, Abort(s, r)
      PROVE  Settled
  BY <1>2, SendSettles, Zenon DEF Abort, Inv, Types
<1>3. ASSUME NEW s \in Signal, NEW r \in Given, AbortedSignal(s, r)
      PROVE  Settled
  <2>1. aborted[s] = FALSE
    BY <1>3 DEF AbortedSignal, Born, Inv, OnlyLive
  <2> QED
    BY <1>3, <2>1, SendSettles, Zenon DEF AbortedSignal
<1>4. ASSUME NEW s \in Signal, TimeoutFires(s)
      PROVE  Settled
  <2>1. aborted[s] = FALSE
    BY <1>4, Zenon DEF TimeoutFires, Inv, OnlyLive
  <2> QED
    BY <1>4, <2>1, SendSettles, Zenon DEF TimeoutFires
<1>5. ASSUME NEW s \in Signal, NEW signals, AnySignal(s, signals)
      PROVE  Settled
  <2>1. aborted[s] = FALSE
    BY <1>5 DEF AnySignal, Born, Inv, OnlyLive
  <2>2. sent' = sent /\ \A t \in Signal : t # s => reason'[t] = reason[t]
    BY <1>5 DEF AnySignal, Inv, Types
  <2> QED
    BY <2>1, <2>2 DEF Settled
<1>6. ASSUME Follow
      PROVE  Settled
  <2>1. /\ calls # <<>> /\ calls \in Seq(Signal \X Signal)
        /\ send_aborted(Head(calls)[2], reason[Head(calls)[1]], Tail(calls))
        /\ plain' = plain
    BY <1>6 DEF Follow, Inv, Types
  <2>2. 1 \in 1 .. Len(calls) /\ Head(calls) = calls[1] /\ calls[1][2] \in Signal
    BY <2>1
  <2>3. plain[calls[1][2]] = TRUE => aborted[calls[1][2]] = FALSE
    BY <2>2 DEF Inv, Types, PlainOnce, Once
  <2> QED
    BY <2>1, <2>2, <2>3, SendSettles, Zenon
<1>7. ASSUME NEW s \in Signal, NEW r \in Given, set_reason(s, r)
      PROVE  Settled
  BY <1>7 DEF set_reason, Settled, Inv, Types
<1>8. CASE UNCHANGED abort_signal
  BY <1>8 DEF abort_signal, Settled
<1> QED
  BY <1>1, <1>2, <1>3, <1>4, <1>5, <1>6, <1>7, <1>8, SMTT(20) DEF SignalNext

(* The reason of a plain signal is settled when it is aborted: no later    *)
(* abort, listener or any() changes it, and the channel on which a fetch   *)
(* waits keeps its first value.                                            *)
THEOREM ReasonSettles ==
  ASSUME MaxSources \in Nat
  PROVE  SignalSpec => ReasonStable
<1>1. SignalInit => Inv
  BY InitInv
<1>2. Inv /\ [SignalNext]_abort_signal => Inv'
  BY StepInv
<1>3. Inv /\ [SignalNext]_abort_signal =>
        [\A s \in Signal : /\ plain'[s] /\ aborted[s] => reason'[s] = reason[s]
                           /\ sent[s] # "none" => sent'[s] = sent[s]]_abort_signal
  BY StepSettles DEF Settled
<1> QED
  BY <1>1, <1>2, <1>3, PTL DEF SignalSpec, ReasonStable
=============================================================================
