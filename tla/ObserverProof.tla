---------------------------- MODULE ObserverProof ----------------------------
(***************************************************************************)
(* Lemmas about the observer of calls and returns, for the proofs that the *)
(* operations of a data structure are linearizable.                        *)
(***************************************************************************)
EXTENDS LinearizableSet, FiniteSetTheorems, WellFoundedInduction, TLAPS

\* A set with 0 that has a number's successor with the number.
LEMMA CountsUp ==
  ASSUME NEW n \in Nat, NEW S, 0 \in S, \A i \in 0 .. n - 1 : i \in S => i + 1 \in S
  PROVE  0 .. n \subseteq S
<1> DEFINE T == (0 .. n) \ S
<1> SUFFICES ASSUME T # {} PROVE FALSE
  OBVIOUS
<1>1. T \subseteq Nat
  OBVIOUS
<1>2. PICK x \in T : \A y \in T : ~(<<y, x>> \in OpToRel(<, Nat))
  BY <1>1, NatLessThanWellFounded, WFMin
<1>3. \A y \in T : ~(y < x)
  BY <1>1, <1>2 DEF OpToRel
<1>4. x \in 1 .. n /\ x - 1 \in 0 .. n - 1 /\ x - 1 + 1 = x
  OBVIOUS
<1>5. x - 1 \in S
  BY <1>3, <1>4
<1> QED BY <1>4, <1>5

-----------------------------------------------------------------------------
(***************************************************************************)
(* Configurations and their closure.                                       *)
(***************************************************************************)
\* The configuration in which the calls O are open, and the others have the results D.
Config(S, O, D) == [keys |-> S, open |-> O, done |-> D]

\* Adding the result of p, and dropping it.
Extend(D, p, r) == [q \in DOMAIN D \cup {p} |-> IF q = p THEN r ELSE D[q]]
Drop(D, p) == [q \in DOMAIN D \ {p} |-> D[q]]

Effect(c, call, p) == Config(After(call[p], c.keys), c.open \ {p}, Extend(c.done, p, ResultOf(call[p], c.keys)))

\* One call more has taken effect, or none.
Further(D, call) == D \cup UNION {TakesEffect(c, call) : c \in D}

IsClosure(g, C, call, n) ==
  g = [i \in 0 .. n |-> IF i = 0 THEN C ELSE Further(g[i - 1], call)]

\* TakesEffect in terms of Effect.
LEMMA Effects ==
  ASSUME NEW c, NEW call
  PROVE  TakesEffect(c, call) = {Effect(c, call, p) : p \in c.open}
BY DEF TakesEffect, Effect, Config, Extend

\* The sets that Closure goes through exist.
LEMMA ClosureExists ==
  ASSUME NEW C, NEW call, NEW n \in Nat
  PROVE  \E g : IsClosure(g, C, call, n)
<1> DEFINE S == {i \in 0 .. n : \E g : IsClosure(g, C, call, i)}
<1>1. 0 \in S
  <2> DEFINE g == [i \in 0 .. 0 |-> C]
  <2>1. IsClosure(g, C, call, 0)
    BY DEF IsClosure
  <2> QED BY <2>1
<1>2. ASSUME NEW i \in 0 .. n - 1, i \in S PROVE i + 1 \in S
  <2>1. PICK g : IsClosure(g, C, call, i)
    BY <1>2
  <2> DEFINE h == [j \in 0 .. i + 1 |-> IF j = i + 1 THEN Further(g[i], call) ELSE g[j]]
  <2>2. ASSUME NEW j \in 0 .. i + 1 PROVE h[j] = IF j = 0 THEN C ELSE Further(h[j - 1], call)
    <3>1. CASE j = i + 1
      <4>1. h[j] = Further(g[i], call) /\ j # 0 /\ j - 1 = i /\ i \in 0 .. i + 1 /\ i # i + 1
        BY <3>1
      <4>2. h[j - 1] = g[i]
        BY <4>1
      <4> QED BY <4>1, <4>2
    <3>2. CASE j # i + 1
      <4>1. j \in 0 .. i /\ h[j] = g[j] /\ (j # 0 => j - 1 \in 0 .. i /\ j - 1 \in 0 .. i + 1 /\ j - 1 # i + 1)
        BY <3>2
      <4>2. j # 0 => h[j - 1] = g[j - 1]
        BY <4>1
      <4>3. g[j] = IF j = 0 THEN C ELSE Further(g[j - 1], call)
        BY <2>1, <4>1 DEF IsClosure
      <4> QED BY <4>1, <4>2, <4>3
    <3> QED BY <3>1, <3>2
  <2>3. h = [j \in 0 .. i + 1 |-> h[j]]
    OBVIOUS
  <2> HIDE DEF h
  <2>4. IsClosure(h, C, call, i + 1)
    BY <2>2, <2>3 DEF IsClosure
  <2>5. i + 1 \in 0 .. n
    OBVIOUS
  <2> QED BY <2>4, <2>5
<1> HIDE DEF S
<1>3. n \in S
  BY <1>1, <1>2, CountsUp
<1> QED BY <1>3 DEF S

\* Closure is the last of them.
LEMMA ClosureSteps ==
  ASSUME NEW C, NEW call, Cardinality(Clients) \in Nat
  PROVE  \E g : /\ g[0] = C /\ Closure(C, call) = g[Cardinality(Clients)]
                /\ \A i \in 0 .. Cardinality(Clients) - 1 : g[i + 1] = Further(g[i], call)
<1> DEFINE n == Cardinality(Clients)
           Body(g) == [i \in 0 .. n |-> IF i = 0 THEN C
                                        ELSE LET D == g[i - 1] IN D \cup UNION {TakesEffect(c, call) : c \in D}]
           reach == CHOOSE g : g = Body(g)
<1>1. Closure(C, call) = reach[n]
  BY DEF Closure
<1> HIDE DEF n
<1>2. n \in Nat
  BY DEF n
<1>3. PICK g : IsClosure(g, C, call, n)
  BY <1>2, ClosureExists
<1>4. g = Body(g)
  BY <1>3 DEF IsClosure, Further
<1>5. reach = Body(reach)
  BY <1>4
<1> HIDE DEF reach
<1>6. reach[0] = C
  BY <1>2, <1>5
<1>7. ASSUME NEW i \in 0 .. n - 1 PROVE reach[i + 1] = Further(reach[i], call)
  <2>1. i + 1 \in 0 .. n /\ i + 1 # 0 /\ (i + 1) - 1 = i
    BY <1>2
  <2>2. reach[i + 1] = reach[(i + 1) - 1] \cup UNION {TakesEffect(c, call) : c \in reach[(i + 1) - 1]}
    BY <1>5, <2>1
  <2> QED BY <2>1, <2>2 DEF Further
<1> QED BY <1>1, <1>6, <1>7 DEF n

\* There are finitely many processes.
LEMMA ClientsFinite == IsFiniteSet(Clients) /\ Cardinality(Clients) \in Nat
BY ObserverAssumption, FS_CardinalityType

\* Closure is the least set with C that is closed under the effects of calls.
LEMMA ClosureLeast ==
  ASSUME NEW C, NEW call, NEW D, C \subseteq D, \A c \in D : TakesEffect(c, call) \subseteq D
  PROVE  Closure(C, call) \subseteq D
<1> DEFINE n == Cardinality(Clients)
<1>1. n \in Nat
  BY ClientsFinite
<1>2. PICK g : /\ g[0] = C /\ Closure(C, call) = g[n]
               /\ \A i \in 0 .. n - 1 : g[i + 1] = Further(g[i], call)
  BY <1>1, ClosureSteps
<1> HIDE DEF n
<1> DEFINE S == {i \in 0 .. n : g[i] \subseteq D}
<1>3. 0 \in S
  BY <1>1, <1>2
<1>4. ASSUME NEW i \in 0 .. n - 1, i \in S PROVE i + 1 \in S
  BY <1>1, <1>2, <1>4 DEF Further
<1> HIDE DEF S
<1>5. n \in S
  BY <1>1, <1>3, <1>4, CountsUp
<1> QED BY <1>2, <1>5 DEF S

\* The closure holds the configurations it starts from.
LEMMA ClosureHolds ==
  ASSUME NEW C, NEW call
  PROVE  C \subseteq Closure(C, call)
<1> DEFINE n == Cardinality(Clients)
<1>1. n \in Nat
  BY ClientsFinite
<1>2. PICK g : /\ g[0] = C /\ Closure(C, call) = g[n]
               /\ \A i \in 0 .. n - 1 : g[i + 1] = Further(g[i], call)
  BY <1>1, ClosureSteps
<1> HIDE DEF n
<1> DEFINE S == {i \in 0 .. n : C \subseteq g[i]}
<1>3. 0 \in S
  BY <1>1, <1>2
<1>4. ASSUME NEW i \in 0 .. n - 1, i \in S PROVE i + 1 \in S
  BY <1>1, <1>2, <1>4 DEF Further
<1> HIDE DEF S
<1>5. n \in S
  BY <1>1, <1>3, <1>4, CountsUp
<1> QED BY <1>2, <1>5 DEF S

\* A configuration of calls of A.
Formed(c, A) ==
  /\ c = Config(c.keys, c.open, c.done) /\ c.open \subseteq A
  /\ c.done = [q \in DOMAIN c.done |-> c.done[q]] /\ DOMAIN c.done \subseteq A
  /\ c.open \cap DOMAIN c.done = {}

\* A call that takes effect leaves a well-formed configuration,
LEMMA EffectFormed ==
  ASSUME NEW c, NEW call, NEW A, Formed(c, A)
  PROVE  \A d \in TakesEffect(c, call) : Formed(d, A)
<1> SUFFICES ASSUME NEW p \in c.open PROVE Formed(Effect(c, call, p), A)
  BY Effects
<1> DEFINE D == Extend(c.done, p, ResultOf(call[p], c.keys))
           K == After(call[p], c.keys)
           O == c.open \ {p}
<1>1. DOMAIN D = DOMAIN c.done \cup {p} /\ D = [q \in DOMAIN D |-> D[q]]
  BY DEF Extend
<1>2. O \subseteq A /\ O \cap DOMAIN D = {} /\ DOMAIN D \subseteq A
  BY <1>1 DEF Formed
<1>3. Effect(c, call, p) = Config(K, O, D)
  BY DEF Effect
<1> HIDE DEF K, O, D
<1> DEFINE d == Config(K, O, D)
<1>4. d.keys = K /\ d.open = O /\ d.done = D
  BY DEF Config
<1> QED BY <1>1, <1>2, <1>3, <1>4 DEF Formed

\* and any number of them does.
LEMMA ClosureFormed ==
  ASSUME NEW C, NEW call, NEW A, \A c \in C : Formed(c, A)
  PROVE  \A c \in Closure(C, call) : Formed(c, A)
<1> DEFINE n == Cardinality(Clients)
<1>1. n \in Nat
  BY ClientsFinite
<1>2. PICK g : /\ g[0] = C /\ Closure(C, call) = g[n]
               /\ \A i \in 0 .. n - 1 : g[i + 1] = Further(g[i], call)
  BY <1>1, ClosureSteps
<1> HIDE DEF n
<1> DEFINE S == {i \in 0 .. n : \A c \in g[i] : Formed(c, A)}
<1>3. 0 \in S
  BY <1>1, <1>2
<1>4. ASSUME NEW i \in 0 .. n - 1, i \in S PROVE i + 1 \in S
  <2>1. \A c \in g[i] : \A d \in TakesEffect(c, call) : Formed(d, A)
    BY <1>4, EffectFormed
  <2>2. g[i + 1] = g[i] \cup UNION {TakesEffect(c, call) : c \in g[i]}
    BY <1>2 DEF Further
  <2>3. \A c \in g[i + 1] : Formed(c, A)
    BY <1>4, <2>1, <2>2
  <2> QED BY <1>1, <2>3
<1> HIDE DEF S
<1>5. n \in S
  BY <1>1, <1>3, <1>4, CountsUp
<1> QED BY <1>2, <1>5 DEF S

\* No more calls are open than there are processes, so that Closure is closed.
LEMMA ClosureClosed ==
  ASSUME NEW C, NEW call, NEW A \in SUBSET Clients, \A c \in C : Formed(c, A)
  PROVE  \A c \in Closure(C, call) : \A p \in c.open : Effect(c, call, p) \in Closure(C, call)
<1> DEFINE n == Cardinality(Clients)
<1>1. n \in Nat /\ IsFiniteSet(Clients)
  BY ClientsFinite
<1>2. PICK g : /\ g[0] = C /\ Closure(C, call) = g[n]
               /\ \A i \in 0 .. n - 1 : g[i + 1] = Further(g[i], call)
  BY <1>1, ClosureSteps
<1>3. \A O \in SUBSET A : IsFiniteSet(O) /\ Cardinality(O) \in Nat /\ Cardinality(O) <= n
  BY <1>1, FS_Subset, FS_CardinalityType
<1> HIDE DEF n
<1>4. ASSUME NEW i \in 0 .. n - 1 PROVE g[i] \subseteq g[i + 1]
  BY <1>2 DEF Further
<1> DEFINE Early(c, i) == /\ Formed(c, A)
                          /\ \E j \in 0 .. n : j <= i /\ j + Cardinality(c.open) <= n /\ c \in g[j]
           S == {i \in 0 .. n : \A c \in g[i] : Early(c, i)}
<1>5. 0 \in S
  <2> SUFFICES ASSUME NEW c \in g[0] PROVE Early(c, 0)
    BY <1>1
  <2>1. Formed(c, A) /\ Cardinality(c.open) <= n /\ Cardinality(c.open) \in Nat
    BY <1>2, <1>3 DEF Formed
  <2>2. 0 \in 0 .. n /\ 0 + Cardinality(c.open) <= n
    BY <1>1, <2>1
  <2> QED BY <2>1, <2>2
<1>6. ASSUME NEW i \in 0 .. n - 1, i \in S PROVE i + 1 \in S
  <2>1. i + 1 \in 0 .. n
    BY <1>1
  <2> SUFFICES ASSUME NEW d \in g[i + 1] PROVE Early(d, i + 1)
    BY <2>1
  <2>2. CASE d \in g[i]
    <3>1. Early(d, i)
      BY <1>6, <2>2
    <3>2. \A j \in 0 .. n : j <= i => j <= i + 1
      BY <1>1
    <3> QED BY <3>1, <3>2
  <2>3. CASE d \notin g[i]
    <3>1. PICK c \in g[i] : d \in TakesEffect(c, call)
      BY <1>2, <2>3 DEF Further
    <3>2. Early(c, i)
      BY <1>6
    <3>3. PICK j \in 0 .. n : j <= i /\ j + Cardinality(c.open) <= n /\ c \in g[j]
      BY <3>2
    <3>4. PICK p \in c.open : d = Effect(c, call, p)
      BY <3>1, Effects
    <3>5. Formed(d, A)
      BY <3>1, <3>2, EffectFormed
    <3>6. d.open = c.open \ {p}
      BY <3>4 DEF Effect, Config
    <3>7. /\ IsFiniteSet(c.open) /\ Cardinality(c.open) \in Nat
          /\ IsFiniteSet(d.open) /\ Cardinality(d.open) \in Nat
      BY <1>3, <3>2, <3>5 DEF Formed
    <3>8. Cardinality(d.open) = Cardinality(c.open) - 1
      BY <3>4, <3>6, <3>7, FS_RemoveElement
    <3>9. j + 1 \in 0 .. n /\ j \in 0 .. n - 1 /\ j + 1 <= i + 1 /\ (j + 1) + Cardinality(d.open) <= n
      BY <1>1, <3>3, <3>7, <3>8
    <3>10. d \in g[j + 1]
      BY <1>2, <3>1, <3>3, <3>9 DEF Further
    <3> QED BY <3>5, <3>9, <3>10
  <2> QED BY <2>2, <2>3
<1>7. n \in S
  <2> HIDE DEF S
  <2> QED BY <1>1, <1>5, <1>6, CountsUp
<1>8. ASSUME NEW c \in g[n], NEW p \in c.open PROVE Effect(c, call, p) \in g[n]
  <2>1. PICK j \in 0 .. n : j + Cardinality(c.open) <= n /\ c \in g[j]
    BY <1>7, <1>8
  <2>2. Formed(c, A)
    BY <1>7, <1>8
  <2>3. Cardinality(c.open) >= 1
    <3>1. IsFiniteSet(c.open) /\ Cardinality(c.open) \in Nat
      BY <1>3, <2>2 DEF Formed
    <3>2. Cardinality(c.open) # 0
      BY <1>8, <3>1, FS_EmptySet
    <3> QED BY <3>1, <3>2
  <2>4. j \in 0 .. n - 1 /\ j + 1 \in 0 .. n
    <3>1. Cardinality(c.open) \in Nat
      BY <1>3, <2>2 DEF Formed
    <3> QED BY <1>1, <2>1, <2>3, <3>1
  <2>5. Effect(c, call, p) \in g[j + 1]
    BY <1>2, <1>8, <2>1, <2>4, Effects DEF Further
  <2> DEFINE T == {d \in 0 .. n - (j + 1) : g[j + 1] \subseteq g[j + 1 + d]}
  <2>6. 0 \in T /\ n - (j + 1) \in Nat /\ j + 1 + (n - (j + 1)) = n
    BY <1>1, <2>4
  <2>7. ASSUME NEW d \in 0 .. (n - (j + 1)) - 1, d \in T PROVE d + 1 \in T
    <3>1. j + 1 + d \in 0 .. n - 1 /\ j + 1 + (d + 1) = (j + 1 + d) + 1 /\ d + 1 \in 0 .. n - (j + 1)
      BY <1>1, <2>4
    <3>2. g[j + 1 + d] \subseteq g[(j + 1 + d) + 1]
      BY <1>4, <3>1
    <3> QED BY <2>7, <3>1, <3>2
  <2>8. n - (j + 1) \in T
    <3> HIDE DEF T
    <3> QED BY <2>6, <2>7, CountsUp
  <2> QED BY <2>5, <2>6, <2>8
<1> QED BY <1>2, <1>8

\* A set of no keys, or of one, in order.
LEMMA AscendingNone == Ascending({}) = <<>>
<1>1. Cardinality({}) = 0
  BY FS_EmptySet
<1> QED BY <1>1 DEF Ascending

\* One key is listed as it is.
LEMMA AscendingOne ==
  ASSUME NEW k \in Int
  PROVE  Ascending({k}) = <<k>>
<1>1. Cardinality({k}) = 1
  BY FS_Singleton
<1>2. Cardinality({}) = 0
  BY FS_EmptySet
<1>3. {j \in {k} : j < k} = {}
  OBVIOUS
<1> DEFINE f == [i \in 1 .. 1 |-> CHOOSE m \in {k} : Cardinality({j \in {k} : j < m}) = i - 1]
<1>4. Ascending({k}) = f
  BY <1>1 DEF Ascending
<1>5. \A m \in {k} : Cardinality({j \in {k} : j < m}) = 0
  BY <1>2, <1>3
<1>6. (CHOOSE m \in {k} : Cardinality({j \in {k} : j < m}) = 1 - 1) = k
  BY <1>5
<1>7. f = [i \in 1 .. 1 |-> k]
  BY <1>6
<1>8. [i \in 1 .. 1 |-> k] = <<k>>
  OBVIOUS
<1> HIDE DEF f
<1> QED BY <1>4, <1>7, <1>8

\* The fields of a configuration.
LEMMA ConfigFields ==
  ASSUME NEW S, NEW O, NEW D
  PROVE  Config(S, O, D).keys = S /\ Config(S, O, D).open = O /\ Config(S, O, D).done = D
BY DEF Config

\* No configuration comes from none.
LEMMA ClosureOfNone ==
  ASSUME NEW call
  PROVE  Closure({}, call) = {}
<1>1. {} \subseteq {} /\ \A c \in {} : TakesEffect(c, call) \subseteq {}
  OBVIOUS
<1> QED BY <1>1, ClosureLeast

\* One more call is open.
Opened(c, p) == Config(c.keys, c.open \cup {p}, c.done)

\* A call that comes leaves well-formed configurations.
LEMMA InvokeFormed ==
  ASSUME NEW C, NEW p, NEW A, \A c \in C : Formed(c, A), p \notin A
  PROVE  /\ Invoke(C, p) = {Opened(c, p) : c \in C}
         /\ \A c \in Invoke(C, p) : Formed(c, A \cup {p})
<1>1. ASSUME NEW c \in C PROVE [c EXCEPT !.open = c.open \cup {p}] = Opened(c, p)
  <2>1. c = Config(c.keys, c.open, c.done)
    BY DEF Formed
  <2> DEFINE K == c.keys  O == c.open  D == c.done
  <2>2. [Config(K, O, D) EXCEPT !.open = O \cup {p}] = Config(K, O \cup {p}, D)
    BY DEF Config
  <2> QED BY <2>1, <2>2 DEF Opened
<1>2. Invoke(C, p) = {Opened(c, p) : c \in C}
  BY <1>1 DEF Invoke
<1>3. ASSUME NEW c \in C PROVE Formed(Opened(c, p), A \cup {p})
  <2>1. Formed(c, A)
    OBVIOUS
  <2>2. Opened(c, p).keys = c.keys /\ Opened(c, p).open = c.open \cup {p} /\ Opened(c, p).done = c.done
    BY ConfigFields DEF Opened
  <2>3. Opened(c, p) = Config(Opened(c, p).keys, Opened(c, p).open, Opened(c, p).done)
    BY <2>2 DEF Opened
  <2>4. (c.open \cup {p}) \cap DOMAIN c.done = {}
    BY <2>1 DEF Formed
  <2> QED BY <2>1, <2>2, <2>3, <2>4 DEF Formed
<1> QED BY <1>2, <1>3

\* What the calls can have led to is so still when one more is open.
LEMMA InvokeKeeps ==
  ASSUME NEW C, NEW call, NEW call2, NEW A \in SUBSET Clients, NEW p \in Clients \ A,
         \A c \in C : Formed(c, A), \A q \in A : call2[q] = call[q],
         NEW S, NEW O, NEW D, Config(S, O, D) \in Closure(C, call)
  PROVE  Config(S, O \cup {p}, D) \in Closure(Invoke(C, p), call2)
<1> DEFINE T == {c \in Closure(C, call) : Opened(c, p) \in Closure(Invoke(C, p), call2)}
<1>1. C \subseteq T
  BY InvokeFormed, ClosureHolds
<1>2. A \cup {p} \in SUBSET Clients /\ \A c \in Invoke(C, p) : Formed(c, A \cup {p})
  BY InvokeFormed
<1>3. \A c \in Closure(Invoke(C, p), call2) : \A q \in c.open : Effect(c, call2, q) \in Closure(Invoke(C, p), call2)
  BY <1>2, ClosureClosed
<1>4. \A c \in Closure(C, call) : \A q \in c.open : Effect(c, call, q) \in Closure(C, call)
  BY ClosureClosed
<1>5. ASSUME NEW c \in T PROVE TakesEffect(c, call) \subseteq T
  <2> SUFFICES ASSUME NEW q \in c.open PROVE Effect(c, call, q) \in T
    BY Effects
  <2>1. Formed(c, A) /\ Effect(c, call, q) \in Closure(C, call)
    BY <1>4, ClosureFormed
  <2>2. q \in A /\ q # p /\ call2[q] = call[q]
    BY <2>1 DEF Formed
  <2>3. q \in Opened(c, p).open /\ Effect(Opened(c, p), call2, q) \in Closure(Invoke(C, p), call2)
    <3>1. q \in Opened(c, p).open
      BY ConfigFields DEF Opened
    <3> QED BY <1>3, <3>1
  <2>4. (c.open \ {q}) \cup {p} = (c.open \cup {p}) \ {q}
    BY <2>2
  <2>5. Opened(Effect(c, call, q), p) = Effect(Opened(c, p), call2, q)
    <3> DEFINE o == Opened(c, p)
               K == After(call[q], c.keys)
               E == Extend(c.done, q, ResultOf(call[q], c.keys))
    <3>1. o.keys = c.keys /\ o.open = c.open \cup {p} /\ o.done = c.done
      BY ConfigFields DEF Opened
    <3>2. Effect(o, call2, q) = Config(K, (c.open \cup {p}) \ {q}, E)
      <4> HIDE DEF o
      <4> QED BY <2>2, <3>1 DEF Effect
    <3>3. Effect(c, call, q) = Config(K, c.open \ {q}, E)
      BY DEF Effect
    <3> DEFINE O2 == c.open \ {q}
               e == Config(K, O2, E)
    <3> HIDE DEF K, E, O2
    <3>4. e.keys = K /\ e.open = O2 /\ e.done = E
      BY ConfigFields
    <3>5. Opened(e, p) = Config(K, O2 \cup {p}, E)
      <4> HIDE DEF e
      <4> QED BY <3>4 DEF Opened
    <3> QED BY <2>4, <3>2, <3>3, <3>5 DEF O2
  <2> QED BY <2>1, <2>3, <2>5
<1>6. Closure(C, call) \subseteq T
  <2> HIDE DEF T
  <2> QED BY <1>1, <1>5, ClosureLeast
<1> QED BY <1>6, ConfigFields DEF Opened

\* A call has returned.
LEMMA RespondKeeps ==
  ASSUME NEW C, NEW call, NEW S, NEW O, NEW D, Config(S, O, D) \in Closure(C, call),
         NEW p \in DOMAIN D
  PROVE  Config(S, O, Drop(D, p)) \in Respond(C, call, p, D[p])
<1>1. Forget(Config(S, O, D), p) = Config(S, O, Drop(D, p))
  BY DEF Forget, Config, Drop
<1>2. Config(S, O, D) \in {d \in Closure(C, call) : p \in DOMAIN d.done /\ d.done[p] = D[p]}
  BY ConfigFields
<1> QED BY <1>1, <1>2 DEF Respond

\* A call that returns leaves well-formed configurations.
LEMMA RespondFormed ==
  ASSUME NEW C, NEW call, NEW A, \A c \in C : Formed(c, A), NEW p, NEW r
  PROVE  \A c \in Respond(C, call, p, r) : Formed(c, A \ {p})
<1> SUFFICES ASSUME NEW c \in Closure(C, call), p \in DOMAIN c.done PROVE Formed(Forget(c, p), A \ {p})
  BY DEF Respond
<1>1. Formed(c, A)
  BY ClosureFormed
<1>2. Forget(c, p) = Config(c.keys, c.open, Drop(c.done, p))
  <2>1. c = Config(c.keys, c.open, c.done)
    BY <1>1 DEF Formed
  <2> DEFINE K == c.keys  O == c.open  D == c.done
  <2>2. Forget(Config(K, O, D), p) = Config(K, O, Drop(D, p))
    BY DEF Forget, Config, Drop
  <2> QED BY <2>1, <2>2
<1> DEFINE f == Forget(c, p)  E == Drop(c.done, p)
<1>3. f.keys = c.keys /\ f.open = c.open /\ f.done = E
  BY <1>2, ConfigFields
<1>4. DOMAIN E = DOMAIN c.done \ {p} /\ E = [q \in DOMAIN E |-> E[q]]
  BY DEF Drop
<1>5. p \notin c.open
  BY <1>1 DEF Formed
<1> HIDE DEF f, E
<1> QED BY <1>1, <1>2, <1>3, <1>4, <1>5 DEF Formed, f, E

-----------------------------------------------------------------------------
(***************************************************************************)
(* What the calls can have led to, whichever of them are taken to have     *)
(* taken effect.                                                           *)
(***************************************************************************)
\* Of the calls A the calls O are open, none of which is in T; the others have taken
\* effect, each with a result in its set of R.
Picks(A, T, R, O, D) ==
  /\ O \subseteq A \ T /\ D = [q \in A \ O |-> D[q]]
  /\ \A q \in A \ O : D[q] \in R[q]

\* The calls can have led to the set S, whatever is picked.
Accounts(C, call, S, A, T, R) ==
  \A O, D : Picks(A, T, R, O, D) => Config(S, O, D) \in Closure(C, call)

Sound(C, A) == A \in SUBSET Clients /\ \A c \in C : Formed(c, A)

\* p takes effect in one configuration.
LEMMA OneEffect ==
  ASSUME NEW C, NEW call, NEW A, Sound(C, A), NEW S, NEW O, NEW D, NEW p \in DOMAIN D \ O,
         D = [q \in DOMAIN D |-> D[q]], D[p] = ResultOf(call[p], S),
         Config(S, O \cup {p}, Drop(D, p)) \in Closure(C, call)
  PROVE  Config(After(call[p], S), O, D) \in Closure(C, call)
<1> DEFINE E == Drop(D, p)
           P == O \cup {p}
           c == Config(S, P, E)
<1>1. DOMAIN E = DOMAIN D \ {p} /\ \A q \in DOMAIN E : E[q] = D[q]
  BY DEF Drop
<1> HIDE DEF E, P
<1>2. c.keys = S /\ c.open = P /\ c.done = E
  BY ConfigFields
<1>3. Effect(c, call, p) \in Closure(C, call)
  <2>1. p \in c.open /\ c \in Closure(C, call)
    BY <1>2 DEF P, E
  <2> HIDE DEF c
  <2> QED BY <2>1, ClosureClosed DEF Sound
<1> HIDE DEF c
<1>4. Effect(c, call, p) = Config(After(call[p], S), P \ {p}, Extend(E, p, D[p]))
  BY <1>2 DEF Effect
<1>5. P \ {p} = O
  BY DEF P
<1>6. Extend(E, p, D[p]) = D
  <2>1. DOMAIN E \cup {p} = DOMAIN D
    BY <1>1
  <2>2. \A q \in DOMAIN D : (IF q = p THEN D[p] ELSE E[q]) = D[q]
    BY <1>1
  <2> QED BY <2>1, <2>2 DEF Extend
<1> QED BY <1>3, <1>4, <1>5, <1>6

\* Where p is not open but has the result of a call that takes effect now, it was open before.
LEMMA PickedLater ==
  ASSUME NEW C, NEW call, NEW A, Sound(C, A), NEW S, NEW T, NEW R, Accounts(C, call, S, A, T, R),
         NEW p \in A \ T, NEW O, NEW D, O \subseteq A \ T, p \notin O, D = [q \in A \ O |-> D[q]],
         \A q \in A \ O : q # p => D[q] \in R[q], D[p] = ResultOf(call[p], S)
  PROVE  Config(After(call[p], S), O, D) \in Closure(C, call)
<1> DEFINE P == O \cup {p}
           E == Drop(D, p)
<1>1. DOMAIN D = A \ O
  OBVIOUS
<1>2. E = [q \in A \ P |-> D[q]]
  BY <1>1 DEF Drop
<1>3. E = [q \in A \ P |-> E[q]] /\ \A q \in A \ P : E[q] \in R[q]
  BY <1>2
<1> HIDE DEF E
<1>4. Picks(A, T, R, P, E)
  BY <1>3 DEF Picks
<1>5. Config(S, O \cup {p}, Drop(D, p)) \in Closure(C, call)
  BY <1>4 DEF Accounts, E
<1> QED BY <1>1, <1>5, OneEffect

\* An update takes effect.
LEMMA TakesOne ==
  ASSUME NEW C, NEW call, NEW A, Sound(C, A), NEW S, NEW T, NEW R, Accounts(C, call, S, A, T, R),
         NEW p \in A \ T
  PROVE  Accounts(C, call, After(call[p], S), A, T \cup {p},
                  [q \in Clients |-> IF q = p THEN {ResultOf(call[p], S)} ELSE R[q]])
<1> DEFINE Q == [q \in Clients |-> IF q = p THEN {ResultOf(call[p], S)} ELSE R[q]]
           U == T \cup {p}
<1> SUFFICES ASSUME NEW O, NEW D, Picks(A, U, Q, O, D)
             PROVE  Config(After(call[p], S), O, D) \in Closure(C, call)
  BY DEF Accounts
<1>1. A \subseteq Clients
  BY DEF Sound
<1>2. O \subseteq A \ T /\ p \notin O /\ D = [q \in A \ O |-> D[q]] /\ \A q \in A \ O : D[q] \in Q[q]
  BY DEF Picks
<1>3. (\A q \in A \ O : q # p => D[q] \in R[q]) /\ D[p] = ResultOf(call[p], S)
  BY <1>1, <1>2
<1> QED BY <1>2, <1>3, PickedLater

\* A call that would not change the set may take effect now.
LEMMA ReadsOne ==
  ASSUME NEW C, NEW call, NEW A, Sound(C, A), NEW S, NEW T, NEW R, Accounts(C, call, S, A, T, R),
         NEW p \in A \ T, After(call[p], S) = S
  PROVE  Accounts(C, call, S, A, T,
                  [q \in Clients |-> IF q = p THEN R[p] \cup {ResultOf(call[p], S)} ELSE R[q]])
<1> DEFINE Q == [q \in Clients |-> IF q = p THEN R[p] \cup {ResultOf(call[p], S)} ELSE R[q]]
<1> SUFFICES ASSUME NEW O, NEW D, Picks(A, T, Q, O, D)
             PROVE  Config(S, O, D) \in Closure(C, call)
  BY DEF Accounts
<1>1. A \subseteq Clients
  BY DEF Sound
<1>2. O \subseteq A \ T /\ D = [q \in A \ O |-> D[q]] /\ \A q \in A \ O : D[q] \in Q[q]
  BY DEF Picks
<1>3. \A q \in A \ O : D[q] \in R[q] \/ (q = p /\ D[p] = ResultOf(call[p], S))
  BY <1>1, <1>2
<1> HIDE DEF Q
<1>4. CASE p \in O \/ D[p] \in R[p]
  <2>1. Picks(A, T, R, O, D)
    BY <1>2, <1>3, <1>4 DEF Picks
  <2> QED BY <2>1 DEF Accounts
<1>5. CASE p \notin O /\ D[p] \notin R[p]
  BY <1>2, <1>3, <1>5, PickedLater
<1> QED BY <1>4, <1>5

\* So may all such calls.
LEMMA ReadsAll ==
  ASSUME NEW C, NEW call, NEW A, Sound(C, A), NEW S, NEW T, NEW R, Accounts(C, call, S, A, T, R),
         NEW n \in Nat, Clients = 1 .. n
  PROVE  \E Q : /\ Accounts(C, call, S, A, T, Q) /\ \A q \in Clients : R[q] \subseteq Q[q]
                /\ \A q \in A \ T : After(call[q], S) = S => ResultOf(call[q], S) \in Q[q]
<1> DEFINE Upto(i, Q) == /\ Accounts(C, call, S, A, T, Q) /\ \A q \in Clients : R[q] \subseteq Q[q]
                         /\ \A q \in A \ T : q <= i /\ After(call[q], S) = S => ResultOf(call[q], S) \in Q[q]
           I == {i \in 0 .. n : \E Q : Upto(i, Q)}
<1>1. A \subseteq 1 .. n
  BY DEF Sound
<1>2. 0 \in I
  <2>1. Upto(0, R)
    BY <1>1
  <2> QED BY <2>1
<1>3. ASSUME NEW i \in 0 .. n - 1, i \in I PROVE i + 1 \in I
  <2>1. PICK Q : Upto(i, Q)
    BY <1>3
  <2>2. i + 1 \in Clients /\ i + 1 \in 0 .. n /\ \A q \in A : q <= i + 1 => q <= i \/ q = i + 1
    BY <1>1
  <2> DEFINE p == i + 1
  <2>3. CASE p \in A \ T /\ After(call[p], S) = S
    <3> DEFINE Q2 == [q \in Clients |-> IF q = p THEN Q[p] \cup {ResultOf(call[p], S)} ELSE Q[q]]
    <3>1. Accounts(C, call, S, A, T, Q2)
      BY <2>1, <2>3, ReadsOne
    <3>2. \A q \in Clients : Q[q] \subseteq Q2[q]
      OBVIOUS
    <3>3. ResultOf(call[p], S) \in Q2[p]
      BY <2>2
    <3> HIDE DEF Q2, p
    <3>4. \A q \in A : q \in Clients
      BY <1>1
    <3>5. Upto(i + 1, Q2)
      BY <2>1, <2>2, <3>1, <3>2, <3>3, <3>4 DEF p
    <3> QED BY <2>2, <3>5
  <2>4. CASE ~(p \in A \ T /\ After(call[p], S) = S)
    <3>1. Upto(i + 1, Q)
      BY <2>1, <2>2, <2>4
    <3> QED BY <2>2, <3>1
  <2> QED BY <2>3, <2>4
<1>4. n \in I
  <2> HIDE DEF I
  <2>1. 0 .. n \subseteq I
    BY ONLY <1>2, <1>3, n \in Nat, CountsUp
  <2> QED BY <2>1
<1>5. PICK Q : Upto(n, Q)
  BY <1>4
<1> QED BY <1>1, <1>5

\* The keys that the updates K put in, and those they take out.
PutIn(call, K) == {call[q].lo : q \in {r \in K : call[r].type = "insert"}}
TakenOut(call, K) == {call[q].lo : q \in {r \in K : call[r].type = "erase"}}

\* The keys an operation is about.
LEMMA AboutOneKey ==
  ASSUME NEW c \in Operation
  PROVE  /\ c.lo \in Int /\ c.lo \in SetKeys /\ c.type \in OpTypes
         /\ c.type # "range" => InRange(c) = {c.lo}
<1>1. c.lo \in SetKeys /\ c.hi \in SetKeys /\ (c.type # "range" => c.lo = c.hi)
  BY DEF Operation
<1>2. ASSUME NEW k \in SetKeys, c.type # "range" PROVE c.lo <= k /\ k <= c.hi <=> k = c.lo
  <2>1. k \in Int /\ c.lo \in Int /\ c.hi = c.lo
    BY <1>1, <1>2, ObserverAssumption
  <2> QED BY <2>1
<1>3. c.lo \in Int /\ c.type \in OpTypes
  BY <1>1, ObserverAssumption DEF Operation
<1> QED BY <1>1, <1>2, <1>3 DEF InRange

\* What calls that leave the set as it is report of it.
LEMMA WhatReaders ==
  ASSUME NEW c \in Operation, NEW S
  PROVE  /\ c.type \in {"contains", "erase"} /\ c.lo \notin S => ResultOf(c, S) = <<>>
         /\ c.type = "contains" /\ c.lo \in S => ResultOf(c, S) = <<c.lo>>
         /\ c.type = "insert" /\ c.lo \in S => ResultOf(c, S) = <<>> /\ After(c, S) = S
         /\ c.type = "range" => ResultOf(c, S) = Ascending(InRange(c) \cap S)
         /\ c.type \in {"contains", "range"} => After(c, S) = S
<1> DEFINE k == c.lo
<1>1. k \in Int /\ (c.type # "range" => InRange(c) = {k}) /\ c.type \in OpTypes
  BY AboutOneKey
<1>2. (k \notin S => {k} \cap S = {}) /\ (k \in S => {k} \cap S = {k} /\ S \cup {k} = S /\ {k} \ S = {})
  OBVIOUS
<1> HIDE DEF k
<1>3. CASE c.type = "contains"
  BY <1>1, <1>2, <1>3, AscendingNone, AscendingOne DEF After, ResultOf, k
<1>4. CASE c.type = "erase"
  BY <1>1, <1>2, <1>4, AscendingNone DEF ResultOf, k
<1>5. CASE c.type = "insert"
  BY <1>1, <1>2, <1>5, AscendingNone DEF After, ResultOf, k
<1>6. CASE c.type = "range"
  BY <1>6 DEF After, ResultOf
<1> QED BY <1>1, <1>3, <1>4, <1>5, <1>6 DEF OpTypes, k

\* What an update that does something reports, and makes of the set.
LEMMA WhatUpdates ==
  ASSUME NEW c \in Operation, NEW S
  PROVE  /\ c.type = "insert" /\ c.lo \notin S => ResultOf(c, S) = <<c.lo>> /\ After(c, S) = S \cup {c.lo}
         /\ c.type = "erase" /\ c.lo \in S => ResultOf(c, S) = <<c.lo>> /\ After(c, S) = S \ {c.lo}
<1> DEFINE k == c.lo
<1>1. k \in Int /\ (c.type # "range" => InRange(c) = {k})
  BY AboutOneKey
<1>2. (k \notin S => {k} \ S = {k}) /\ (k \in S => {k} \cap S = {k})
  OBVIOUS
<1> HIDE DEF k
<1>3. CASE c.type = "insert"
  BY <1>1, <1>2, <1>3, AscendingOne DEF ResultOf, After, k
<1>4. CASE c.type = "erase"
  BY <1>1, <1>2, <1>4, AscendingOne DEF ResultOf, After, k
<1> QED BY <1>3, <1>4

\* The first of a set of processes.
FirstOf(K, i) == {q \in K : q <= i}

\* They become one more each time.
LEMMA FirstOnes ==
  ASSUME NEW n \in Nat, NEW K \in SUBSET (1 .. n)
  PROVE  /\ FirstOf(K, 0) = {} /\ FirstOf(K, n) = K
         /\ \A i \in 0 .. n - 1 :
              /\ FirstOf(K, i) \subseteq K /\ i + 1 \notin FirstOf(K, i)
              /\ FirstOf(K, i + 1) = IF i + 1 \in K THEN FirstOf(K, i) \cup {i + 1} ELSE FirstOf(K, i)
<1>1. \A q \in K : ~(q <= 0) /\ q <= n
  OBVIOUS
<1>2. \A i \in 0 .. n - 1 : ~(i + 1 <= i) /\ i + 1 <= i + 1
  OBVIOUS
<1>3. ASSUME NEW i \in 0 .. n - 1, NEW q \in K PROVE q <= i + 1 <=> q <= i \/ q = i + 1
  OBVIOUS
<1>4. FirstOf(K, 0) = {} /\ FirstOf(K, n) = K
  BY <1>1 DEF FirstOf
<1>5. ASSUME NEW i \in 0 .. n - 1
      PROVE  /\ FirstOf(K, i) \subseteq K /\ i + 1 \notin FirstOf(K, i)
             /\ FirstOf(K, i + 1) = IF i + 1 \in K THEN FirstOf(K, i) \cup {i + 1} ELSE FirstOf(K, i)
  <2>1. FirstOf(K, i) \subseteq K /\ i + 1 \notin FirstOf(K, i)
    BY <1>2 DEF FirstOf
  <2>2. \A q : q \in FirstOf(K, i + 1) <=> q \in FirstOf(K, i) \/ (q = i + 1 /\ q \in K)
    BY <1>3 DEF FirstOf
  <2>3. i + 1 \in K => FirstOf(K, i + 1) = FirstOf(K, i) \cup {i + 1}
    BY <2>2, Zenon
  <2>4. i + 1 \notin K => FirstOf(K, i + 1) = FirstOf(K, i)
    BY <2>2, Zenon
  <2> QED BY <2>1, <2>3, <2>4
<1> QED BY <1>4, <1>5

\* Updates of different keys that all do something take effect together.
LEMMA TakesMany ==
  ASSUME NEW C, NEW call, NEW A, Sound(C, A), NEW S, NEW T, NEW R, Accounts(C, call, S, A, T, R),
         NEW n \in Nat, Clients = 1 .. n, NEW K \in SUBSET (A \ T),
         \A q \in K : /\ call[q] \in Operation
                      /\ \/ call[q].type = "insert" /\ call[q].lo \notin S
                         \/ call[q].type = "erase" /\ call[q].lo \in S,
         \A q, r \in K : call[q].lo = call[r].lo => q = r
  PROVE  Accounts(C, call, (S \cup PutIn(call, K)) \ TakenOut(call, K), A, T \cup K,
                  [q \in Clients |-> IF q \in K THEN {<<call[q].lo>>} ELSE R[q]])
<1> DEFINE First(i) == FirstOf(K, i)
<1>1. A \subseteq Clients /\ K \subseteq 1 .. n
  BY DEF Sound
<1>7. /\ First(0) = {} /\ First(n) = K
      /\ \A i \in 0 .. n - 1 :
           /\ First(i) \subseteq K /\ i + 1 \notin First(i)
           /\ First(i + 1) = IF i + 1 \in K THEN First(i) \cup {i + 1} ELSE First(i)
  BY ONLY <1>1, n \in Nat, FirstOnes
<1> HIDE DEF First
<1> DEFINE Set(i) == (S \cup PutIn(call, First(i))) \ TakenOut(call, First(i))
           Res(i) == [q \in Clients |-> IF q \in First(i) THEN {<<call[q].lo>>} ELSE R[q]]
           Upto(i) == Accounts(C, call, Set(i), A, T \cup First(i), Res(i))
           I == {i \in 0 .. n : Upto(i)}
<1>2. 0 \in I
  <2>2. Set(0) = S /\ T \cup First(0) = T
    BY <1>7 DEF PutIn, TakenOut
  <2>3. ASSUME NEW O, NEW D, Picks(A, T, Res(0), O, D) PROVE Picks(A, T, R, O, D)
    BY <1>1, <1>7, <2>3 DEF Picks
  <2>4. Accounts(C, call, S, A, T, Res(0))
    <3> HIDE DEF Res
    <3> QED BY <2>3 DEF Accounts
  <2>5. Upto(0)
    <3> HIDE DEF Set, Res
    <3> QED BY <2>2, <2>4
  <2> HIDE DEF Upto
  <2> QED BY <2>5
<1>3. ASSUME NEW i \in 0 .. n - 1, i \in I PROVE i + 1 \in I
  <2>1. Upto(i) /\ i + 1 \in Clients /\ i + 1 \in 0 .. n
    BY <1>3
  <2> DEFINE p == i + 1
  <2>3. CASE p \notin K
    <3>1. First(p) = First(i)
      BY <1>7, <2>3
    <3>2. Upto(p)
      BY <2>1, <3>1
    <3> HIDE DEF Upto
    <3> QED BY <2>1, <3>2
  <2>4. CASE p \in K
    <3>1. First(p) = First(i) \cup {p} /\ p \notin First(i) /\ First(i) \subseteq K
      BY <1>7, <2>4
    <3> HIDE DEF p
    <3>2. \A q \in First(i) : call[q].lo # call[p].lo
      BY <2>4, <3>1
    <3>3. call[p].lo \notin PutIn(call, First(i)) /\ call[p].lo \notin TakenOut(call, First(i))
      BY <3>2 DEF PutIn, TakenOut
    <3>4. ASSUME call[p].type = "insert"
          PROVE  ResultOf(call[p], Set(i)) = <<call[p].lo>> /\ After(call[p], Set(i)) = Set(p)
      <4>1. call[p].lo \notin Set(i) /\ call[p] \in Operation
        BY <2>4, <3>3, <3>4
      <4>2. ResultOf(call[p], Set(i)) = <<call[p].lo>> /\ After(call[p], Set(i)) = Set(i) \cup {call[p].lo}
        <5> HIDE DEF Set
        <5> QED BY <3>4, <4>1, WhatUpdates
      <4>3. PutIn(call, First(p)) = PutIn(call, First(i)) \cup {call[p].lo}
        BY <3>1, <3>4 DEF PutIn
      <4>4. TakenOut(call, First(p)) = TakenOut(call, First(i))
        BY <3>1, <3>4 DEF TakenOut
      <4>5. Set(p) = Set(i) \cup {call[p].lo}
        BY <3>3, <4>3, <4>4
      <4> QED BY <4>2, <4>5
    <3>5. ASSUME call[p].type = "erase"
          PROVE  ResultOf(call[p], Set(i)) = <<call[p].lo>> /\ After(call[p], Set(i)) = Set(p)
      <4>1. call[p].lo \in Set(i) /\ call[p] \in Operation
        BY <2>4, <3>3, <3>5
      <4>2. ResultOf(call[p], Set(i)) = <<call[p].lo>> /\ After(call[p], Set(i)) = Set(i) \ {call[p].lo}
        <5> HIDE DEF Set
        <5> QED BY <3>5, <4>1, WhatUpdates
      <4>3. PutIn(call, First(p)) = PutIn(call, First(i))
        BY <3>1, <3>5 DEF PutIn
      <4>4. TakenOut(call, First(p)) = TakenOut(call, First(i)) \cup {call[p].lo}
        BY <3>1, <3>5 DEF TakenOut
      <4>5. Set(p) = Set(i) \ {call[p].lo}
        BY <4>3, <4>4
      <4> QED BY <4>2, <4>5
    <3>6. ResultOf(call[p], Set(i)) = <<call[p].lo>> /\ After(call[p], Set(i)) = Set(p)
      BY <2>4, <3>4, <3>5
    <3>7. p \in A \ (T \cup First(i))
      BY <2>4, <3>1
    <3> DEFINE Q == [q \in Clients |-> IF q = p THEN {ResultOf(call[p], Set(i))} ELSE Res(i)[q]]
    <3>8. Accounts(C, call, After(call[p], Set(i)), A, (T \cup First(i)) \cup {p}, Q)
      <4>1. PICK Se, Re, U : Se = Set(i) /\ Re = Res(i) /\ U = T \cup First(i)
        OBVIOUS
      <4>2. Accounts(C, call, Se, A, U, Re) /\ p \in A \ U
        BY <2>1, <3>7, <4>1
      <4> HIDE DEF Set, Res, Q
      <4>3. Accounts(C, call, After(call[p], Se), A, U \cup {p},
                     [q \in Clients |-> IF q = p THEN {ResultOf(call[p], Se)} ELSE Re[q]])
        BY ONLY Sound(C, A), <4>2, TakesOne
      <4> QED BY <4>1, <4>3 DEF Q
    <3>9. Q = Res(p)
      <4> HIDE DEF Set
      <4> QED BY <3>1, <3>6
    <3>10. (T \cup First(i)) \cup {p} = T \cup First(p)
      BY <3>1
    <3>11. Upto(p)
      <4> HIDE DEF Set, Res, Q
      <4> QED BY <3>6, <3>8, <3>9, <3>10
    <3> HIDE DEF Upto
    <3> QED BY <2>1, <3>11 DEF p
  <2> QED BY <2>3, <2>4
<1>4. n \in I
  <2> HIDE DEF I
  <2>1. 0 .. n \subseteq I
    BY ONLY <1>2, <1>3, n \in Nat, CountsUp
  <2> QED BY <2>1
<1>6. Upto(n)
  BY <1>4
<1> QED BY <1>6, <1>7

-----------------------------------------------------------------------------
\* A call comes.
LEMMA InvokeAccounts ==
  ASSUME NEW C, NEW call, NEW A, Sound(C, A), NEW S, NEW T, NEW R, Accounts(C, call, S, A, T, R),
         NEW p \in Clients \ A, NEW call2, \A q \in A : call2[q] = call[q]
  PROVE  /\ Sound(Invoke(C, p), A \cup {p})
         /\ Accounts(Invoke(C, p), call2, S, A \cup {p}, T \ {p},
                     [q \in Clients |-> IF q = p THEN {} ELSE R[q]])
<1>1. Sound(Invoke(C, p), A \cup {p})
  BY InvokeFormed DEF Sound
<1> DEFINE Q == [q \in Clients |-> IF q = p THEN {} ELSE R[q]]
           B == A \cup {p}
<1> SUFFICES ASSUME NEW O, NEW D, Picks(B, T \ {p}, Q, O, D)
             PROVE  Config(S, O, D) \in Closure(Invoke(C, p), call2)
  BY <1>1 DEF Accounts
<1>2. A \subseteq Clients /\ p \notin A
  BY DEF Sound
<1>3. O \subseteq B \ (T \ {p}) /\ D = [q \in B \ O |-> D[q]] /\ \A q \in B \ O : D[q] \in Q[q]
  BY DEF Picks
<1>4. p \in O
  BY <1>3
<1> DEFINE P == O \ {p}
<1>5. P \subseteq A \ T /\ A \ P = B \ O /\ P \cup {p} = O /\ p \notin A \ P
  BY <1>2, <1>3, <1>4
<1>6. \A q \in A \ P : D[q] \in R[q]
  BY <1>2, <1>3, <1>5
<1> HIDE DEF P, B, Q
<1>7. Picks(A, T, R, P, D)
  BY <1>3, <1>5, <1>6 DEF Picks
<1>8. Config(S, P, D) \in Closure(C, call)
  BY <1>7 DEF Accounts
<1>9. Config(S, P \cup {p}, D) \in Closure(Invoke(C, p), call2)
  BY <1>8, InvokeKeeps DEF Sound
<1> QED BY <1>5, <1>9

\* A call returns.
LEMMA RespondAccounts ==
  ASSUME NEW C, NEW call, NEW A, Sound(C, A), NEW S, NEW T, NEW R, Accounts(C, call, S, A, T, R),
         NEW p \in A, NEW r \in R[p], NEW call2
  PROVE  /\ Sound(Respond(C, call, p, r), A \ {p})
         /\ Accounts(Respond(C, call, p, r), call2, S, A \ {p}, T \ {p}, R)
<1>1. Sound(Respond(C, call, p, r), A \ {p})
  BY RespondFormed DEF Sound
<1> DEFINE B == A \ {p}
<1> SUFFICES ASSUME NEW O, NEW D, Picks(B, T \ {p}, R, O, D)
             PROVE  Config(S, O, D) \in Closure(Respond(C, call, p, r), call2)
  BY <1>1 DEF Accounts
<1>2. O \subseteq B \ (T \ {p}) /\ D = [q \in B \ O |-> D[q]] /\ \A q \in B \ O : D[q] \in R[q]
  BY DEF Picks
<1> DEFINE E == Extend(D, p, r)
<1>3. E = [q \in A \ O |-> IF q = p THEN r ELSE D[q]]
  <2>1. DOMAIN D \cup {p} = A \ O
    BY <1>2
  <2> QED BY <2>1 DEF Extend
<1>4. E = [q \in A \ O |-> E[q]] /\ \A q \in A \ O : E[q] \in R[q]
  BY <1>2, <1>3
<1>5. p \in DOMAIN E /\ E[p] = r
  BY <1>2, <1>3
<1>6. Drop(E, p) = D
  <2>1. DOMAIN E \ {p} = B \ O /\ \A q \in B \ O : E[q] = D[q]
    BY <1>3
  <2> QED BY <1>2, <2>1 DEF Drop
<1>7. O \subseteq A \ T
  BY <1>2
<1> HIDE DEF E, B
<1>8. Picks(A, T, R, O, E)
  BY <1>4, <1>7 DEF Picks
<1>9. Config(S, O, E) \in Closure(C, call)
  BY <1>8 DEF Accounts
<1>10. Config(S, O, D) \in Respond(C, call, p, r)
  BY <1>5, <1>6, <1>9, RespondKeeps
<1> QED BY <1>10, ClosureHolds

\* One call less is open.
Closed(c, p) == Config(c.keys, c.open \ {p}, c.done)

\* A call that returns unseen leaves well-formed configurations.
LEMMA UnseenFormed ==
  ASSUME NEW C, NEW p, NEW A, \A c \in C : Formed(c, A)
  PROVE  /\ RespondUnseen(C, p) = {Closed(c, p) : c \in {d \in C : p \in d.open}}
         /\ \A c \in RespondUnseen(C, p) : Formed(c, A \ {p})
<1>1. ASSUME NEW c \in C PROVE [c EXCEPT !.open = c.open \ {p}] = Closed(c, p)
  <2>1. c = Config(c.keys, c.open, c.done)
    BY DEF Formed
  <2> DEFINE K == c.keys  O == c.open  D == c.done
  <2>2. [Config(K, O, D) EXCEPT !.open = O \ {p}] = Config(K, O \ {p}, D)
    BY DEF Config
  <2> QED BY <2>1, <2>2 DEF Closed
<1>2. RespondUnseen(C, p) = {Closed(c, p) : c \in {d \in C : p \in d.open}}
  BY <1>1 DEF RespondUnseen
<1>3. ASSUME NEW c \in C, p \in c.open PROVE Formed(Closed(c, p), A \ {p})
  <2>1. Formed(c, A)
    OBVIOUS
  <2>2. Closed(c, p).keys = c.keys /\ Closed(c, p).open = c.open \ {p} /\ Closed(c, p).done = c.done
    BY ConfigFields DEF Closed
  <2>3. Closed(c, p) = Config(Closed(c, p).keys, Closed(c, p).open, Closed(c, p).done)
    BY <2>2 DEF Closed
  <2>4. (c.open \ {p}) \cap DOMAIN c.done = {} /\ p \notin DOMAIN c.done
    BY <1>3, <2>1 DEF Formed
  <2> QED BY <2>1, <2>2, <2>3, <2>4 DEF Formed
<1> QED BY <1>2, <1>3

\* What the calls can have led to while p was open is so still when p is gone.
LEMMA UnseenKeeps ==
  ASSUME NEW C, NEW call, NEW call2, NEW A, Sound(C, A), NEW p, \A q \in A \ {p} : call2[q] = call[q],
         NEW S, NEW O, NEW D, Config(S, O, D) \in Closure(C, call), p \in O
  PROVE  Config(S, O \ {p}, D) \in Closure(RespondUnseen(C, p), call2)
<1> DEFINE U == RespondUnseen(C, p)
           T == {c \in Closure(C, call) : p \in c.open => Closed(c, p) \in Closure(U, call2)}
<1>0. A \ {p} \in SUBSET Clients /\ (\A c \in C : Formed(c, A)) /\ A \in SUBSET Clients
  BY DEF Sound
<1>1. C \subseteq T
  BY <1>0, UnseenFormed, ClosureHolds
<1>2. \A c \in U : Formed(c, A \ {p})
  BY <1>0, UnseenFormed
<1>3. \A c \in Closure(U, call2) : \A q \in c.open : Effect(c, call2, q) \in Closure(U, call2)
  BY <1>0, <1>2, ClosureClosed
<1>4. \A c \in Closure(C, call) : \A q \in c.open : Effect(c, call, q) \in Closure(C, call)
  BY <1>0, ClosureClosed
<1> HIDE DEF U
<1>5. ASSUME NEW c \in T PROVE TakesEffect(c, call) \subseteq T
  <2> SUFFICES ASSUME NEW q \in c.open PROVE Effect(c, call, q) \in T
    BY Effects
  <2>1. Formed(c, A) /\ Effect(c, call, q) \in Closure(C, call)
    BY <1>0, <1>4, ClosureFormed
  <2>2. SUFFICES ASSUME p \in Effect(c, call, q).open PROVE Closed(Effect(c, call, q), p) \in Closure(U, call2)
    BY <2>1
  <2>3. Effect(c, call, q).open = c.open \ {q}
    BY ConfigFields DEF Effect
  <2>4. q # p /\ p \in c.open /\ q \in A /\ call2[q] = call[q]
    BY <2>1, <2>2, <2>3 DEF Formed
  <2>5. q \in Closed(c, p).open
    BY <2>4, ConfigFields DEF Closed
  <2>6. Effect(Closed(c, p), call2, q) \in Closure(U, call2)
    BY <1>3, <2>4, <2>5
  <2>7. Closed(Effect(c, call, q), p) = Effect(Closed(c, p), call2, q)
    <3> DEFINE o == Closed(c, p)
               K == After(call[q], c.keys)
               E == Extend(c.done, q, ResultOf(call[q], c.keys))
    <3>1. o.keys = c.keys /\ o.open = c.open \ {p} /\ o.done = c.done
      BY ConfigFields DEF Closed
    <3>2. Effect(o, call2, q) = Config(K, (c.open \ {p}) \ {q}, E)
      <4> HIDE DEF o
      <4> QED BY <2>4, <3>1 DEF Effect
    <3>3. Effect(c, call, q) = Config(K, c.open \ {q}, E)
      BY DEF Effect
    <3> DEFINE O2 == c.open \ {q}
               e == Config(K, O2, E)
    <3> HIDE DEF K, E, O2
    <3>4. e.keys = K /\ e.open = O2 /\ e.done = E
      BY ConfigFields
    <3>5. Closed(e, p) = Config(K, O2 \ {p}, E)
      <4> HIDE DEF e
      <4> QED BY <3>4 DEF Closed
    <3>6. (c.open \ {q}) \ {p} = (c.open \ {p}) \ {q}
      OBVIOUS
    <3> QED BY <3>2, <3>3, <3>5, <3>6 DEF O2
  <2> QED BY <2>6, <2>7
<1>6. Closure(C, call) \subseteq T
  <2> HIDE DEF T
  <2> QED BY <1>1, <1>5, ClosureLeast
<1> QED BY <1>6, ConfigFields DEF Closed, U

\* A call returns without having taken effect.
LEMMA UnseenAccounts ==
  ASSUME NEW C, NEW call, NEW A, Sound(C, A), NEW S, NEW T, NEW R, Accounts(C, call, S, A, T, R),
         NEW p \in A \ T, NEW call2, \A q \in A \ {p} : call2[q] = call[q]
  PROVE  /\ Sound(RespondUnseen(C, p), A \ {p})
         /\ Accounts(RespondUnseen(C, p), call2, S, A \ {p}, T, R)
<1>1. Sound(RespondUnseen(C, p), A \ {p})
  BY UnseenFormed DEF Sound
<1> DEFINE B == A \ {p}
<1> SUFFICES ASSUME NEW O, NEW D, Picks(B, T, R, O, D)
             PROVE  Config(S, O, D) \in Closure(RespondUnseen(C, p), call2)
  BY <1>1 DEF Accounts
<1>2. O \subseteq B \ T /\ D = [q \in B \ O |-> D[q]] /\ \A q \in B \ O : D[q] \in R[q]
  BY DEF Picks
<1> DEFINE P == O \cup {p}
<1>3. P \subseteq A \ T /\ A \ P = B \ O /\ P \ {p} = O /\ p \in P
  BY <1>2
<1> HIDE DEF P, B
<1>4. Picks(A, T, R, P, D)
  BY <1>2, <1>3 DEF Picks
<1>5. Config(S, P, D) \in Closure(C, call)
  BY <1>4 DEF Accounts
<1>6. Config(S, P \ {p}, D) \in Closure(RespondUnseen(C, p), call2)
  BY <1>3, <1>5, UnseenKeeps
<1> QED BY <1>3, <1>6

\* There is a configuration left.
LEMMA AccountsLeft ==
  ASSUME NEW C, NEW call, NEW A, NEW S, NEW T, NEW R, Accounts(C, call, S, A, T, R),
         \A q \in A \cap T : R[q] # {}
  PROVE  C # {}
<1> DEFINE O == A \ T
           D == [q \in A \ O |-> CHOOSE r : r \in R[q]]
<1>1. \A q \in A \ O : D[q] \in R[q]
  OBVIOUS
<1>2. D = [q \in A \ O |-> D[q]] /\ O \subseteq A \ T
  OBVIOUS
<1> HIDE DEF D, O
<1>3. Picks(A, T, R, O, D)
  BY <1>1, <1>2 DEF Picks
<1> QED BY <1>3, ClosureOfNone DEF Accounts

\* What accounts for the calls does so with fewer results, and when more of them
\* have to have taken effect.
LEMMA AccountsFor ==
  ASSUME NEW C, NEW call, NEW A, NEW S, NEW T, NEW R, Accounts(C, call, S, A, T, R),
         NEW T2, NEW R2, A \cap T \subseteq T2, \A q \in A : R2[q] \subseteq R[q]
  PROVE  Accounts(C, call, S, A, T2, R2)
<1> SUFFICES ASSUME NEW O, NEW D, Picks(A, T2, R2, O, D) PROVE Picks(A, T, R, O, D)
  BY DEF Accounts
<1> QED BY DEF Picks

\* Before the first call.
LEMMA StartAccounts ==
  ASSUME NEW call, NEW S, NEW R
  PROVE  Sound(Start(S), {}) /\ Accounts(Start(S), call, S, {}, {}, R)
<1> DEFINE N == [p \in {} |-> <<>>]
<1>1. Start(S) = {Config(S, {}, N)}
  BY DEF Start, Config
<1>2. Config(S, {}, N).keys = S /\ Config(S, {}, N).open = {} /\ Config(S, {}, N).done = N
  BY ConfigFields
<1>3. N = [q \in DOMAIN N |-> N[q]] /\ DOMAIN N = {}
  OBVIOUS
<1> HIDE DEF N
<1>4. Formed(Config(S, {}, N), {})
  BY <1>2, <1>3 DEF Formed
<1>5. Sound(Start(S), {})
  BY <1>1, <1>4 DEF Sound
<1>6. ASSUME NEW O, NEW D, Picks({}, {}, R, O, D) PROVE O = {} /\ D = N
  <2>1. O = {} /\ D = [q \in {} |-> D[q]]
    BY <1>6 DEF Picks
  <2>2. D = [q \in {} |-> <<>>]
    BY <2>1
  <2> QED BY <2>1, <2>2 DEF N
<1>7. Config(S, {}, N) \in Closure(Start(S), call)
  BY <1>1, ClosureHolds
<1> QED BY <1>5, <1>6, <1>7 DEF Accounts

-----------------------------------------------------------------------------
Rising(s) == \A i, j \in 1 .. Len(s) : i < j => s[i] < s[j]

\* The first elements of a rising sequence are as many as their places.
LEMMA RisingCounts ==
  ASSUME NEW s \in Seq(Int), Rising(s), NEW n \in 0 .. Len(s)
  PROVE  IsFiniteSet({s[m] : m \in 1 .. n}) /\ Cardinality({s[m] : m \in 1 .. n}) = n
<1> DEFINE F(i) == {s[m] : m \in 1 .. i}
           T == {i \in 0 .. n : IsFiniteSet(F(i)) /\ Cardinality(F(i)) = i}
<1>1. n \in Nat /\ Len(s) \in Nat /\ \A i \in 1 .. Len(s) : s[i] \in Int
  BY DEF Seq
<1>2. 0 \in T
  <2>1. F(0) = {}
    OBVIOUS
  <2>2. IsFiniteSet({}) /\ Cardinality({}) = 0
    BY FS_EmptySet
  <2>3. 0 \in 0 .. n
    BY <1>1
  <2> HIDE DEF F
  <2> QED BY <2>1, <2>2, <2>3
<1>3. ASSUME NEW i \in 0 .. n - 1, i \in T PROVE i + 1 \in T
  <2>1. i + 1 \in 1 .. Len(s) /\ i + 1 \in 0 .. n /\ 1 .. i + 1 = (1 .. i) \cup {i + 1} /\ 1 .. i \subseteq 1 .. Len(s)
    BY <1>1
  <2>2. F(i + 1) = F(i) \cup {s[i + 1]}
    BY <2>1
  <2>3. s[i + 1] \notin F(i)
    <3> SUFFICES ASSUME NEW m \in 1 .. i PROVE s[m] # s[i + 1]
      OBVIOUS
    <3>1. m \in 1 .. Len(s) /\ m < i + 1
      BY <1>1, <2>1
    <3>2. s[m] < s[i + 1] /\ s[m] \in Int /\ s[i + 1] \in Int
      BY <1>1, <2>1, <3>1 DEF Rising
    <3> QED BY <3>2
  <2>4. IsFiniteSet(F(i)) /\ Cardinality(F(i)) = i
    BY <1>3
  <2> HIDE DEF F, T
  <2>5. IsFiniteSet(F(i + 1)) /\ Cardinality(F(i + 1)) = i + 1
    <3>1. PICK G, x : G = F(i) /\ x = s[i + 1]
      OBVIOUS
    <3>2. IsFiniteSet(G \cup {x}) /\ Cardinality(G \cup {x}) = Cardinality(G) + 1
      BY <2>3, <2>4, <3>1, FS_AddElement
    <3> QED BY <2>2, <2>4, <3>1, <3>2
  <2> QED BY <2>1, <2>5 DEF T
<1>4. n \in T
  <2> HIDE DEF T
  <2>1. 0 .. n \subseteq T
    BY ONLY <1>1, <1>2, <1>3, CountsUp
  <2> QED BY <1>1, <2>1
<1> QED BY <1>4

\* A rising sequence is its elements in order.
LEMMA RisingAscends ==
  ASSUME NEW s \in Seq(Int), Rising(s)
  PROVE  s = Ascending(ToSet(s))
<1> DEFINE n == Len(s)
           S == ToSet(s)
           Below(k) == {j \in S : j < k}
<1>1. n \in Nat /\ s = [i \in 1 .. n |-> s[i]] /\ \A i \in 1 .. n : s[i] \in Int
  BY DEF Seq
<1>2. S = {s[m] : m \in 1 .. n}
  BY <1>1 DEF ToSet
<1>3. Cardinality(S) = n
  <2>1. n \in 0 .. n
    BY <1>1
  <2> HIDE DEF S
  <2> QED BY <1>2, <2>1, RisingCounts
<1>4. ASSUME NEW i \in 1 .. n PROVE Cardinality(Below(s[i])) = i - 1
  <2>1. ASSUME NEW m \in 1 .. n PROVE s[m] < s[i] <=> m \in 1 .. i - 1
    <3>1. m < i => s[m] < s[i]
      BY DEF Rising
    <3>2. i < m => s[i] < s[m]
      BY DEF Rising
    <3>3. s[m] \in Int /\ s[i] \in Int /\ (m = i => s[m] = s[i])
      BY <1>1
    <3>4. m < i \/ i < m \/ m = i
      OBVIOUS
    <3> HIDE DEF n
    <3> QED BY <1>1, <3>1, <3>2, <3>3, <3>4
  <2>2. Below(s[i]) = {s[m] : m \in 1 .. i - 1}
    <3>1. \A m \in 1 .. i - 1 : m \in 1 .. n
      BY <1>1
    <3> HIDE DEF n, S
    <3> QED BY <1>2, <2>1, <3>1
  <2>3. i - 1 \in 0 .. n
    BY <1>1
  <2> QED BY <2>2, <2>3, RisingCounts
<1>5. ASSUME NEW i \in 1 .. n
      PROVE  (CHOOSE k \in S : Cardinality({j \in S : j < k}) = i - 1) = s[i]
  <2> DEFINE P(k) == Cardinality({j \in S : j < k}) = i - 1
  <2>1. s[i] \in S /\ P(s[i])
    BY <1>2, <1>4
  <2>2. ASSUME NEW k \in S, P(k) PROVE k = s[i]
    <3>1. PICK m \in 1 .. n : k = s[m]
      BY <1>2
    <3>2. m - 1 = i - 1
      BY <1>4, <2>2, <3>1
    <3> QED BY <1>1, <3>1, <3>2
  <2> HIDE DEF P, S
  <2>3. (CHOOSE k \in S : P(k)) = s[i]
    BY <2>1, <2>2
  <2> QED BY <2>3 DEF P
<1>6. Ascending(S) = [i \in 1 .. n |-> s[i]]
  <2> HIDE DEF S
  <2>1. Ascending(S) = [i \in 1 .. n |-> CHOOSE k \in S : Cardinality({j \in S : j < k}) = i - 1]
    BY <1>3 DEF Ascending
  <2> QED BY <1>5, <2>1
<1> QED BY <1>1, <1>6
==============================================================================
