----------------------------- MODULE Recursion -----------------------------
(***************************************************************************)
(* When a recursive function exists.                                       *)
(*                                                                         *)
(* A definition f[x] == ... f[y] ... says nothing of f unless some         *)
(* function satisfies it.  One does when every argument has a size and the *)
(* value at an argument depends on the values at smaller ones only.  The   *)
(* operators below are parameters: a module that proves something of       *)
(* recursive functions takes one instance for each of them, whose          *)
(* parameters p stand for what else the definition speaks of.              *)
(*                                                                         *)
(* A definition f[x] == ... f[y] ... says nothing of f unless some         *)
(* function satisfies it.  One does when every argument has a size and the *)
(* value at an argument depends on the values at smaller ones only.  The   *)
(* operators below are parameters: a module that proves something of       *)
(* recursive functions takes one instance for each of them, whose          *)
(* parameters p stand for what else the definition speaks of.              *)
(***************************************************************************)
EXTENDS Integers, TLAPS

LOCAL INSTANCE WellFoundedInduction

CONSTANTS
  Dom(_),      \* the arguments of the function with parameters p
  Size(_, _),  \* the size of an argument
  Def(_, _, _) \* the value at an argument, from the function

\* The value is fixed by the values at smaller arguments.
WellFormed(p) ==
  /\ \A x \in Dom(p) : Size(p, x) \in Nat
  /\ \A g, h : \A x \in Dom(p) :
       (\A y \in Dom(p) : Size(p, y) < Size(p, x) => g[y] = h[y])
         => Def(p, g, x) = Def(p, h, x)

\* A set of natural numbers has a smallest one.
LEMMA Smallest ==
  ASSUME NEW T \in SUBSET Nat, T # {}
  PROVE  \E x \in T : \A y \in T : x <= y
<1>1. PICK x \in T : \A y \in T : ~(<<y, x>> \in OpToRel(<, Nat))
  BY NatLessThanWellFounded, WFMin
<1>2. \A y \in T : y < x => <<y, x>> \in OpToRel(<, Nat)
  BY DEF OpToRel
<1>3. \A y \in T : x <= y
  <2> TAKE y \in T
  <2>1. ~(y < x)
    BY <1>1, <1>2
  <2> QED BY <2>1
<1> QED BY <1>3

\* What follows for n from all smaller numbers holds of all numbers.
LEMMA Below ==
  ASSUME NEW S \in SUBSET Nat,
         \A n \in Nat : (\A m \in Nat : m < n => m \in S) => n \in S
  PROVE  S = Nat
<1> SUFFICES ASSUME Nat \ S # {} PROVE FALSE
  OBVIOUS
<1>1. PICK x \in Nat \ S : \A y \in Nat \ S : x <= y
  BY Smallest
<1>2. \A m \in Nat : m < x => m \in S
  <2> TAKE m \in Nat
  <2> HAVE m < x
  <2> QED BY <1>1
<1> QED BY <1>1, <1>2

\* g is the function up to the size n.
Approx(p, g, n) ==
  \A x \in Dom(p) : Size(p, x) <= n => g[x] = Def(p, g, x)

\* Up to the size n two such functions agree.
LEMMA ApproxUnique ==
  ASSUME NEW p, WellFormed(p), NEW n \in Nat, NEW g, NEW h,
         Approx(p, g, n), Approx(p, h, n)
  PROVE  \A x \in Dom(p) : Size(p, x) <= n => g[x] = h[x]
<1> DEFINE S == {k \in Nat : k <= n => \A x \in Dom(p) : Size(p, x) = k => g[x] = h[x]}
<1>1. S = Nat
  <2>1. ASSUME NEW k \in Nat, \A m \in Nat : m < k => m \in S
        PROVE  k \in S
    <3> SUFFICES ASSUME k <= n, NEW x \in Dom(p), Size(p, x) = k
                 PROVE  g[x] = h[x]
      OBVIOUS
    <3>1. \A y \in Dom(p) : Size(p, y) < Size(p, x) => g[y] = h[y]
      <4> SUFFICES ASSUME NEW y \in Dom(p), Size(p, y) < Size(p, x)
                   PROVE  g[y] = h[y]
        OBVIOUS
      <4>1. Size(p, y) \in Nat
        BY DEF WellFormed
      <4>2. Size(p, y) \in S
        BY <2>1, <4>1
      <4> QED BY <4>1, <4>2
    <3>2. Def(p, g, x) = Def(p, h, x)
      BY <3>1 DEF WellFormed
    <3> QED BY <3>2 DEF Approx
  <2> HIDE DEF S
  <2> QED BY <2>1, Below DEF S
<1> SUFFICES ASSUME NEW x \in Dom(p), Size(p, x) <= n PROVE g[x] = h[x]
  OBVIOUS
<1>2. Size(p, x) \in S
  BY <1>1 DEF WellFormed
<1> QED BY <1>2

\* For every size there is such a function.
LEMMA ApproxExists ==
  ASSUME NEW p, WellFormed(p), NEW n \in Nat
  PROVE  \E g : Approx(p, g, n)
<1> DEFINE S == {k \in Nat : \E g : Approx(p, g, k)}
<1>1. S = Nat
  <2>1. ASSUME NEW k \in Nat, \A m \in Nat : m < k => m \in S
        PROVE  k \in S
    <3> DEFINE a(m) == CHOOSE g : Approx(p, g, m)
               lower == [x \in Dom(p) |-> a(Size(p, x))[x]]
               g == [x \in Dom(p) |-> Def(p, lower, x)]
    <3>1. \A m \in Nat : m < k => Approx(p, a(m), m)
      BY <2>1
    <3>2. \A x \in Dom(p) : Size(p, x) < k => lower[x] = Def(p, lower, x)
      <4> SUFFICES ASSUME NEW x \in Dom(p), Size(p, x) < k
                   PROVE  lower[x] = Def(p, lower, x)
        OBVIOUS
      <4> DEFINE m == Size(p, x)
      <4>1. m \in Nat
        BY DEF WellFormed
      <4>2. \A y \in Dom(p) : Size(p, y) < Size(p, x) => a(m)[y] = lower[y]
        <5> SUFFICES ASSUME NEW y \in Dom(p), Size(p, y) < m
                     PROVE  a(m)[y] = a(Size(p, y))[y]
          OBVIOUS
        <5>1. Size(p, y) \in Nat
          BY DEF WellFormed
        <5>2. Approx(p, a(m), Size(p, y))
          <6>1. Approx(p, a(m), m)
            BY <3>1, <4>1
          <6> HIDE DEF a, m
          <6> SUFFICES ASSUME NEW z \in Dom(p), Size(p, z) <= Size(p, y)
                       PROVE  a(m)[z] = Def(p, a(m), z)
            BY DEF Approx
          <6>2. Size(p, z) \in Nat
            BY DEF WellFormed
          <6>3. Size(p, z) <= m
            BY <4>1, <5>1, <6>2
          <6> QED BY <6>1, <6>3 DEF Approx
        <5>3. Approx(p, a(Size(p, y)), Size(p, y))
          BY <3>1, <4>1, <5>1
        <5> HIDE DEF a
        <5> QED BY <5>1, <5>2, <5>3, ApproxUnique
      <4>3. Def(p, a(m), x) = Def(p, lower, x)
        <5> HIDE DEF lower, a, m
        <5> QED BY <4>2 DEF WellFormed, m
      <4>4. a(m)[x] = Def(p, a(m), x)
        <5>1. Approx(p, a(m), m)
          BY <3>1, <4>1
        <5> HIDE DEF a
        <5> QED BY <4>1, <5>1 DEF Approx
      <4> QED BY <4>3, <4>4
    <3>3. \A x \in Dom(p) : Size(p, x) < k => g[x] = lower[x]
      <4> HIDE DEF lower
      <4> QED BY <3>2
    <3>4. Approx(p, g, k)
      <4> SUFFICES ASSUME NEW x \in Dom(p), Size(p, x) <= k
                   PROVE  g[x] = Def(p, g, x)
        BY DEF Approx
      <4>1. \A y \in Dom(p) : Size(p, y) < Size(p, x) => lower[y] = g[y]
        <5> SUFFICES ASSUME NEW y \in Dom(p), Size(p, y) < Size(p, x)
                     PROVE  lower[y] = g[y]
          OBVIOUS
        <5>1. Size(p, x) \in Nat /\ Size(p, y) \in Nat
          BY DEF WellFormed
        <5>2. Size(p, y) < k
          BY <5>1
        <5> HIDE DEF lower, g
        <5> QED BY <5>2, <3>3
      <4>2. Def(p, lower, x) = Def(p, g, x)
        <5> HIDE DEF lower, g
        <5> QED BY <4>1 DEF WellFormed
      <4>3. g[x] = Def(p, lower, x)
        <5> HIDE DEF lower
        <5> QED OBVIOUS
      <4> QED BY <4>2, <4>3
    <3> HIDE DEF g
    <3> QED BY <3>4
  <2> HIDE DEF S
  <2> QED BY <2>1, Below DEF S
<1> QED BY <1>1

\* A function whose value is fixed by its values at smaller arguments exists.
THEOREM RecursiveFunction ==
  ASSUME NEW p, WellFormed(p)
  PROVE  \E g : g = [x \in Dom(p) |-> Def(p, g, x)]
<1> DEFINE a(m) == CHOOSE g : Approx(p, g, m)
           g == [x \in Dom(p) |-> a(Size(p, x))[x]]
<1>1. \A m \in Nat : Approx(p, a(m), m)
  BY ApproxExists
<1>2. ASSUME NEW x \in Dom(p) PROVE g[x] = Def(p, g, x)
  <2> DEFINE m == Size(p, x)
  <2>1. m \in Nat
    BY DEF WellFormed
  <2>2. \A y \in Dom(p) : Size(p, y) < Size(p, x) => a(m)[y] = g[y]
    <3> SUFFICES ASSUME NEW y \in Dom(p), Size(p, y) < m
                 PROVE  a(m)[y] = a(Size(p, y))[y]
      OBVIOUS
    <3>1. Size(p, y) \in Nat
      BY DEF WellFormed
    <3>2. Approx(p, a(m), m) /\ Approx(p, a(Size(p, y)), Size(p, y))
      BY <1>1, <2>1, <3>1
    <3> HIDE DEF a, m
    <3>3. Approx(p, a(m), Size(p, y))
      <4> SUFFICES ASSUME NEW z \in Dom(p), Size(p, z) <= Size(p, y)
                   PROVE  a(m)[z] = Def(p, a(m), z)
        BY DEF Approx
      <4>1. Size(p, z) \in Nat
        BY DEF WellFormed
      <4>2. Size(p, z) <= m
        BY <2>1, <3>1, <4>1
      <4> QED BY <3>2, <4>2 DEF Approx
    <3> QED BY <3>1, <3>2, <3>3, ApproxUnique
  <2>3. Def(p, a(m), x) = Def(p, g, x)
    <3> HIDE DEF g, a, m
    <3> QED BY <2>2 DEF WellFormed, m
  <2>4. a(m)[x] = Def(p, a(m), x)
    <3>1. Approx(p, a(m), m)
      BY <1>1, <2>1
    <3> HIDE DEF a
    <3> QED BY <2>1, <3>1 DEF Approx
  <2> QED BY <2>3, <2>4
<1>3. g = [x \in Dom(p) |-> Def(p, g, x)]
  <2>1. g = [x \in Dom(p) |-> g[x]]
    OBVIOUS
  <2> HIDE DEF g
  <2> QED BY <1>2, <2>1
<1> HIDE DEF g
<1> QED BY <1>3
=============================================================================
