---------------------------- MODULE StreamProofs ----------------------------
(***************************************************************************)
(* The range coder, for every width of its registers, every tables and     *)
(* every stream: the encoder writes the number of an ideal coder without   *)
(* registers, and the decoder reads the symbols back.                      *)
(*                                                                         *)
(* The argument has four parts, each an invariant on top of those before:  *)
(*  - StreamTyped and Contained: what is in the register together with its *)
(*    interval lies in the whole, or one carry above it, and then a byte   *)
(*    is held back that takes the carry;                                   *)
(*  - Accurate: the bytes that left, those held back included, and the     *)
(*    register make the ideal coder's number, and Done leaves no bits;     *)
(*  - OnItsWay: the ideal coder's history is a way, turn by turn what the  *)
(*    symbols ask for.  From the last interval back to the first, the      *)
(*    number that was written lies in each (WrittenHolds);                 *)
(*  - Follows: the decoder goes the same way.  Its interval is the ideal   *)
(*    one, its value the distance of what it has read from there.          *)
(*                                                                         *)
(* Two and Number are recursive functions.  That they are functions, and   *)
(* what holds of them, is proved by induction on the sets of numbers for   *)
(* which it holds (SetInduction).                                          *)
(***************************************************************************)
EXTENDS RangeStream, WellFoundedInduction, TLAPS

\* A set of numbers has a least one.
LEMMA LeastOfNat ==
  ASSUME NEW T \in SUBSET Nat, T # {}
  PROVE  \E n \in T : \A m \in T : n <= m
<1>1. PICK n \in T : \A m \in T : <<m, n>> \notin OpToRel(<, Nat)
  BY WFMin, NatLessThanWellFounded, Zenon
<1>2. \A m \in T : ~(m < n)
  BY <1>1, Zenon DEF OpToRel
<1> QED BY <1>2

\* Induction, over a set instead of a predicate.
LEMMA SetInduction ==
  ASSUME NEW T \in SUBSET Nat, 0 \in T, \A n \in T : n + 1 \in T
  PROVE  \A n \in Nat : n \in T
<1> SUFFICES ASSUME ~ (\A n \in Nat : n \in T) PROVE FALSE
  OBVIOUS
<1> DEFINE Out == Nat \ T
<1>1. PICK n \in Out : \A m \in Out : n <= m
  BY LeastOfNat
<1>2. n # 0 /\ n - 1 \in Nat /\ n - 1 \notin Out
  BY <1>1
<1>3. n - 1 \in T
  BY <1>2
<1>4. (n - 1) + 1 \in T
  BY <1>3
<1> QED BY <1>4, <1>1

\* A linear recursion on the naturals has a solution.
Solves(g, n, c, a, b) ==
  /\ g \in [0 .. n -> Nat] /\ g[0] = c
  /\ \A i \in 0 .. n - 1 : g[i + 1] = g[i] * a + b[i + 1]

\* A solution up to n goes on to n + 1.
LEMMA OneMore ==
  ASSUME NEW c \in Nat, NEW a \in Nat, NEW b \in [Nat -> Nat], NEW n \in Nat,
         NEW g, Solves(g, n, c, a, b)
  PROVE  \E h : Solves(h, n + 1, c, a, b)
<1>0. g \in [0 .. n -> Nat] /\ g[0] = c
  BY DEF Solves
<1>1. \A i \in 0 .. n - 1 : g[i + 1] = g[i] * a + b[i + 1]
  BY DEF Solves
<1> DEFINE x == g[n] * a + b[n + 1]
           h == [i \in 0 .. n + 1 |-> IF i <= n THEN g[i] ELSE x]
<1>2. x \in Nat
  <2>1. n \in 0 .. n /\ n + 1 \in Nat
    OBVIOUS
  <2> DEFINE y == g[n]
             z == b[n + 1]
  <2>2. y \in Nat /\ z \in Nat
    BY <1>0, <2>1
  <2> HIDE DEF y, z
  <2>3. y * a + z \in Nat
    BY <2>2
  <2> QED BY <2>3 DEF y, z
<1>3. h[n + 1] = h[n] * a + b[n + 1]
  <2>1. n \in 0 .. n + 1 /\ n + 1 \in 0 .. n + 1 /\ n <= n /\ ~(n + 1 <= n)
    OBVIOUS
  <2>2. h[n + 1] = x /\ h[n] = g[n]
    BY <2>1
  <2> QED BY <2>2
<1> HIDE DEF x
<1>4. h \in [0 .. n + 1 -> Nat] /\ h[0] = c
  <2>1. ASSUME NEW i \in 0 .. n + 1 PROVE (IF i <= n THEN g[i] ELSE x) \in Nat
    <3>1. CASE i <= n
      <4>1. i \in 0 .. n
        BY <3>1
      <4> QED BY <4>1, <3>1, <1>0
    <3>2. CASE ~(i <= n)
      BY <3>2, <1>2
    <3> QED BY <3>1, <3>2
  <2>2. 0 \in 0 .. n + 1 /\ 0 <= n
    OBVIOUS
  <2> QED BY <2>1, <2>2, <1>0
<1>5. ASSUME NEW i \in 0 .. (n + 1) - 1 PROVE h[i + 1] = h[i] * a + b[i + 1]
  <2>1. CASE i = n
    BY <1>3, <2>1
  <2>2. CASE i # n
    <3>1. i \in 0 .. n - 1 /\ i + 1 \in 0 .. n
      BY <2>2
    <3>2. h[i] = g[i] /\ h[i + 1] = g[i + 1]
      BY <3>1
    <3> QED BY <1>1, <3>1, <3>2
  <2> QED BY <2>1, <2>2
<1>6. Solves(h, n + 1, c, a, b)
  BY <1>4, <1>5 DEF Solves
<1> QED BY <1>6

\* A linear recursion on the naturals has a solution: Two and Number are two of them.
LEMMA LinearRecursion ==
  ASSUME NEW c \in Nat, NEW a \in Nat, NEW b \in [Nat -> Nat]
  PROVE  \E f \in [Nat -> Nat] : /\ f[0] = c
                                 /\ \A n \in Nat : f[n + 1] = f[n] * a + b[n + 1]
<1> DEFINE T == {n \in Nat : \E g : Solves(g, n, c, a, b)}
<1>1. 0 \in T
  <2>1. Solves([i \in 0 .. 0 |-> c], 0, c, a, b)
    BY DEF Solves
  <2> QED BY <2>1
<1>2. ASSUME NEW n \in T PROVE n + 1 \in T
  <2>1. n \in Nat /\ \E g : Solves(g, n, c, a, b)
    OBVIOUS
  <2>2. \E g : Solves(g, n + 1, c, a, b)
    BY <2>1, OneMore
  <2> QED BY <2>1, <2>2
<1>3. \A n \in Nat : \E g : Solves(g, n, c, a, b)
  <2>1. T \in SUBSET Nat
    OBVIOUS
  <2> HIDE DEF T
  <2>2. \A n \in Nat : n \in T
    BY <1>1, <1>2, <2>1, SetInduction
  <2> QED BY <2>2 DEF T
<1>4. ASSUME NEW m \in Nat, NEW n \in Nat, m <= n, NEW g, NEW h,
             Solves(g, m, c, a, b), Solves(h, n, c, a, b)
      PROVE  g[m] = h[m]
  <2> DEFINE U == {i \in Nat : i <= m => g[i] = h[i]}
  <2>1. 0 \in U
    BY <1>4 DEF Solves
  <2>2. ASSUME NEW i \in U PROVE i + 1 \in U
    <3> SUFFICES ASSUME i + 1 <= m PROVE g[i + 1] = h[i + 1]
      OBVIOUS
    <3>1. i \in 0 .. m - 1 /\ i \in 0 .. n - 1 /\ g[i] = h[i]
      BY <1>4
    <3> QED BY <1>4, <3>1 DEF Solves
  <2>3. \A i \in Nat : i \in U
    <3>1. U \in SUBSET Nat
      OBVIOUS
    <3> HIDE DEF U
    <3> QED BY <2>1, <2>2, <3>1, SetInduction
  <2> QED BY <2>3, <1>4
<1> DEFINE G(n) == CHOOSE g : Solves(g, n, c, a, b)
           f == [n \in Nat |-> G(n)[n]]
<1>5. \A n \in Nat : Solves(G(n), n, c, a, b)
  BY <1>3
<1> HIDE DEF G
<1>6. f \in [Nat -> Nat]
  BY <1>5 DEF Solves
<1>7. f[0] = c
  <2>1. Solves(G(0), 0, c, a, b)
    BY <1>5
  <2> QED BY <2>1 DEF Solves
<1>8. ASSUME NEW n \in Nat PROVE f[n + 1] = f[n] * a + b[n + 1]
  <2>1. Solves(G(n), n, c, a, b) /\ Solves(G(n + 1), n + 1, c, a, b)
    BY <1>5
  <2>2. G(n)[n] = G(n + 1)[n]
    BY <1>4, <2>1
  <2>3. G(n + 1)[n + 1] = G(n + 1)[n] * a + b[n + 1]
    BY <2>1 DEF Solves
  <2> QED BY <2>2, <2>3
<1> QED BY <1>6, <1>7, <1>8

-----------------------------------------------------------------------------
(* Powers of two, and the numbers that bytes make. *)

\* Two is the function that its recursive definition describes.
LEMMA TwoLaw ==
  /\ Two \in [Nat -> Nat]
  /\ Two[0] = 1
  /\ \A n \in Nat : Two[n + 1] = 2 * Two[n]
<1>1. PICK f \in [Nat -> Nat] : f[0] = 1 /\ \A n \in Nat : f[n + 1] = f[n] * 2
  <2> DEFINE b == [i \in Nat |-> 0]
  <2>1. b \in [Nat -> Nat] /\ \A n \in Nat : b[n + 1] = 0
    OBVIOUS
  <2> HIDE DEF b
  <2>2. \E f \in [Nat -> Nat] : /\ f[0] = 1
                                /\ \A n \in Nat : f[n + 1] = f[n] * 2 + b[n + 1]
    <3>1. 1 \in Nat /\ 2 \in Nat
      OBVIOUS
    <3>2. ASSUME NEW c \in Nat, NEW a \in Nat
          PROVE  \E f \in [Nat -> Nat] : /\ f[0] = c
                                         /\ \A n \in Nat : f[n + 1] = f[n] * a + b[n + 1]
      BY <2>1, LinearRecursion, ZenonT(40)
    <3> QED BY <3>1, <3>2, Zenon
  <2>3. PICK f \in [Nat -> Nat] : /\ f[0] = 1
                                  /\ \A n \in Nat : f[n + 1] = f[n] * 2 + b[n + 1]
    BY <2>2
  <2>4. ASSUME NEW n \in Nat PROVE f[n + 1] = f[n] * 2
    <3>1. f[n + 1] = f[n] * 2 + b[n + 1] /\ b[n + 1] = 0 /\ f[n] \in Nat
      BY <2>1, <2>3
    <3> QED BY <3>1
  <2> QED BY <2>3, <2>4
<1>2. f = [n \in Nat |-> IF n = 0 THEN 1 ELSE 2 * f[n - 1]]
  <2>1. ASSUME NEW n \in Nat, n # 0 PROVE f[n] = 2 * f[n - 1]
    <3>1. n - 1 \in Nat /\ (n - 1) + 1 = n /\ f[n - 1] \in Nat
      BY <2>1
    <3> QED BY <1>1, <3>1
  <2> QED BY <1>1, <2>1
<1>3. Two = [n \in Nat |-> IF n = 0 THEN 1 ELSE 2 * Two[n - 1]]
  BY <1>2, Zenon DEF Two
<1> DEFINE T == {n \in Nat : Two[n] = f[n]}
<1>4. T \in SUBSET Nat /\ 0 \in T
  BY <1>1, <1>3
<1>5. ASSUME NEW n \in T PROVE n + 1 \in T
  <2>1. Two[n + 1] = 2 * Two[n] /\ f[n + 1] = 2 * f[n]
    BY <1>1, <1>3
  <2> QED BY <2>1
<1>6. \A n \in Nat : n \in T
  <2> HIDE DEF T
  <2> QED BY <1>4, <1>5, SetInduction
<1>7. Two = f
  BY <1>3, <1>6
<1> QED BY <1>1, <1>7

\* The powers of a sum, by induction.
LEMMA TwoSum ==
  ASSUME NEW m \in Nat, NEW n \in Nat
  PROVE  Two[m + n] = Two[m] * Two[n]
<1> DEFINE T == {k \in Nat : Two[m + k] = Two[m] * Two[k]}
<1>1. T \in SUBSET Nat /\ 0 \in T
  BY TwoLaw
<1>2. ASSUME NEW k \in T PROVE k + 1 \in T
  <2>1. Two[m + k + 1] = 2 * Two[m + k] /\ Two[k + 1] = 2 * Two[k]
    BY TwoLaw
  <2>2. Two[m] \in Nat /\ Two[k] \in Nat
    BY TwoLaw
  <2> QED BY <2>1, <2>2
<1> HIDE DEF T
<1>3. n \in T
  BY <1>1, <1>2, SetInduction
<1> QED BY <1>3 DEF T

\* No power of two is zero.
LEMMA TwoPositive ==
  ASSUME NEW n \in Nat
  PROVE  Two[n] \in Nat \ {0}
<1> DEFINE T == {k \in Nat : Two[k] # 0}
<1>1. T \in SUBSET Nat /\ 0 \in T
  BY TwoLaw
<1>2. ASSUME NEW k \in T PROVE k + 1 \in T
  BY TwoLaw
<1> HIDE DEF T
<1>3. n \in T
  BY <1>1, <1>2, SetInduction
<1> QED BY <1>3, TwoLaw DEF T

\* So is Number: a byte more makes it Sym times as large.
LEMMA NumberLaw ==
  ASSUME NEW s \in Seq(Nat)
  PROVE  /\ Number(s) \in [Nat -> Nat]
         /\ Number(s)[0] = 0
         /\ \A n \in Nat : Number(s)[n + 1] = Number(s)[n] * Sym + Byte(s, n + 1)
<1> DEFINE b == [i \in Nat |-> Byte(s, i)]
<1>1. b \in [Nat -> Nat]
  BY DEF Byte
<1>2. Sym \in Nat
  BY TwoLaw, WidthsAssumption DEF Sym
<1>3. PICK f \in [Nat -> Nat] : f[0] = 0 /\ \A n \in Nat : f[n + 1] = f[n] * Sym + b[n + 1]
  <2> HIDE DEF b
  <2>1. ASSUME NEW c \in Nat
        PROVE  \E f \in [Nat -> Nat] : /\ f[0] = c
                                       /\ \A n \in Nat : f[n + 1] = f[n] * Sym + b[n + 1]
    BY <1>1, <1>2, LinearRecursion, ZenonT(40)
  <2>2. 0 \in Nat
    OBVIOUS
  <2> QED BY <2>1, <2>2, Zenon
<1>4. \A n \in Nat : f[n + 1] = f[n] * Sym + Byte(s, n + 1)
  <2> SUFFICES ASSUME NEW n \in Nat PROVE f[n + 1] = f[n] * Sym + Byte(s, n + 1)
    OBVIOUS
  <2>1. b[n + 1] = Byte(s, n + 1)
    OBVIOUS
  <2> QED BY <1>3, <2>1
<1> HIDE DEF b
<1>5. f = [n \in Nat |-> IF n = 0 THEN 0 ELSE f[n - 1] * Sym + Byte(s, n)]
  <2>1. ASSUME NEW n \in Nat, n # 0 PROVE f[n] = f[n - 1] * Sym + Byte(s, n)
    <3>1. n - 1 \in Nat /\ (n - 1) + 1 = n
      BY <2>1
    <3>2. f[(n - 1) + 1] = f[n - 1] * Sym + Byte(s, (n - 1) + 1)
      BY <1>4, <3>1
    <3> QED BY <3>1, <3>2
  <2> QED BY <1>3, <2>1
<1>6. Number(s) = [n \in Nat |-> IF n = 0 THEN 0 ELSE Number(s)[n - 1] * Sym + Byte(s, n)]
  BY <1>5, Zenon DEF Number
<1>7. Number(s)[0] = 0
  BY <1>6
<1>8. ASSUME NEW n \in Nat PROVE Number(s)[n + 1] = Number(s)[n] * Sym + Byte(s, n + 1)
  <2>1. n + 1 \in Nat /\ n + 1 # 0 /\ (n + 1) - 1 = n
    OBVIOUS
  <2>2. Number(s)[n + 1] = Number(s)[(n + 1) - 1] * Sym + Byte(s, n + 1)
    BY <1>6, <2>1, Zenon
  <2> QED BY <2>1, <2>2
<1> DEFINE T == {n \in Nat : Number(s)[n] = f[n]}
<1>9. T \in SUBSET Nat /\ 0 \in T
  BY <1>3, <1>7
<1>10. ASSUME NEW n \in T PROVE n + 1 \in T
  <2>1. n \in Nat /\ Number(s)[n] = f[n]
    OBVIOUS
  <2>2. Number(s)[n + 1] = f[n + 1]
    BY <1>4, <1>8, <2>1, Zenon
  <2> QED BY <2>1, <2>2
<1>11. \A n \in Nat : n \in T
  <2> HIDE DEF T
  <2> QED BY <1>9, <1>10, SetInduction
<1>12. Number(s) = f
  <2>1. \A n \in Nat : Number(s)[n] = f[n]
    BY <1>11
  <2>2. DOMAIN Number(s) = Nat
    BY <1>6, Zenon
  <2>3. Number(s) = [n \in Nat |-> Number(s)[n]]
    BY <1>6, <2>2, Zenon
  <2>4. f = [n \in Nat |-> f[n]]
    BY <1>3
  <2> HIDE DEF T
  <2> QED BY <2>1, <2>3, <2>4
<1> QED BY <1>3, <1>7, <1>8, <1>12

-----------------------------------------------------------------------------
(* Integers. *)

\* A quotient and a remainder of naturals.
LEMMA DivMod ==
  ASSUME NEW a \in Nat, NEW b \in Nat \ {0}
  PROVE  /\ a \div b \in Nat /\ a % b \in 0 .. b - 1
         /\ a = (a \div b) * b + (a % b)
<1>1. a \div b \in Nat /\ a % b \in 0 .. b - 1
  OBVIOUS
<1>2. a = (a \div b) * b + (a % b)
  OBVIOUS
<1> QED BY <1>1, <1>2

\* A product grows with its factor.
LEMMA Times ==
  ASSUME NEW a \in Int, NEW b \in Int, NEW c \in Nat, a <= b
  PROVE  a * c <= b * c
OBVIOUS

\* It grows strictly when the other factor is not zero.
LEMMA TimesLess ==
  ASSUME NEW a \in Int, NEW b \in Int, NEW c \in Nat \ {0}, a < b
  PROVE  a * c < b * c
OBVIOUS

\* And only then.
LEMMA LessTimes ==
  ASSUME NEW a \in Int, NEW b \in Int, NEW c \in Nat, a * c < b * c
  PROVE  a < b
<1> SUFFICES ASSUME b <= a PROVE FALSE
  OBVIOUS
<1>1. b * c <= a * c
  BY Times
<1> QED BY <1>1

\* There is only one quotient with its remainder.
LEMMA DivModOf ==
  ASSUME NEW a \in Nat, NEW b \in Nat \ {0}, NEW q \in Int, NEW r \in 0 .. b - 1, a = q * b + r
  PROVE  a \div b = q /\ a % b = r
<1>1. a \div b \in Nat /\ a % b \in 0 .. b - 1 /\ a = (a \div b) * b + (a % b)
  BY DivMod
<1> DEFINE p == a \div b
           m == a % b
<1>2. p \in Int /\ m \in 0 .. b - 1 /\ p * b + m = q * b + r
  BY <1>1
<1> HIDE DEF p, m
<1>3. ~(p < q)
  <2> SUFFICES ASSUME p + 1 <= q PROVE FALSE
    BY <1>2
  <2>1. (p + 1) * b <= q * b
    BY <1>2, Times
  <2>2. (p + 1) * b = p * b + b
    BY <1>2
  <2> QED BY <1>2, <2>1, <2>2
<1>4. ~(q < p)
  <2> SUFFICES ASSUME q + 1 <= p PROVE FALSE
    BY <1>2
  <2>1. (q + 1) * b <= p * b
    BY <1>2, Times
  <2>2. (q + 1) * b = q * b + b
    BY <1>2
  <2> QED BY <1>2, <2>1, <2>2
<1>5. p = q
  BY <1>2, <1>3, <1>4
<1>6. m = r
  BY <1>2, <1>5
<1> QED BY <1>5, <1>6 DEF p, m

-----------------------------------------------------------------------------
(* The sizes of the coder. *)

\* The bytes that the decoder has taken when its interval is whole.
Lead == (CodeBits - 2) \div SymBits + 1

\* The widths fit: the whole is CodeBot bytes' worth, and Lead bytes fill it and Kept's bits.
LEMMA Sizes ==
  /\ Sym \in Nat /\ Sym >= 2 /\ SymMax \in Nat
  /\ CodeBot \in Nat \ {0} /\ CodeTop \in Nat \ {0}
  /\ CodeTop = CodeBot * Sym
  /\ Two[CodeShift] = CodeBot
  /\ Two[CodeBits] = 2 * CodeTop
  /\ Kept \in Nat \ {0} /\ Two[CodeExtra] \in Nat \ {0}
  /\ Sym = Two[CodeExtra] * Kept
  /\ Lead \in Nat \ {0}
  /\ CodeTop * Kept = Two[SymBits * Lead]
<1>1. /\ SymBits \in Nat /\ SymBits >= 1 /\ CodeBits \in Nat /\ CodeBits - 2 \in Nat
      /\ CodeShift \in Nat /\ CodeBits - 1 = CodeShift + SymBits
  BY WidthsAssumption DEF CodeShift
<1>2. Sym = 2 * Two[SymBits - 1]
  <2>1. SymBits - 1 \in Nat /\ SymBits = (SymBits - 1) + 1
    BY <1>1
  <2> QED BY <2>1, TwoLaw DEF Sym
<1>3. Sym \in Nat /\ Sym >= 2
  <2>1. Two[SymBits - 1] \in Nat \ {0}
    BY <1>1, TwoPositive
  <2> QED BY <1>2, <2>1
<1> SymMax \in Nat
  BY <1>3 DEF SymMax
<1>4. CodeTop = Two[CodeShift] * Sym
  BY <1>1, TwoSum DEF CodeTop, Sym
<1>5. Two[CodeShift] \in Nat \ {0}
  BY <1>1, TwoPositive
<1>6. CodeBot = Two[CodeShift]
  <2>1. CodeTop \in Nat
    BY <1>3, <1>4, <1>5
  <2>2. Sym \in Nat \ {0} /\ 0 \in 0 .. Sym - 1 /\ CodeTop = Two[CodeShift] * Sym + 0
    BY <1>3, <1>4, <2>1, <1>5
  <2> QED BY <2>1, <2>2, <1>5, DivModOf DEF CodeBot
<1>7. CodeTop \in Nat \ {0} /\ CodeTop = CodeBot * Sym
  BY <1>1, <1>4, <1>6, TwoPositive DEF CodeTop
<1>8. Two[CodeBits] = 2 * CodeTop
  <2>1. CodeBits - 1 \in Nat /\ CodeBits = (CodeBits - 1) + 1
    BY <1>1
  <2> QED BY <2>1, TwoLaw DEF CodeTop
<1> DEFINE k == (CodeBits - 2) \div SymBits
<1>9. k \in Nat /\ CodeExtra \in 1 .. SymBits /\ CodeBits - 2 = k * SymBits + (CodeExtra - 1)
  BY <1>1, DivMod DEF CodeExtra
<1>10. Kept \in Nat \ {0} /\ Two[CodeExtra] \in Nat \ {0} /\ Sym = Two[CodeExtra] * Kept
  <2>1. SymBits - CodeExtra \in Nat /\ CodeExtra \in Nat /\ SymBits = CodeExtra + (SymBits - CodeExtra)
    BY <1>1, <1>9
  <2>2. Two[CodeExtra + (SymBits - CodeExtra)] = Two[CodeExtra] * Two[SymBits - CodeExtra]
    BY <2>1, TwoSum
  <2> QED BY <2>1, <2>2, TwoPositive DEF Kept, Sym
<1>11. Lead \in Nat \ {0} /\ CodeTop * Kept = Two[SymBits * Lead]
  <2>1. Lead = k + 1
    BY DEF Lead
  <2> HIDE DEF k
  <2>2. SymBits * Lead = SymBits * k + SymBits
    BY <1>1, <1>9, <2>1
  <2>3. SymBits * Lead = (CodeBits - 1) + (SymBits - CodeExtra)
    BY <1>1, <1>9, <2>2
  <2>4. SymBits - CodeExtra \in Nat /\ CodeBits - 1 \in Nat
    BY <1>1, <1>9
  <2>5. Two[(CodeBits - 1) + (SymBits - CodeExtra)] = CodeTop * Kept
    BY <2>4, TwoSum DEF CodeTop, Kept
  <2>6. Lead \in Nat \ {0}
    BY <1>9, <2>1
  <2> QED BY <2>3, <2>5, <2>6
<1> QED BY <1>3, <1>4, <1>5, <1>6, <1>7, <1>8, <1>9, <1>10, <1>11, Zenon

-----------------------------------------------------------------------------
(* Numbers of bytes. *)

\* Bytes in common at the front make the same number.
LEMMA SamePrefix ==
  ASSUME NEW s \in Seq(Nat), NEW t \in Seq(Nat), NEW n \in Nat,
         \A i \in 1 .. n : Byte(s, i) = Byte(t, i)
  PROVE  Number(s)[n] = Number(t)[n]
<1> DEFINE T == {k \in Nat : k <= n => Number(s)[k] = Number(t)[k]}
<1>1. T \in SUBSET Nat /\ 0 \in T
  BY NumberLaw
<1>2. ASSUME NEW k \in T PROVE k + 1 \in T
  <2> SUFFICES ASSUME k + 1 <= n PROVE Number(s)[k + 1] = Number(t)[k + 1]
    OBVIOUS
  <2>1. k \in Nat /\ Number(s)[k] = Number(t)[k] /\ Byte(s, k + 1) = Byte(t, k + 1)
    OBVIOUS
  <2>2. /\ Number(s)[k + 1] = Number(s)[k] * Sym + Byte(s, k + 1)
        /\ Number(t)[k + 1] = Number(t)[k] * Sym + Byte(t, k + 1)
    BY <2>1, NumberLaw, Zenon
  <2> QED BY <2>1, <2>2
<1> HIDE DEF T
<1>3. n \in T
  BY <1>1, <1>2, SetInduction
<1> QED BY <1>3 DEF T

\* Zeros scale a number.
LEMMA ZerosScale ==
  ASSUME NEW s \in Seq(Nat), NEW n \in Nat, NEW m \in Nat,
         \A i \in 1 .. m : Byte(s, n + i) = 0
  PROVE  Number(s)[n + m] = Number(s)[n] * Two[SymBits * m]
<1> DEFINE T == {k \in Nat : k <= m => Number(s)[n + k] = Number(s)[n] * Two[SymBits * k]}
<1>0. Number(s)[n] \in Nat /\ SymBits \in Nat
  BY NumberLaw, WidthsAssumption
<1>1. T \in SUBSET Nat /\ 0 \in T
  <2>1. SymBits * 0 = 0 /\ n + 0 = n /\ Two[0] = 1
    BY <1>0, TwoLaw
  <2> QED BY <1>0, <2>1
<1>2. ASSUME NEW k \in T PROVE k + 1 \in T
  <2> SUFFICES ASSUME k + 1 <= m
               PROVE  Number(s)[n + (k + 1)] = Number(s)[n] * Two[SymBits * (k + 1)]
    OBVIOUS
  <2>1. k \in Nat /\ Number(s)[n + k] = Number(s)[n] * Two[SymBits * k] /\ k + 1 \in 1 .. m
    OBVIOUS
  <2>2. Byte(s, n + (k + 1)) = 0 /\ n + (k + 1) = (n + k) + 1 /\ n + k \in Nat
    BY <2>1
  <2>3. Number(s)[(n + k) + 1] = Number(s)[n + k] * Sym + Byte(s, (n + k) + 1)
    BY <2>2, NumberLaw, Zenon
  <2>4. SymBits * (k + 1) = SymBits * k + SymBits /\ SymBits * k \in Nat
    BY <1>0, <2>1
  <2>5. Two[SymBits * (k + 1)] = Two[SymBits * k] * Sym /\ Two[SymBits * k] \in Nat
    BY <1>0, <2>4, TwoSum, TwoPositive DEF Sym
  <2>6. Sym \in Nat /\ Number(s)[n + k] \in Nat
    BY Sizes, NumberLaw, <2>2
  <2> DEFINE x == Number(s)[n]
             y == Two[SymBits * k]
  <2>7. Number(s)[n + (k + 1)] = (x * y) * Sym
    BY <2>1, <2>2, <2>3, <2>6
  <2>8. x \in Nat /\ y \in Nat /\ Sym \in Nat
    BY <1>0, <2>5, <2>6
  <2> HIDE DEF x, y
  <2>9. (x * y) * Sym = x * (y * Sym)
    BY <2>8
  <2> QED BY <2>5, <2>7, <2>9 DEF x, y
<1> HIDE DEF T
<1>3. m \in T
  BY <1>1, <1>2, SetInduction
<1> QED BY <1>3 DEF T

\* A carry through a run of bytes at their maximum.
LEMMA CarryRuns ==
  ASSUME NEW s \in Seq(Nat), NEW t \in Seq(Nat), NEW n \in Nat, NEW m \in Nat,
         \A i \in 1 .. n : Byte(s, i) = Byte(t, i),
         Byte(t, n + 1) = Byte(s, n + 1) + 1,
         \A i \in 1 .. m : Byte(s, n + 1 + i) = SymMax /\ Byte(t, n + 1 + i) = 0
  PROVE  Number(t)[n + 1 + m] = Number(s)[n + 1 + m] + 1
<1> DEFINE T == {k \in Nat : k <= m => Number(t)[n + 1 + k] = Number(s)[n + 1 + k] + 1}
<1>0. Sym \in Nat /\ SymMax = Sym - 1
  BY Sizes DEF SymMax
<1>1. T \in SUBSET Nat /\ 0 \in T
  <2>1. Number(s)[n] = Number(t)[n] /\ Number(s)[n] \in Nat
    BY SamePrefix, NumberLaw
  <2>2. /\ Number(s)[n + 1] = Number(s)[n] * Sym + Byte(s, n + 1)
        /\ Number(t)[n + 1] = Number(t)[n] * Sym + Byte(t, n + 1)
    BY NumberLaw, Zenon
  <2>3. Byte(s, n + 1) \in Nat
    BY DEF Byte
  <2>4. n + 1 + 0 = n + 1
    OBVIOUS
  <2>5. Number(t)[n + 1] = Number(s)[n + 1] + 1
    BY <1>0, <2>1, <2>2, <2>3
  <2>6. Number(t)[n + 1 + 0] = Number(s)[n + 1 + 0] + 1
    BY <2>4, <2>5, Zenon
  <2>7. T \in SUBSET Nat /\ 0 \in Nat
    OBVIOUS
  <2> QED BY <2>6, <2>7, Zenon
<1>2. ASSUME NEW k \in T PROVE k + 1 \in T
  <2> SUFFICES ASSUME k + 1 <= m
               PROVE  Number(t)[n + 1 + (k + 1)] = Number(s)[n + 1 + (k + 1)] + 1
    OBVIOUS
  <2>1. k \in Nat /\ Number(t)[n + 1 + k] = Number(s)[n + 1 + k] + 1 /\ k + 1 \in 1 .. m
    OBVIOUS
  <2> DEFINE j == n + 1 + k
  <2>2. j \in Nat /\ j + 1 = n + 1 + (k + 1)
    BY <2>1
  <2>3. Byte(s, j + 1) = SymMax /\ Byte(t, j + 1) = 0
    BY <2>1, <2>2
  <2>4. Number(t)[j] = Number(s)[j] + 1
    BY <2>1
  <2> HIDE DEF j, T
  <2>5. /\ Number(s)[j + 1] = Number(s)[j] * Sym + Byte(s, j + 1)
        /\ Number(t)[j + 1] = Number(t)[j] * Sym + Byte(t, j + 1)
    BY <2>2, NumberLaw, Zenon
  <2>6. Number(s)[j] \in Nat
    BY <2>2, NumberLaw
  <2> DEFINE x == Number(s)[j]
  <2>7. Number(t)[j + 1] = (x + 1) * Sym + 0 /\ Number(s)[j + 1] = x * Sym + SymMax /\ x \in Nat
    BY <2>3, <2>4, <2>5, <2>6
  <2> HIDE DEF x
  <2>8. (x + 1) * Sym = x * Sym + Sym /\ x * Sym \in Nat
    BY <1>0, <2>7
  <2>9. Number(t)[j + 1] = Number(s)[j + 1] + 1
    BY <1>0, <2>7, <2>8
  <2> QED BY <2>2, <2>9
<1> HIDE DEF T
<1>3. m \in T
  BY <1>1, <1>2, SetInduction
<1> QED BY <1>3 DEF T

-----------------------------------------------------------------------------
(* The encoder. *)

Coder(e) ==
  /\ e \in [out : Seq(Octets), rng : Nat, val : Nat, rem : -1 .. SymMax, ext : Nat,
            err : BOOLEAN]
  /\ Len(e.out) <= Storage

\* One byte is in rem, or none.
One(r) == IF r >= 0 THEN 1 ELSE 0

\* Maybe one byte, then a run of another.
OneAndRun(r, x, k, y) == (IF r >= 0 THEN <<x>> ELSE <<>>) \o [i \in 1 .. k |-> y]

\* What carryOut releases.
Held(e, carry) == OneAndRun(e.rem, (e.rem + carry) % Sym, e.ext, (SymMax + carry) % Sym)

\* A byte is below Sym.
LEMMA Digits ==
  /\ Octets = 0 .. SymMax
  /\ SymMax \in Octets /\ Octets \subseteq Nat
  /\ SymMax \in Nat /\ SymMax = Sym - 1 /\ Sym \in Nat \ {0, 1}
  /\ Octets = 0 .. Sym - 1
BY Sizes DEF SymMax, Octets

\* A remainder by Sym is a byte.
LEMMA Digit ==
  ASSUME NEW a \in Nat
  PROVE  a % Sym \in Octets
<1>1. Sym \in Nat \ {0}
  BY Digits
<1>2. a % Sym \in 0 .. Sym - 1
  BY <1>1, DivMod
<1> QED BY <1>2, Digits

\* The byte is one, if it is there.
Fits(r, x) == r >= 0 => x \in Octets

\* Its bytes, one by one.
LEMMA OneAndRunIs ==
  ASSUME NEW r \in Int, NEW x, NEW y \in Octets, NEW k \in Nat, Fits(r, x)
  PROVE  /\ OneAndRun(r, x, k, y) \in Seq(Octets)
         /\ Len(OneAndRun(r, x, k, y)) = One(r) + k
         /\ r >= 0 => OneAndRun(r, x, k, y)[1] = x
         /\ \A i \in 1 .. k : OneAndRun(r, x, k, y)[One(r) + i] = y
<1> DEFINE s == OneAndRun(r, x, k, y)
           run == [i \in 1 .. k |-> y]
<1>1. run \in Seq(Octets) /\ Len(run) = k /\ \A i \in 1 .. k : run[i] = y
  OBVIOUS
<1>2. CASE r >= 0
  <2>1. s = <<x>> \o run /\ One(r) = 1
    BY <1>2 DEF OneAndRun, One
  <2>2. <<x>> \in Seq(Octets) /\ Len(<<x>>) = 1 /\ <<x>>[1] = x
    BY <1>2 DEF Fits
  <2> HIDE DEF run, s
  <2>3. s \in Seq(Octets) /\ Len(s) = 1 + k
    BY <1>1, <2>1, <2>2
  <2>4. s[1] = x
    BY <1>1, <2>1, <2>2
  <2>5. ASSUME NEW i \in 1 .. k PROVE s[1 + i] = y
    BY <1>1, <2>1, <2>2
  <2>6. s \in Seq(Octets) /\ Len(s) = One(r) + k /\ s[1] = x /\ \A i \in 1 .. k : s[One(r) + i] = y
    BY <2>1, <2>3, <2>4, <2>5
  <2> QED BY <2>6, Zenon DEF s
<1>3. CASE ~(r >= 0)
  <2>1. s = <<>> \o run /\ One(r) = 0
    BY <1>3 DEF OneAndRun, One
  <2> HIDE DEF run, s
  <2>2. s = run
    BY <1>1, <2>1
  <2>3. s \in Seq(Octets) /\ Len(s) = One(r) + k /\ \A i \in 1 .. k : s[One(r) + i] = y
    BY <1>1, <2>1, <2>2
  <2> QED BY <1>3, <2>3, Zenon DEF s
<1> QED BY <1>2, <1>3, Zenon

\* The bytes of two buffers in a row.
LEMMA JoinIs ==
  ASSUME NEW s \in Seq(Octets), NEW t \in Seq(Octets)
  PROVE  /\ s \o t \in Seq(Octets)
         /\ Len(s) \in Nat /\ Len(t) \in Nat
         /\ Len(s \o t) = Len(s) + Len(t)
         /\ \A i \in 1 .. Len(s) : (s \o t)[i] = s[i]
         /\ \A i \in 1 .. Len(t) : (s \o t)[Len(s) + i] = t[i]
OBVIOUS

\* Three buffers in a row.
LEMMA JoinThree ==
  ASSUME NEW s \in Seq(Octets), NEW t \in Seq(Octets), NEW u \in Seq(Octets)
  PROVE  (s \o t) \o u = s \o (t \o u)
OBVIOUS

\* The bytes that carryOut releases.
LEMMA HeldBytes ==
  ASSUME NEW e, Coder(e), NEW carry \in {0, 1}
  PROVE  /\ Held(e, carry) \in Seq(Octets)
         /\ Len(Held(e, carry)) = One(e.rem) + e.ext
         /\ e.rem >= 0 => Held(e, carry)[1] = (e.rem + carry) % Sym
         /\ \A i \in 1 .. e.ext : Held(e, carry)[One(e.rem) + i] = (SymMax + carry) % Sym
<1>1. e.rem \in -1 .. SymMax /\ e.rem \in Int /\ e.ext \in Nat /\ carry \in Nat
  BY Digits DEF Coder
<1>2. (SymMax + carry) % Sym \in Octets
  <2>1. SymMax + carry \in Nat
    BY <1>1, Digits
  <2> QED BY <2>1, Digit
<1>3. e.rem >= 0 => (e.rem + carry) % Sym \in Octets
  <2> SUFFICES ASSUME e.rem >= 0 PROVE (e.rem + carry) % Sym \in Octets
    OBVIOUS
  <2>1. e.rem + carry \in Nat
    BY <1>1, Digits
  <2> QED BY <2>1, Digit
<1> DEFINE x == (e.rem + carry) % Sym
           y == (SymMax + carry) % Sym
           r == e.rem
           k == e.ext
<1>4. r \in Int /\ Fits(r, x) /\ y \in Octets /\ k \in Nat
  BY <1>1, <1>2, <1>3, Zenon DEF Fits
<1>6. Held(e, carry) = OneAndRun(r, x, k, y)
  BY Zenon DEF Held
<1> HIDE DEF x, y, r, k
<1>5. /\ OneAndRun(r, x, k, y) \in Seq(Octets)
      /\ Len(OneAndRun(r, x, k, y)) = One(r) + k
      /\ r >= 0 => OneAndRun(r, x, k, y)[1] = x
      /\ \A i \in 1 .. k : OneAndRun(r, x, k, y)[One(r) + i] = y
  BY <1>4, OneAndRunIs
<1> QED BY <1>5, <1>6, Zenon DEF x, y, r, k

\* The bytes that left the encoder, one by one.
LEMMA BytesAre ==
  ASSUME NEW e, Coder(e)
  PROVE  /\ Bytes(e) \in Seq(Octets)
         /\ Len(Bytes(e)) = Len(e.out) + One(e.rem) + e.ext
         /\ \A i \in 1 .. Len(e.out) : Bytes(e)[i] = e.out[i]
         /\ e.rem >= 0 => Bytes(e)[Len(e.out) + 1] = e.rem
         /\ \A i \in 1 .. e.ext : Bytes(e)[Len(e.out) + One(e.rem) + i] = SymMax
<1> DEFINE held == OneAndRun(e.rem, e.rem, e.ext, SymMax)
<1>1. e.rem \in -1 .. SymMax /\ e.rem \in Int /\ e.ext \in Nat /\ e.out \in Seq(Octets)
  BY Digits DEF Coder
<1>2. (e.rem >= 0 => e.rem \in Octets) /\ SymMax \in Octets
  BY <1>1, Digits
<1>3. /\ held \in Seq(Octets)
      /\ Len(held) = One(e.rem) + e.ext
      /\ e.rem >= 0 => held[1] = e.rem
      /\ \A i \in 1 .. e.ext : held[One(e.rem) + i] = SymMax
  <2> DEFINE r == e.rem
             k == e.ext
             y == SymMax
  <2>1. r \in Int /\ Fits(r, r) /\ y \in Octets /\ k \in Nat
    BY <1>1, <1>2 DEF Fits
  <2> HIDE DEF r, k, y
  <2>2. /\ OneAndRun(r, r, k, y) \in Seq(Octets)
        /\ Len(OneAndRun(r, r, k, y)) = One(r) + k
        /\ r >= 0 => OneAndRun(r, r, k, y)[1] = r
        /\ \A i \in 1 .. k : OneAndRun(r, r, k, y)[One(r) + i] = y
    BY <2>1, OneAndRunIs
  <2> QED BY <2>2, Zenon DEF r, k, y
<1>4. Bytes(e) = e.out \o held
  <2> DEFINE one == IF e.rem >= 0 THEN <<e.rem>> ELSE <<>>
             run == [i \in 1 .. e.ext |-> SymMax]
  <2>1. one \in Seq(Octets)
    <3>1. CASE e.rem >= 0
      <4> DEFINE x == e.rem
      <4>1. x \in Octets
        BY <1>1, <3>1 DEF Octets
      <4>2. one = <<x>>
        BY <3>1
      <4> HIDE DEF x, one
      <4> QED BY <4>1, <4>2
    <3>2. CASE ~(e.rem >= 0)
      <4>1. one = <<>>
        BY <3>2
      <4> HIDE DEF one
      <4> QED BY <4>1
    <3> QED BY <3>1, <3>2
  <2>2. run \in Seq(Octets)
    BY <1>1, <1>2
  <2>3. Bytes(e) = (e.out \o one) \o run /\ held = one \o run
    BY Zenon DEF Bytes, OneAndRun
  <2> HIDE DEF one, run, held
  <2>4. (e.out \o one) \o run = e.out \o (one \o run)
    <3> DEFINE o == e.out
    <3>1. o \in Seq(Octets)
      BY <1>1
    <3> HIDE DEF o
    <3>2. (o \o one) \o run = o \o (one \o run)
      BY <2>1, <2>2, <3>1, JoinThree
    <3> QED BY <3>2 DEF o
  <2> QED BY <2>3, <2>4, Zenon
<1> HIDE DEF held
<1>5. One(e.rem) \in Nat /\ (e.rem >= 0 => One(e.rem) = 1)
  BY <1>1 DEF One
<1> DEFINE o == e.out
<1>6. o \in Seq(Octets)
  BY <1>1
<1> HIDE DEF o
<1>7. /\ Bytes(e) \in Seq(Octets)
      /\ Len(o) \in Nat
      /\ Len(Bytes(e)) = Len(o) + Len(held)
      /\ \A i \in 1 .. Len(o) : Bytes(e)[i] = o[i]
      /\ \A i \in 1 .. Len(held) : Bytes(e)[Len(o) + i] = held[i]
  <2>1. Bytes(e) = o \o held
    BY <1>4 DEF o
  <2>2. held \in Seq(Octets)
    BY <1>3
  <2>3. /\ o \o held \in Seq(Octets)
        /\ Len(o) \in Nat
        /\ Len(o \o held) = Len(o) + Len(held)
        /\ \A i \in 1 .. Len(o) : (o \o held)[i] = o[i]
        /\ \A i \in 1 .. Len(held) : (o \o held)[Len(o) + i] = held[i]
    BY <1>6, <2>2, JoinIs
  <2> QED BY <2>1, <2>3
<1>8. Len(Bytes(e)) = Len(o) + One(e.rem) + e.ext
  BY <1>1, <1>3, <1>5, <1>7
<1>9. ASSUME e.rem >= 0 PROVE Bytes(e)[Len(o) + 1] = e.rem
  <2>1. 1 \in 1 .. Len(held)
    BY <1>1, <1>3, <1>5, <1>9
  <2> QED BY <1>3, <1>7, <1>9, <2>1
<1>10. ASSUME NEW i \in 1 .. e.ext PROVE Bytes(e)[Len(o) + One(e.rem) + i] = SymMax
  <2>1. held[One(e.rem) + i] = SymMax /\ One(e.rem) + i \in 1 .. Len(held)
    BY <1>1, <1>3, <1>5
  <2>2. Len(o) + One(e.rem) + i = Len(o) + (One(e.rem) + i)
    BY <1>1, <1>5, <1>7
  <2> QED BY <1>7, <2>1, <2>2
<1> QED BY <1>7, <1>8, <1>9, <1>10, Zenon DEF o

\* Bytes are numbers.
LEMMA OctetsAreNat ==
  ASSUME NEW s \in Seq(Octets)
  PROVE  s \in Seq(Nat)
<1>1. Octets \subseteq Nat
  BY Digits
<1>2. Len(s) \in Nat /\ \A i \in 1 .. Len(s) : s[i] \in Octets
  OBVIOUS
<1>3. \A i \in 1 .. Len(s) : s[i] \in Nat
  BY <1>1, <1>2
<1>4. s = [i \in 1 .. Len(s) |-> s[i]]
  OBVIOUS
<1> DEFINE n == Len(s)
           f(i) == s[i]
<1>5. [i \in 1 .. n |-> f(i)] \in Seq(Nat)
  <2>1. n \in Nat /\ \A i \in 1 .. n : f(i) \in Nat
    BY <1>2, <1>3
  <2> HIDE DEF n, f
  <2> QED BY <2>1
<1> QED BY <1>4, <1>5, Zenon

\* writeByte for each of some bytes.
LEMMA WriteIs ==
  ASSUME NEW e, Coder(e), NEW bs \in Seq(Octets)
  PROVE  LET w == writeBytes(e, bs)
         IN /\ Coder(w)
            /\ ~w.err => ~e.err /\ w.out = e.out \o bs
<1>1. /\ e \in [out : Seq(Octets), rng : Nat, val : Nat, rem : -1 .. SymMax, ext : Nat,
                err : BOOLEAN]
      /\ e.out \in Seq(Octets) /\ Len(e.out) \in Nat /\ Len(e.out) <= Storage
      /\ Storage \in Nat
  BY WidthsAssumption DEF Coder
<1> DEFINE room == Storage - Len(e.out)
           k == Least(room, Len(bs))
           put == SubSeq(bs, 1, k)
           w == writeBytes(e, bs)
<1>2. room \in Nat /\ Len(bs) \in Nat
  BY <1>1
<1>3. k \in Nat /\ k <= Len(bs) /\ k <= room /\ (~(Len(bs) > room) => k = Len(bs))
  BY <1>2 DEF Least
<1>4. w = [e EXCEPT !.out = e.out \o put, !.err = e.err \/ Len(bs) > room]
  BY Zenon DEF writeBytes
<1>5. put \in Seq(Octets) /\ Len(put) = k
  <2> HIDE DEF k
  <2> QED BY <1>2, <1>3
<1>6. (k = Len(bs)) => put = bs
  <2> HIDE DEF k
  <2> QED BY <1>2, <1>3
<1> HIDE DEF put, k
<1> DEFINE o == e.out
<1>7. o \o put \in Seq(Octets) /\ Len(o \o put) = Len(o) + Len(put)
  <2>1. o \in Seq(Octets)
    BY <1>1
  <2> HIDE DEF o
  <2> QED BY <1>5, <2>1, JoinIs
<1>8. w.out = o \o put /\ w.err = (e.err \/ Len(bs) > room)
  BY <1>1, <1>4
<1>9. (e.err \/ Len(bs) > room) \in BOOLEAN
  OBVIOUS
<1>10. w \in [out : Seq(Octets), rng : Nat, val : Nat, rem : -1 .. SymMax, ext : Nat,
              err : BOOLEAN]
  BY <1>1, <1>4, <1>7, <1>9
<1>11. Len(w.out) <= Storage
  BY <1>1, <1>3, <1>5, <1>7, <1>8
<1>12. ASSUME ~w.err PROVE ~e.err /\ w.out = e.out \o bs
  BY <1>3, <1>6, <1>8, <1>12
<1> QED BY <1>10, <1>11, <1>12 DEF Coder

\* What carryOut does, without its numbers.
LEMMA CarryOutIs ==
  ASSUME NEW e, Coder(e), NEW c \in Nat, c < 2 * Sym
  PROVE  LET f == carryOut(e, c)
         IN /\ Coder(f)
            /\ c = SymMax => f.out = e.out /\ f.rem = e.rem /\ f.ext = e.ext + 1 /\ f.err = e.err
            /\ c # SymMax => /\ f.rem = c % Sym /\ f.ext = 0
                             /\ ~f.err => ~e.err /\ f.out = e.out \o Held(e, c \div Sym)
<1> DEFINE f == carryOut(e, c)
<1>1. e \in [out : Seq(Octets), rng : Nat, val : Nat, rem : -1 .. SymMax, ext : Nat, err : BOOLEAN]
  BY DEF Coder
<1>2. CASE c = SymMax
  <2>1. f = [e EXCEPT !.ext = e.ext + 1]
    BY <1>2, Zenon DEF carryOut
  <2>2. Coder(f)
    BY <1>1, <2>1 DEF Coder
  <2> QED BY <1>1, <1>2, <2>1, <2>2
<1>3. CASE c # SymMax
  <2> DEFINE w == writeBytes(e, Held(e, c \div Sym))
  <2>1. c \div Sym \in {0, 1}
    <3>1. Sym \in Nat \ {0}
      BY Digits
    <3>2. c \div Sym \in Nat /\ c % Sym \in 0 .. Sym - 1 /\ c = (c \div Sym) * Sym + (c % Sym)
      BY <3>1, DivMod
    <3> DEFINE q == c \div Sym
    <3>3. q \in Nat /\ q * Sym < 2 * Sym
      BY <3>1, <3>2
    <3> HIDE DEF q
    <3>4. q < 2
      BY <3>1, <3>3, LessTimes
    <3> QED BY <3>3, <3>4 DEF q
  <2>2. Held(e, c \div Sym) \in Seq(Octets)
    BY <2>1, HeldBytes
  <2>3. Coder(w) /\ (~w.err => ~e.err /\ w.out = e.out \o Held(e, c \div Sym))
    BY <2>2, WriteIs
  <2>4. f = [w EXCEPT !.rem = c % Sym, !.ext = 0]
    BY <1>3, Zenon DEF carryOut, Held, OneAndRun
  <2>5. c % Sym \in -1 .. SymMax
    BY Digit, Digits
  <2> HIDE DEF w
  <2>6. w \in [out : Seq(Octets), rng : Nat, val : Nat, rem : -1 .. SymMax, ext : Nat, err : BOOLEAN]
    BY <2>3 DEF Coder
  <2> HIDE DEF f
  <2>7. f \in [out : Seq(Octets), rng : Nat, val : Nat, rem : -1 .. SymMax, ext : Nat, err : BOOLEAN]
    BY <2>4, <2>5, <2>6
  <2>8. f.out = w.out /\ f.err = w.err /\ f.rem = c % Sym /\ f.ext = 0
    BY <2>4, <2>6
  <2>9. Coder(f)
    BY <2>3, <2>7, <2>8 DEF Coder
  <2> QED BY <1>3, <2>3, <2>8, <2>9, Zenon DEF f
<1> QED BY <1>2, <1>3

-----------------------------------------------------------------------------
(* A byte leaves the coder. *)

\* The interval v .. v + w - 1 lies in the whole, or above it, where the byte that
\* was held back last has place for the carry.
InWhole(rem, v, w) ==
  /\ v \in Nat /\ w \in Nat \ {0} /\ rem \in -1 .. SymMax
  /\ v + w <= 2 * CodeTop - 1
  /\ rem \notin 0 .. SymMax - 1 => v + w <= CodeTop

\* A byte leaves the register, the rest moves up and stays below the whole.
LEMMA ByteLeaves ==
  ASSUME NEW v \in Nat
  PROVE  LET c == v \div CodeBot
             u == v % CodeBot
         IN /\ c \in Nat /\ u \in 0 .. CodeBot - 1 /\ v = c * CodeBot + u
            /\ (v * Sym) % CodeTop = u * Sym
            /\ v * Sym = c * CodeTop + u * Sym
            /\ u * Sym \in Nat /\ u * Sym <= CodeTop - Sym
<1> DEFINE c == v \div CodeBot
           u == v % CodeBot
           B == CodeBot
           T == CodeTop
           S == Sym
<1>1. B \in Nat \ {0} /\ T \in Nat \ {0} /\ T = B * S /\ S \in Nat \ {0, 1}
  BY Sizes, Digits
<1>2. c \in Nat /\ u \in 0 .. B - 1 /\ v = c * B + u
  BY <1>1, DivMod
<1> HIDE DEF c, u, B, T, S
<1>3. u * S <= (B - 1) * S /\ u * S \in Nat /\ (B - 1) * S = T - S
  BY <1>1, <1>2, Times
<1>4. v * S = c * T + u * S
  <2>1. v * S = (c * B) * S + u * S
    BY <1>1, <1>2
  <2>2. (c * B) * S = c * (B * S)
    BY <1>1, <1>2
  <2> QED BY <1>1, <2>1, <2>2
<1>5. (v * S) % T = u * S
  <2>1. v * S \in Nat /\ u * S \in 0 .. T - 1 /\ c \in Int
    BY <1>1, <1>2, <1>3
  <2> QED BY <1>1, <1>4, <2>1, DivModOf
<1>6. u * S <= T - S
  BY <1>1, <1>2, <1>3
<1> QED BY <1>2, <1>3, <1>4, <1>5, <1>6, Zenon DEF c, u, B, T, S

\* The whole, after a byte has left it: a carry has its place, and a held SymMax keeps it.
LEMMA WholeShift ==
  ASSUME NEW rem, NEW v, NEW w, InWhole(rem, v, w), w <= CodeBot
  PROVE  LET c == v \div CodeBot
             u == v % CodeBot
         IN /\ c \in Nat /\ c < 2 * Sym
            /\ c >= Sym => rem \in 0 .. SymMax - 1
            /\ c = SymMax => InWhole(rem, u * Sym, w * Sym)
            /\ c # SymMax => InWhole(c % Sym, u * Sym, w * Sym)
<1> DEFINE c == v \div CodeBot
           u == v % CodeBot
           B == CodeBot
           T == CodeTop
           S == Sym
           M == SymMax
           x == u * S
           y == w * S
<1>1. /\ B \in Nat \ {0} /\ T \in Nat \ {0} /\ T = B * S /\ S \in Nat \ {0, 1}
      /\ M = S - 1
  BY Sizes, Digits
<1>2. /\ v \in Nat /\ w \in Nat \ {0} /\ rem \in -1 .. M
      /\ v + w <= 2 * T - 1
      /\ rem \notin 0 .. M - 1 => v + w <= T
      /\ w <= B
  BY DEF InWhole
<1>3. /\ c \in Nat /\ u \in 0 .. B - 1 /\ v = c * B + u
      /\ v * S = c * T + x
      /\ x \in Nat /\ x <= T - S
  BY <1>2, ByteLeaves
<1>4. c % S \in 0 .. S - 1 /\ c = (c \div S) * S + (c % S) /\ c \div S \in Nat
  <2> HIDE DEF c, S
  <2> QED BY <1>1, <1>3, DivMod
<1> DEFINE q == c \div S
           r == c % S
<1>5. q \in Nat /\ r \in 0 .. S - 1 /\ c = q * S + r
  BY <1>4
<1>6. y \in Nat \ {0} /\ y <= T
  <2> HIDE DEF c, u, B, T, S, M
  <2>1. w * S <= B * S /\ w * S \in Nat \ {0}
    BY <1>1, <1>2, Times
  <2> QED BY <1>1, <2>1
<1>7. (v + w) * S = c * T + x + y
  <2> HIDE DEF c, B, T, S, M, x
  <2>1. (v + w) * S = v * S + w * S
    BY <1>1, <1>2
  <2> QED BY <1>3, <2>1
<1>8. (v + w) * S <= (2 * T - 1) * S /\ (2 * T - 1) * S = (2 * S) * T - S
  <2> HIDE DEF c, u, B, T, S, M
  <2> QED BY <1>1, <1>2, Times
<1> HIDE DEF c, u, B, T, S, M, x, y, q, r
<1>9. c < 2 * S
  <2>1. c * B <= v /\ 2 * T = (2 * S) * B
    BY <1>1, <1>2, <1>3
  <2>2. c * B < (2 * S) * B
    BY <1>1, <1>2, <1>3, <2>1
  <2> QED BY <1>1, <1>3, <2>2, LessTimes
<1>10. ASSUME c >= S PROVE rem \in 0 .. M - 1
  <2>1. S * B <= c * B
    BY <1>1, <1>3, <1>10, Times
  <2>2. v >= T
    BY <1>1, <1>2, <1>3, <2>1
  <2> QED BY <1>1, <1>2, <2>2
<1>11. x + y <= 2 * T - 1
  BY <1>1, <1>3, <1>6
<1>12. ASSUME c = M PROVE InWhole(rem, x, y)
  <2>1. ASSUME rem \notin 0 .. M - 1 PROVE x + y <= T
    <3>1. (v + w) * S <= T * S
      BY <1>1, <1>2, <2>1, Times
    <3>2. M * T = T * S - T
      BY <1>1
    <3>3. c * T = T * S - T
      BY <1>12, <3>2
    <3> DEFINE a == T * S
               b == (v + w) * S
               d == c * T
    <3>4. a \in Int /\ b \in Int /\ d \in Int
      BY <1>1, <1>2, <1>3
    <3>5. b <= a /\ d = a - T /\ b = d + x + y
      BY <3>1, <3>3, <1>7
    <3> HIDE DEF a, b, d
    <3> QED BY <1>1, <1>3, <1>6, <3>4, <3>5
  <2> QED BY <1>2, <1>3, <1>6, <1>11, <2>1 DEF InWhole, T, M
<1>13. ASSUME c # M PROVE InWhole(r, x, y)
  <2>1. ASSUME r \notin 0 .. M - 1 PROVE x + y <= T
    <3>1. r = S - 1 /\ q # 0
      BY <1>1, <1>5, <1>13, <2>1
    <3>2. q = 1
      <4>1. q * S < 2 * S
        BY <1>5, <1>9, <1>1
      <4>2. q < 2
        BY <1>1, <1>5, <4>1, LessTimes
      <4> QED BY <1>5, <3>1, <4>2
    <3>3. c = 2 * S - 1
      BY <1>1, <1>5, <3>1, <3>2
    <3>4. c * T = (2 * S) * T - T
      BY <1>1, <3>3
    <3> DEFINE a == (2 * S) * T
               b == (v + w) * S
               d == c * T
    <3>5. a \in Int /\ b \in Int /\ d \in Int
      BY <1>1, <1>2, <1>3
    <3>6. b <= a - S /\ d = a - T /\ b = d + x + y
      BY <1>8, <3>4, <1>7
    <3> HIDE DEF a, b, d
    <3> QED BY <1>1, <1>3, <1>6, <3>5, <3>6
  <2>2. r \in -1 .. M
    BY <1>1, <1>5
  <2> QED BY <1>3, <1>6, <1>11, <2>1, <2>2 DEF InWhole, T, M
<1> QED BY <1>3, <1>9, <1>10, <1>12, <1>13, Zenon DEF c, u, S, M, x, y, r

\* Below the modulus nothing changes.
LEMMA SmallMod ==
  ASSUME NEW a \in Octets
  PROVE  a % Sym = a
<1>1. a \in Nat /\ Sym \in Nat \ {0} /\ a \in 0 .. Sym - 1 /\ a = 0 * Sym + a
  BY Digits
<1> QED BY <1>1, DivModOf

\* At the modulus it is zero.
LEMMA FullMod ==
  (SymMax + 1) % Sym = 0
<1>1. SymMax + 1 \in Nat /\ Sym \in Nat \ {0} /\ 0 \in 0 .. Sym - 1 /\ SymMax + 1 = 1 * Sym + 0
  BY Digits
<1> QED BY <1>1, DivModOf

\* What Byte reads of the encoder's bytes.
LEMMA ByteOfBytes ==
  ASSUME NEW e, Coder(e)
  PROVE  LET n == Len(e.out)
             k == n + One(e.rem)
         IN /\ n \in Nat /\ k \in Nat /\ e.ext \in Nat /\ (e.rem >= 0 => k = n + 1)
            /\ e.out \in Seq(Nat) /\ Bytes(e) \in Seq(Nat)
            /\ Len(Bytes(e)) = k + e.ext
            /\ \A i \in 1 .. n : Byte(Bytes(e), i) = Byte(e.out, i)
            /\ e.rem >= 0 => Byte(Bytes(e), n + 1) = e.rem
            /\ \A i \in 1 .. e.ext : Byte(Bytes(e), k + i) = SymMax
<1> DEFINE o == e.out
           r == e.rem
           x == e.ext
           s == Bytes(e)
           n == Len(o)
           k == n + One(r)
<1>1. o \in Seq(Octets) /\ r \in -1 .. SymMax /\ x \in Nat
  BY DEF Coder
<1>2. /\ s \in Seq(Octets)
      /\ Len(s) = n + One(r) + x
      /\ \A i \in 1 .. n : s[i] = o[i]
      /\ r >= 0 => s[n + 1] = r
      /\ \A i \in 1 .. x : s[n + One(r) + i] = SymMax
  BY BytesAre
<1> HIDE DEF o, r, x, s
<1>3. n \in Nat /\ One(r) \in {0, 1} /\ (r >= 0 => One(r) = 1)
  BY <1>1 DEF One
<1>4. k \in Nat /\ (r >= 0 => k = n + 1) /\ Len(s) = k + x
  BY <1>2, <1>3
<1>5. o \in Seq(Nat) /\ s \in Seq(Nat)
  BY <1>1, <1>2, OctetsAreNat
<1>6. \A i \in 1 .. n : Byte(s, i) = Byte(o, i)
  <2> SUFFICES ASSUME NEW i \in 1 .. n PROVE Byte(s, i) = Byte(o, i)
    OBVIOUS
  <2>1. i \in 1 .. Len(s)
    BY <1>1, <1>3, <1>4
  <2> QED BY <1>2, <2>1 DEF Byte
<1>7. ASSUME r >= 0 PROVE Byte(s, n + 1) = r
  <2>1. n + 1 \in 1 .. Len(s)
    BY <1>1, <1>3, <1>4, <1>7
  <2> QED BY <1>2, <1>7, <2>1 DEF Byte
<1>8. ASSUME NEW i \in 1 .. x PROVE Byte(s, k + i) = SymMax
  <2>1. k + i \in 1 .. Len(s)
    BY <1>1, <1>3, <1>4
  <2>2. s[k + i] = SymMax
    BY <1>2
  <2> QED BY <2>1, <2>2 DEF Byte
<1> QED BY <1>1, <1>3, <1>4, <1>5, <1>6, <1>7, <1>8, Zenon DEF o, r, x, s

\* What Byte reads of the bytes that carryOut writes.
LEMMA ByteOfHeld ==
  ASSUME NEW e, Coder(e), NEW carry \in {0, 1}
  PROVE  LET n == Len(e.out)
             k == n + One(e.rem)
             t == e.out \o Held(e, carry)
         IN /\ t \in Seq(Octets) /\ Len(t) = k + e.ext
            /\ \A i \in 1 .. n : Byte(t, i) = Byte(e.out, i)
            /\ e.rem >= 0 => Byte(t, n + 1) = (e.rem + carry) % Sym
            /\ \A i \in 1 .. e.ext : Byte(t, k + i) = (SymMax + carry) % Sym
<1> DEFINE o == e.out
           r == e.rem
           x == e.ext
           h == Held(e, carry)
           n == Len(o)
           k == n + One(r)
           t == o \o h
           y == (r + carry) % Sym
           z == (SymMax + carry) % Sym
<1>1. o \in Seq(Octets) /\ r \in -1 .. SymMax /\ x \in Nat
  BY DEF Coder
<1>2. /\ h \in Seq(Octets)
      /\ Len(h) = One(r) + x
      /\ r >= 0 => h[1] = y
      /\ \A i \in 1 .. x : h[One(r) + i] = z
  BY HeldBytes
<1> HIDE DEF o, r, x, h, y, z
<1>3. /\ t \in Seq(Octets)
      /\ Len(o) \in Nat /\ Len(h) \in Nat
      /\ Len(t) = Len(o) + Len(h)
      /\ \A i \in 1 .. Len(o) : t[i] = o[i]
      /\ \A i \in 1 .. Len(h) : t[Len(o) + i] = h[i]
  BY <1>1, <1>2, JoinIs
<1> HIDE DEF t
<1>4. One(r) \in {0, 1} /\ (r >= 0 => One(r) = 1)
  BY <1>1 DEF One
<1>5. Len(t) = k + x
  BY <1>1, <1>2, <1>3, <1>4
<1>6. \A i \in 1 .. n : Byte(t, i) = Byte(o, i)
  <2> SUFFICES ASSUME NEW i \in 1 .. n PROVE Byte(t, i) = Byte(o, i)
    OBVIOUS
  <2>1. i \in 1 .. Len(t)
    BY <1>3
  <2> QED BY <1>3, <2>1 DEF Byte
<1>7. ASSUME r >= 0 PROVE Byte(t, n + 1) = y
  <2>1. n + 1 \in 1 .. Len(t) /\ 1 \in 1 .. Len(h)
    BY <1>1, <1>2, <1>3, <1>4, <1>7
  <2> QED BY <1>2, <1>3, <1>7, <2>1 DEF Byte
<1>8. ASSUME NEW i \in 1 .. x PROVE Byte(t, k + i) = z
  <2>1. k + i \in 1 .. Len(t) /\ One(r) + i \in 1 .. Len(h) /\ k + i = Len(o) + (One(r) + i)
    BY <1>1, <1>2, <1>3, <1>4
  <2>2. t[Len(o) + (One(r) + i)] = h[One(r) + i]
    BY <1>3, <2>1
  <2>3. t[k + i] = z
    BY <1>2, <2>1, <2>2
  <2> QED BY <2>1, <2>3 DEF Byte
<1> QED BY <1>3, <1>5, <1>6, <1>7, <1>8, Zenon DEF o, r, x, h, y, z, t

\* The bytes held back, released with a carry, make a number one higher.
LEMMA Released ==
  ASSUME NEW e, Coder(e), NEW carry \in {0, 1}, carry = 1 => e.rem \in 0 .. SymMax - 1
  PROVE  LET n == Len(Bytes(e))
         IN Number(e.out \o Held(e, carry))[n] = Number(Bytes(e))[n] + carry
<1> DEFINE o == e.out
           r == e.rem
           x == e.ext
           s == Bytes(e)
           n == Len(o)
           k == n + One(r)
           t == o \o Held(e, carry)
<1>1. r \in -1 .. SymMax
  BY DEF Coder
<1>2. /\ n \in Nat /\ k \in Nat /\ x \in Nat /\ (r >= 0 => k = n + 1)
      /\ s \in Seq(Nat)
      /\ Len(s) = k + x
      /\ \A i \in 1 .. n : Byte(s, i) = Byte(o, i)
      /\ r >= 0 => Byte(s, n + 1) = r
      /\ \A i \in 1 .. x : Byte(s, k + i) = SymMax
  BY ByteOfBytes, Zenon
<1>3. /\ t \in Seq(Octets)
      /\ \A i \in 1 .. n : Byte(t, i) = Byte(o, i)
      /\ r >= 0 => Byte(t, n + 1) = (r + carry) % Sym
      /\ \A i \in 1 .. x : Byte(t, k + i) = (SymMax + carry) % Sym
  BY ByteOfHeld, Zenon
<1>4. t \in Seq(Nat)
  <2> HIDE DEF t
  <2> QED BY <1>3, OctetsAreNat
<1>5. r < 0 => k = n
  <2> HIDE DEF n, r
  <2> QED BY <1>1, <1>2 DEF One
<1>6. carry = 1 => r \in 0 .. SymMax - 1
  OBVIOUS
<1> HIDE DEF o, r, x, s, n, k, t
<1>7. Number(s)[k + x] \in Nat
  <2>1. k + x \in Nat /\ s \in Seq(Nat)
    BY <1>2
  <2>2. Number(s) \in [Nat -> Nat]
    BY <2>1, NumberLaw, Zenon
  <2> QED BY <2>1, <2>2
<1>8. CASE carry = 0
  <2>1. ASSUME NEW i \in 1 .. k + x PROVE Byte(t, i) = Byte(s, i)
    <3>1. CASE i \in 1 .. n
      BY <1>2, <1>3, <3>1
    <3>2. CASE i \notin 1 .. n /\ i <= k
      <4>1. r >= 0 /\ i = n + 1
        BY <1>1, <1>2, <1>5, <3>2
      <4>2. r \in Octets
        BY <1>1, <4>1, Digits
      <4>3. (r + carry) % Sym = r
        BY <1>8, <4>2, SmallMod, Digits
      <4> QED BY <1>2, <1>3, <4>1, <4>3
    <3>3. CASE i > k
      <4>1. i - k \in 1 .. x /\ k + (i - k) = i
        BY <1>2, <3>3
      <4>2. (SymMax + carry) % Sym = SymMax
        BY <1>8, SmallMod, Digits
      <4> QED BY <1>2, <1>3, <4>1, <4>2
    <3> QED BY <1>2, <3>1, <3>2, <3>3
  <2>2. k + x \in Nat
    BY <1>2
  <2>3. Number(t)[k + x] = Number(s)[k + x]
    BY <1>2, <1>4, <2>1, <2>2, SamePrefix
  <2> QED BY <1>2, <1>7, <1>8, <2>3 DEF o, r, x, s, n, k, t
<1>9. CASE carry = 1
  <2>1. r \in 0 .. SymMax - 1 /\ k = n + 1
    BY <1>2, <1>6, <1>9
  <2>2. (r + carry) % Sym = r + 1
    <3>1. r + 1 \in Octets
      BY <2>1, Digits
    <3> QED BY <1>9, <3>1, SmallMod
  <2>3. (SymMax + carry) % Sym = 0
    BY <1>9, FullMod
  <2>4. \A i \in 1 .. n : Byte(s, i) = Byte(t, i)
    BY <1>2, <1>3
  <2>5. Byte(t, n + 1) = Byte(s, n + 1) + 1
    BY <1>2, <1>3, <2>1, <2>2
  <2>6. \A i \in 1 .. x : Byte(s, n + 1 + i) = SymMax /\ Byte(t, n + 1 + i) = 0
    BY <1>2, <1>3, <2>1, <2>3
  <2>7. Number(t)[n + 1 + x] = Number(s)[n + 1 + x] + 1
    BY <1>2, <1>4, <2>4, <2>5, <2>6, CarryRuns
  <2> QED BY <1>2, <1>9, <2>1, <2>7 DEF o, r, x, s, n, k, t
<1> QED BY <1>8, <1>9

\* A byte that leaves, carry included, is appended to the number.
LEMMA CarryOutNumber ==
  ASSUME NEW e, Coder(e), NEW c \in Nat, c < 2 * Sym, c >= Sym => e.rem \in 0 .. SymMax - 1,
         ~carryOut(e, c).err
  PROVE  LET n == Len(Bytes(e))
             f == carryOut(e, c)
         IN /\ ~e.err
            /\ n \in Nat /\ Len(Bytes(f)) = n + 1
            /\ Number(Bytes(f))[n + 1] = Number(Bytes(e))[n] * Sym + c
<1> DEFINE f == carryOut(e, c)
           s == Bytes(e)
           t == Bytes(f)
           n == Len(s)
           o == Len(e.out)
           k == o + One(e.rem)
           x == e.ext
<1>1. /\ Coder(f)
      /\ c = SymMax => f.out = e.out /\ f.rem = e.rem /\ f.ext = e.ext + 1 /\ f.err = e.err
      /\ c # SymMax => /\ f.rem = c % Sym /\ f.ext = 0
                       /\ ~f.err => ~e.err /\ f.out = e.out \o Held(e, c \div Sym)
  BY CarryOutIs
<1>2. /\ o \in Nat /\ k \in Nat /\ x \in Nat /\ (e.rem >= 0 => k = o + 1)
      /\ s \in Seq(Nat) /\ n = k + x
      /\ \A i \in 1 .. o : Byte(s, i) = Byte(e.out, i)
      /\ e.rem >= 0 => Byte(s, o + 1) = e.rem
      /\ \A i \in 1 .. x : Byte(s, k + i) = SymMax
  BY ByteOfBytes, Zenon
<1>3. e.rem \in -1 .. SymMax /\ (e.rem < 0 => k = o)
  BY <1>2 DEF Coder, One
<1>4. c \div Sym \in {0, 1} /\ c % Sym \in Octets /\ c = (c \div Sym) * Sym + (c % Sym)
      /\ (c \div Sym = 1 => c >= Sym)
  <2> DEFINE q == c \div Sym
             r == c % Sym
  <2>1. Sym \in Nat \ {0}
    BY Digits
  <2>2. q \in Nat /\ r \in 0 .. Sym - 1 /\ c = q * Sym + r
    BY <2>1, DivMod
  <2> HIDE DEF q, r
  <2>3. q * Sym < 2 * Sym
    BY <2>1, <2>2
  <2>4. q < 2
    BY <2>1, <2>2, <2>3, LessTimes
  <2>5. q \in {0, 1} /\ (q = 1 => c >= Sym)
    BY <2>1, <2>2, <2>4
  <2>6. r \in Octets
    BY <2>2, Digits
  <2> QED BY <2>2, <2>5, <2>6 DEF q, r
<1>5. CASE c = SymMax
  <2>1. f.out = e.out /\ f.rem = e.rem /\ f.ext = x + 1 /\ ~e.err
    BY <1>1, <1>5
  <2>2. /\ t \in Seq(Nat) /\ Len(t) = k + (x + 1)
        /\ \A i \in 1 .. o : Byte(t, i) = Byte(e.out, i)
        /\ e.rem >= 0 => Byte(t, o + 1) = e.rem
        /\ \A i \in 1 .. x + 1 : Byte(t, k + i) = SymMax
    <3> HIDE DEF f
    <3>1. /\ t \in Seq(Nat) /\ Len(t) = Len(f.out) + One(f.rem) + f.ext
          /\ \A i \in 1 .. Len(f.out) : Byte(t, i) = Byte(f.out, i)
          /\ f.rem >= 0 => Byte(t, Len(f.out) + 1) = f.rem
          /\ \A i \in 1 .. f.ext : Byte(t, Len(f.out) + One(f.rem) + i) = SymMax
      BY <1>1, ByteOfBytes, Zenon
    <3> QED BY <2>1, <3>1
  <2> HIDE DEF f, s, t, n, o, k, x
  <2>3. ASSUME NEW i \in 1 .. n PROVE Byte(t, i) = Byte(s, i)
    <3>1. CASE i \in 1 .. o
      BY <1>2, <2>2, <3>1
    <3>2. CASE i \notin 1 .. o /\ i <= k
      <4>1. e.rem >= 0 /\ i = o + 1
        BY <1>2, <1>3, <3>2
      <4> QED BY <1>2, <2>2, <4>1
    <3>3. CASE i > k
      <4>1. i - k \in 1 .. x /\ i - k \in 1 .. x + 1 /\ k + (i - k) = i
        BY <1>2, <3>3
      <4> QED BY <1>2, <2>2, <4>1
    <3> QED BY <1>2, <3>1, <3>2, <3>3
  <2>4. n \in Nat /\ Len(t) = n + 1
    BY <1>2, <2>2
  <2>5. Number(t)[n] = Number(s)[n]
    BY <1>2, <2>2, <2>3, <2>4, SamePrefix
  <2>6. Byte(t, n + 1) = SymMax
    <3>1. x + 1 \in 1 .. x + 1 /\ k + (x + 1) = n + 1
      BY <1>2
    <3> QED BY <2>2, <3>1
  <2>7. Number(t)[n + 1] = Number(t)[n] * Sym + Byte(t, n + 1)
    BY <2>2, <2>4, NumberLaw, Zenon
  <2> QED BY <1>5, <2>1, <2>4, <2>5, <2>6, <2>7 DEF f, s, t, n
<1>6. CASE c # SymMax
  <2> DEFINE w == e.out \o Held(e, c \div Sym)
  <2>1. f.out = w /\ f.rem = c % Sym /\ f.ext = 0 /\ ~e.err
    BY <1>1, <1>6
  <2>2. Number(w)[n] = Number(s)[n] + (c \div Sym)
    BY <1>4, Released
  <2>3. w \in Seq(Octets) /\ Len(w) = n
    <3>1. w \in Seq(Octets) /\ Len(w) = k + x
      BY <1>4, ByteOfHeld, Zenon
    <3> QED BY <1>2, <3>1
  <2>4. /\ t \in Seq(Nat) /\ Len(t) = n + 1
        /\ \A i \in 1 .. n : Byte(t, i) = Byte(w, i)
        /\ Byte(t, n + 1) = c % Sym
    <3> HIDE DEF f
    <3>1. /\ t \in Seq(Nat) /\ Len(t) = Len(f.out) + One(f.rem) + f.ext
          /\ \A i \in 1 .. Len(f.out) : Byte(t, i) = Byte(f.out, i)
          /\ f.rem >= 0 => Byte(t, Len(f.out) + 1) = f.rem
      BY <1>1, ByteOfBytes, Zenon
    <3>2. f.rem >= 0 /\ One(f.rem) = 1
      BY <1>4, <2>1, Digits DEF One
    <3>3. n \in Nat
      BY <1>2
    <3> HIDE DEF w, n
    <3> QED BY <2>1, <2>3, <3>1, <3>2, <3>3
  <2> HIDE DEF f, s, t, n, o, k, x, w
  <2>5. w \in Seq(Nat) /\ n \in Nat
    BY <1>2, <2>3, OctetsAreNat
  <2>6. Number(t)[n] = Number(w)[n]
    BY <2>4, <2>5, SamePrefix
  <2>7. Number(t)[n + 1] = Number(t)[n] * Sym + Byte(t, n + 1)
    BY <2>4, <2>5, NumberLaw, Zenon
  <2> DEFINE a == Number(s)[n]
             q == c \div Sym
             r == c % Sym
  <2>8. a \in Nat /\ Sym \in Nat
    BY <1>2, <2>5, NumberLaw, Digits
  <2>9. Number(t)[n + 1] = (a + q) * Sym + r /\ q \in Nat /\ r \in Nat /\ c = q * Sym + r
    BY <1>4, <2>2, <2>4, <2>6, <2>7, Digits
  <2> HIDE DEF a, q, r
  <2>10. (a + q) * Sym = a * Sym + q * Sym /\ a * Sym \in Nat /\ q * Sym \in Nat
    BY <2>8, <2>9
  <2>11. Number(t)[n + 1] = a * Sym + c
    BY <2>9, <2>10
  <2> QED BY <2>1, <2>4, <2>5, <2>11 DEF f, s, t, n, a
<1> QED BY <1>5, <1>6

-----------------------------------------------------------------------------
(* A part of the interval. *)

From(rng, fl, ft) == IF fl > 0 THEN rng - (rng \div ft) * (ft - fl) ELSE 0
Span(rng, fl, fh, ft) == IF fl > 0 THEN (rng \div ft) * (fh - fl)
                                   ELSE rng - (rng \div ft) * (ft - fh)

\* The part fl .. fh of ft.
IsPart(fl, fh, ft) ==
  fl \in Nat /\ fh \in Nat /\ ft \in Nat /\ fl < fh /\ fh <= ft

\* Where it begins and how wide it is: r is the unit, and b what is above it.
PartLaw(rng, fl, fh, ft, r, d, w, b) ==
  /\ r \in Nat \ {0} /\ d \in Nat /\ w \in Nat \ {0} /\ b \in Nat
  /\ d + w = rng - b
  /\ w <= rng
  /\ r * ft <= rng
  /\ fl > 0 => d = rng - r * (ft - fl) /\ w = r * (fh - fl)
  /\ ~(fl > 0) => fl = 0 /\ d = 0

\* A part of the interval lies in it and is not empty.
LEMMA PartIs ==
  ASSUME NEW rng \in Nat, NEW fl, NEW fh, NEW ft, IsPart(fl, fh, ft), ft <= rng
  PROVE  PartLaw(rng, fl, fh, ft, rng \div ft, From(rng, fl, ft), Span(rng, fl, fh, ft),
                 (rng \div ft) * (ft - fh))
<1> DEFINE r == rng \div ft
<1>1. fl \in Nat /\ fh \in Nat /\ ft \in Nat \ {0} /\ fl < fh /\ fh <= ft
  BY DEF IsPart
<1>2. r \in Nat /\ rng % ft \in 0 .. ft - 1 /\ rng = r * ft + (rng % ft)
  BY <1>1, DivMod
<1>3. r * ft \in Nat /\ r * ft <= rng
  <2> DEFINE m == rng % ft
  <2>1. m \in Nat /\ rng = r * ft + m
    BY <1>1, <1>2
  <2> HIDE DEF r, m
  <2> QED BY <1>1, <1>2, <2>1
<1>4. r # 0
  <2> SUFFICES ASSUME r = 0 PROVE FALSE
    OBVIOUS
  <2>1. r * ft = 0
    <3> HIDE DEF r
    <3> QED BY <1>1
  <2> QED BY <1>1, <1>2, <2>1
<1> DEFINE b == r * (ft - fh)
           a == r * (ft - fl)
           g == r * (fh - fl)
           d == From(rng, fl, ft)
           w == Span(rng, fl, fh, ft)
<1>5. (fl > 0 => d = rng - a /\ w = g) /\ (~(fl > 0) => d = 0 /\ w = rng - b)
  BY DEF From, Span
<1> HIDE DEF r, d, w
<1>6. /\ a \in Nat /\ b \in Nat /\ g \in Nat \ {0} /\ a = b + g
      /\ a <= r * ft /\ r * fh \in Nat \ {0} /\ b = r * ft - r * fh
  <2>1. a \in Nat /\ b \in Nat /\ g \in Nat /\ r * fh \in Nat
    BY <1>1, <1>2
  <2>2. r * 1 <= r * (fh - fl) /\ r * 1 <= r * fh
    BY <1>1, <1>2
  <2>3. a = b + g /\ b = r * ft - r * fh
    BY <1>1, <1>2
  <2>4. a = r * ft - r * fl /\ r * fl \in Nat
    BY <1>1, <1>2
  <2> QED BY <1>2, <1>3, <1>4, <2>1, <2>2, <2>3, <2>4
<1> DEFINE k == r * ft
           h == r * fh
<1>7. k \in Nat /\ k <= rng /\ a <= k /\ h \in Nat \ {0} /\ b = k - h
  BY <1>3, <1>6
<1> HIDE DEF a, b, g, k, h
<1>8. d \in Nat /\ w \in Nat \ {0} /\ d + w = rng - b /\ w <= rng
  <2>1. CASE fl > 0
    BY <1>5, <1>6, <1>7, <2>1
  <2>2. CASE ~(fl > 0)
    BY <1>5, <1>6, <1>7, <2>2
  <2> QED BY <2>1, <2>2
<1>9. ~(fl > 0) => fl = 0 /\ d = 0
  BY <1>1, <1>5
<1>10. PartLaw(rng, fl, fh, ft, r, d, w, b)
  BY <1>2, <1>4, <1>5, <1>6, <1>7, <1>8, <1>9, Zenon DEF a, g, k, PartLaw
<1> QED BY <1>10, Zenon DEF r, b, d, w

\* What lies in the interval lies in the whole.
LEMMA PartOfWhole ==
  ASSUME NEW rem, NEW v, NEW w, InWhole(rem, v, w), NEW d \in Nat, NEW x \in Nat \ {0}, d + x <= w
  PROVE  InWhole(rem, v + d, x) /\ v + d < Two[CodeBits]
<1>1. CodeTop \in Nat /\ Two[CodeBits] = 2 * CodeTop
  BY Sizes
<1>2. /\ v \in Nat /\ w \in Nat \ {0} /\ rem \in -1 .. SymMax
      /\ v + w <= 2 * CodeTop - 1
      /\ rem \notin 0 .. SymMax - 1 => v + w <= CodeTop
  BY DEF InWhole
<1> QED BY <1>1, <1>2 DEF InWhole

\* What select does: the part of the interval, and no overflow of the register.
LEMMA SelectIs ==
  ASSUME NEW e, Coder(e), InWhole(e.rem, e.val, e.rng),
         NEW fl, NEW fh, NEW ft, IsPart(fl, fh, ft), ft <= e.rng
  PROVE  LET f == select(e, fl, fh, ft)
         IN /\ Coder(f) /\ Bytes(f) = Bytes(e) /\ f.err = e.err
            /\ f.val = e.val + From(e.rng, fl, ft)
            /\ f.rng = Span(e.rng, fl, fh, ft)
            /\ f.rng <= e.rng
            /\ InWhole(f.rem, f.val, f.rng)
<1> DEFINE f == select(e, fl, fh, ft)
           r == e.rng \div ft
           v == e.val
           w == e.rng
           d == From(w, fl, ft)
           x == Span(w, fl, fh, ft)
<1>1. /\ e \in [out : Seq(Octets), rng : Nat, val : Nat, rem : -1 .. SymMax, ext : Nat,
                err : BOOLEAN]
      /\ Len(e.out) <= Storage
  BY DEF Coder
<1>2. w \in Nat /\ v \in Nat
  BY <1>1
<1>3. /\ r \in Nat \ {0} /\ d \in Nat /\ x \in Nat \ {0} /\ r * (ft - fh) \in Nat
      /\ d + x = w - r * (ft - fh)
      /\ x <= w
      /\ fl > 0 => d = w - r * (ft - fl) /\ x = r * (fh - fl)
      /\ ~(fl > 0) => fl = 0 /\ d = 0
  <2> HIDE DEF w
  <2>1. w \in Nat /\ ft <= w
    BY <1>2 DEF w
  <2>2. PartLaw(w, fl, fh, ft, w \div ft, From(w, fl, ft), Span(w, fl, fh, ft), (w \div ft) * (ft - fh))
    BY <2>1, PartIs
  <2>3. PartLaw(w, fl, fh, ft, r, d, x, r * (ft - fh))
    BY <2>2, Zenon DEF w
  <2> QED BY <2>3, Zenon DEF PartLaw
<1>4. d + x <= w
  <2> DEFINE b == r * (ft - fh)
  <2>1. b \in Nat /\ d + x = w - b
    BY <1>3
  <2> HIDE DEF b, d, x, w
  <2> QED BY <1>2, <2>1
<1>5. InWhole(e.rem, v + d, x) /\ v + d < Two[CodeBits]
  <2>1. InWhole(e.rem, v, w) /\ d \in Nat /\ x \in Nat \ {0} /\ d + x <= w
    BY <1>3, <1>4
  <2> HIDE DEF v, w, d, x
  <2> QED BY <2>1, PartOfWhole
<1>6. (v + d) % Two[CodeBits] = v + d
  <2> HIDE DEF v, d
  <2>1. v + d \in Nat
    BY <1>2, <1>3
  <2>2. Two[CodeBits] \in Nat \ {0}
    BY Sizes
  <2> DEFINE m == Two[CodeBits]
             y == v + d
  <2>3. m \in Nat \ {0} /\ y \in Nat /\ y < m
    BY <1>5, <2>1, <2>2
  <2> HIDE DEF m, y
  <2>4. y % m = y
    BY <2>3
  <2> QED BY <2>4 DEF m, y
<1>7. f = [e EXCEPT !.val = v + d, !.rng = x]
  <2>1. CASE fl > 0
    <3>1. f = [e EXCEPT !.val = (v + w - r * (ft - fl)) % Two[CodeBits], !.rng = r * (fh - fl)]
      BY <2>1, Zenon DEF select
    <3>2. v + w - r * (ft - fl) = v + d
      <4> DEFINE a == r * (ft - fl)
      <4>1. d = w - a /\ d \in Nat
        BY <1>3, <2>1
      <4>2. a \in Int
        <5>1. ft \in Int /\ fl \in Int
          BY DEF IsPart
        <5> HIDE DEF r
        <5> QED BY <1>3, <5>1
      <4> HIDE DEF a, d, v, w
      <4> QED BY <1>2, <4>1, <4>2 DEF a
    <3> QED BY <1>3, <1>6, <2>1, <3>1, <3>2, Zenon
  <2>2. CASE ~(fl > 0)
    <3>1. f = [e EXCEPT !.rng = w - r * (ft - fh)]
      BY <2>2, Zenon DEF select
    <3>2. x = w - r * (ft - fh)
      BY <2>2, Zenon DEF Span
    <3>3. v + d = e.val
      BY <1>2, <1>3, <2>2
    <3> HIDE DEF f, x, v, d
    <3>4. f = [e EXCEPT !.rng = x]
      BY <3>1, <3>2, Zenon
    <3> QED BY <1>1, <3>3, <3>4
  <2> QED BY <2>1, <2>2
<1> HIDE DEF f
<1> DEFINE z == v + d
<1>8. z \in Nat /\ f = [e EXCEPT !.val = z, !.rng = x] /\ x \in Nat
  BY <1>2, <1>3, <1>7
<1> HIDE DEF z, x
<1>9. /\ f.out = e.out /\ f.rem = e.rem /\ f.ext = e.ext /\ f.err = e.err /\ f.val = z /\ f.rng = x
      /\ f \in [out : Seq(Octets), rng : Nat, val : Nat, rem : -1 .. SymMax, ext : Nat,
                err : BOOLEAN]
  BY <1>1, <1>8
<1>10. Coder(f) /\ Bytes(f) = Bytes(e)
  BY <1>1, <1>9 DEF Coder, Bytes
<1> QED BY <1>3, <1>5, <1>9, <1>10, Zenon DEF f, z, x

\* What a turn of normalize does, and one of the loop of Done.
LEMMA ShiftIs ==
  ASSUME NEW e, Coder(e), NEW v, NEW w, InWhole(e.rem, v, w), w <= CodeBot
  PROVE  LET c == v \div CodeBot
             f == carryOut(e, c)
             u == v % CodeBot
         IN /\ Coder(f)
            /\ InWhole(f.rem, u * Sym, w * Sym)
            /\ ~f.err => /\ ~e.err
                        /\ Len(Bytes(e)) \in Nat
                        /\ Len(Bytes(f)) = Len(Bytes(e)) + 1
                        /\ Number(Bytes(f))[Len(Bytes(f))] = Number(Bytes(e))[Len(Bytes(e))] * Sym + c
<1> DEFINE c == v \div CodeBot
           u == v % CodeBot
           f == carryOut(e, c)
           x == u * Sym
           y == w * Sym
<1>1. /\ c \in Nat /\ c < 2 * Sym
      /\ c >= Sym => e.rem \in 0 .. SymMax - 1
      /\ c = SymMax => InWhole(e.rem, x, y)
      /\ c # SymMax => InWhole(c % Sym, x, y)
  BY WholeShift, Zenon
<1> HIDE DEF c, x, y
<1>2. /\ Coder(f)
      /\ c = SymMax => f.rem = e.rem
      /\ c # SymMax => f.rem = c % Sym
  BY <1>1, CarryOutIs
<1>3. InWhole(f.rem, x, y)
  <2> HIDE DEF f
  <2> QED BY <1>1, <1>2, Zenon
<1>4. ASSUME ~f.err
      PROVE  /\ ~e.err
             /\ Len(Bytes(e)) \in Nat
             /\ Len(Bytes(f)) = Len(Bytes(e)) + 1
             /\ Number(Bytes(f))[Len(Bytes(f))] = Number(Bytes(e))[Len(Bytes(e))] * Sym + c
  <2>1. /\ ~e.err
        /\ Len(Bytes(e)) \in Nat
        /\ Len(Bytes(f)) = Len(Bytes(e)) + 1
        /\ Number(Bytes(f))[Len(Bytes(e)) + 1] = Number(Bytes(e))[Len(Bytes(e))] * Sym + c
    BY <1>1, <1>4, CarryOutNumber
  <2> QED BY <2>1, Zenon
<1> QED BY <1>2, <1>3, <1>4, Zenon DEF c, x, y
-----------------------------------------------------------------------------
(* The inductive invariant. *)

\* A symbol of a table, with a width.
Symbols == {x \in [cdf : Cdfs, sym : Nat] : /\ x.sym <= Len(x.cdf) - 2
                                            /\ x.cdf[x.sym + 1] < x.cdf[x.sym + 2]}

Low(x) == x.cdf[x.sym + 1] - x.cdf[1]
High(x) == x.cdf[x.sym + 2] - x.cdf[1]

Decoder(d) ==
  /\ d \in [buf : Seq(Octets), rng : Nat, rem : Octets, val : Nat]
  /\ d.rng \in 1 .. CodeTop /\ d.val \in 0 .. d.rng - 1

Intervals == [low : Nat, rng : Nat \ {0}, bytes : Nat, coded : Nat]

StreamTyped ==
  /\ stage \in {"encode", "flush", "refused", "written", "decode", "foreign"}
  /\ Coder(enc)
  /\ tail \in [end : Nat, left : Int]
  /\ Decoder(dec)
  /\ sent \in Seq(Symbols)
  /\ got \in Seq(Nat)
  /\ taken \in Nat
  /\ ideal \in Seq(Intervals) /\ ideal # <<>>

\* What leaves the encoder lies in the whole, and has place where it leaves it.
Contained ==
  /\ stage = "encode" =>
       /\ InWhole(enc.rem, enc.val, enc.rng) /\ enc.rng <= CodeTop
       /\ tail = [end |-> 0, left |-> 0]
       /\ Now.rng = enc.rng /\ Now.coded = Len(sent)
       /\ sent = <<>> => enc = NewRangeEncoder
  /\ stage = "flush" => InWhole(enc.rem, tail.end, 1)

\* No bit of the end is left over when Done has written its bytes.
Ends(t) == IF t.left > 0 THEN \E q \in Int : t.end * Two[t.left] = q * CodeTop ELSE t.end = 0

Complete ==
  /\ stage = "flush" => Ends(tail)
  /\ stage \in {"written", "decode"} => tail.end = 0

\* The encoder is where the ideal coder is.
InStep ==
  /\ stage \in {"encode", "flush"} /\ ~enc.err => Len(Bytes(enc)) = Now.bytes
  /\ stage \in {"written", "decode"} =>
       /\ Len(enc.out) = Now.bytes
       /\ Now.low = Number(enc.out)[Now.bytes] * CodeTop

\* The way of the ideal coder: the next interval.
Coded(i, x) == Part(i, Low(x), High(x), Width(x.cdf))

OneTurn(i, j, s) ==
  IF Narrow(i) THEN j = Scaled(i)
               ELSE i.coded < Len(s) /\ j = Coded(i, s[i.coded + 1])

Ended(i, j, s) ==
  /\ ~Narrow(i) /\ i.coded = Len(s)
  /\ j.rng = 1 /\ j.bytes = i.bytes
  /\ j.low >= i.low /\ j.low < i.low + i.rng

\* The turns t code the symbols s up to turn m; then comes the end, which grows by bytes.
Way(t, s, m) ==
  /\ m \in 1 .. Len(t)
  /\ \A p \in 1 .. m - 1 : OneTurn(t[p], t[p + 1], s)
  /\ \A p \in m + 1 .. Len(t) - 1 : t[p + 1] = Scaled(t[p])
  /\ m < Len(t) => Ended(t[m], t[m + 1], s)

OnItsWay ==
  /\ ideal[1] = Whole
  /\ stage = "encode" => Way(ideal, sent, Len(ideal))
  /\ stage \in {"flush", "written", "decode"} =>
       \E m \in 1 .. Len(ideal) - 1 : Way(ideal, sent, m)

\* The number that was written lies in the interval.
Holds(i) ==
  /\ i.low * Kept <= Number(enc.out)[Lead + i.bytes]
  /\ Number(enc.out)[Lead + i.bytes] < (i.low + i.rng) * Kept

\* The decoder d, after t bytes of the buffer s, has read what the ideal coder had
\* written when its interval began at low.
Read(d, s, t, low) ==
  (low + (d.rng - 1 - d.val)) * Kept + (d.rem % Kept) = Number(s)[t]

\* The decoder takes its first bytes: its interval is not whole yet.
Filling(d, s, t) ==
  /\ \E k \in Nat : d.rng * Two[SymBits * k] = CodeTop /\ t + k = Lead
  /\ Read(d, s, t, 0)

\* It is where the ideal coder was at the interval i.
At(i, d, s, t) ==
  d.rng = i.rng /\ t = Lead + i.bytes /\ Read(d, s, t, i.low)

Follows ==
  /\ stage \in {"encode", "flush", "written"} => got = <<>>
  /\ stage = "decode" =>
       /\ \A n \in Nat : Byte(dec.buf, n + 1) = Byte(enc.out, taken + n + 1)
       /\ Len(got) <= Len(sent)
       /\ \A i \in 1 .. Len(got) : got[i] = sent[i].sym
       /\ \/ Filling(dec, enc.out, taken) /\ got = <<>>
          \/ \E m \in 1 .. Len(ideal) - 1 :
               /\ Way(ideal, sent, m)
               /\ \E p \in 1 .. m : /\ At(ideal[p], dec, enc.out, taken)
                                     /\ Len(got) = ideal[p].coded

-----------------------------------------------------------------------------
(* The decoder. *)

\* A byte and the bits kept of the one before.
LEMMA Bits ==
  ASSUME NEW rem \in Nat, NEW b \in Octets
  PROVE  LET sym == ((rem * Sym + b) \div Kept) % Sym
         IN /\ sym \in Octets
            /\ b % Kept \in Nat /\ rem % Kept \in Nat
            /\ sym * Kept + (b % Kept) = (rem % Kept) * Sym + b
<1> DEFINE S == Sym
           K == Kept
           E == Two[CodeExtra]
           q == rem \div K
           r == rem % K
           p == b \div K
           t == b % K
<1>1. S \in Nat \ {0} /\ K \in Nat \ {0} /\ E \in Nat \ {0} /\ S = E * K
  BY Sizes
<1>2. b \in Nat /\ b <= S - 1 /\ Octets = 0 .. S - 1
  BY Digits
<1>3. q \in Nat /\ r \in 0 .. K - 1 /\ rem = q * K + r
  BY <1>1, DivMod
<1>4. p \in Nat /\ t \in 0 .. K - 1 /\ b = p * K + t
  BY <1>1, <1>2, DivMod
<1> HIDE DEF S, K, E, q, r, p, t
<1>5. p <= E - 1
  <2>1. p * K < E * K
    BY <1>1, <1>2, <1>4
  <2>2. p < E
    BY <1>1, <1>4, <2>1, LessTimes
  <2> QED BY <1>1, <1>4, <2>2
<1> DEFINE a == q * S
           m == r * E
           y == m + p
           z == a + y
<1>6. a \in Nat /\ m \in Nat /\ m <= S - E
  <2>1. r * E <= (K - 1) * E /\ (K - 1) * E = S - E
    BY <1>1, <1>3, Times
  <2> QED BY <1>1, <1>3, <2>1
<1> HIDE DEF m
<1>7. y \in 0 .. S - 1
  BY <1>1, <1>4, <1>5, <1>6
<1>8. z * K + t = rem * S + b
  <2>1. z * K = a * K + m * K + p * K
    <3> HIDE DEF a
    <3> QED BY <1>1, <1>4, <1>6
  <2>2. a * K = (q * K) * S
    BY <1>1, <1>3
  <2>3. m * K = r * S
    <3>1. m * K = r * (E * K)
      BY <1>1, <1>3 DEF m
    <3> QED BY <1>1, <3>1
  <2>4. rem * S = (q * K) * S + r * S
    BY <1>1, <1>3
  <2> DEFINE i == a * K
             j == m * K
             k == p * K
  <2>5. i \in Nat /\ j \in Nat /\ k \in Nat
    BY <1>1, <1>4, <1>6
  <2>6. z * K = i + j + k /\ rem * S = i + j /\ b = k + t
    BY <1>4, <2>1, <2>2, <2>3, <2>4
  <2> HIDE DEF i, j, k, z
  <2> QED BY <1>4, <2>5, <2>6
<1>9. (rem * S + b) \div K = z
  <2>1. z \in Nat
    BY <1>6, <1>7
  <2> HIDE DEF z
  <2>2. rem * S + b \in Nat
    BY <1>1, <1>2
  <2> DEFINE w == rem * S + b
  <2>3. w \in Nat /\ w = z * K + t /\ z \in Int
    BY <1>8, <2>1, <2>2
  <2> HIDE DEF w
  <2> QED BY <1>1, <1>4, <2>3, DivModOf DEF w
<1>10. z % S = y
  <2> HIDE DEF y
  <2>1. z \in Nat /\ z = q * S + y
    BY <1>6, <1>7
  <2> HIDE DEF z
  <2>2. q \in Int /\ y \in 0 .. S - 1 /\ S \in Nat \ {0}
    BY <1>1, <1>3, <1>7
  <2> QED BY <2>1, <2>2, DivModOf
<1>11. y * K + t = r * S + b
  <2>1. y * K = m * K + p * K
    BY <1>1, <1>4, <1>6
  <2>2. m * K = r * S
    <3>1. m * K = r * (E * K)
      BY <1>1, <1>3 DEF m
    <3> QED BY <1>1, <3>1
  <2> DEFINE j == m * K
             k == p * K
  <2>3. j \in Nat /\ k \in Nat
    BY <1>1, <1>4, <1>6
  <2>4. y * K = j + k /\ r * S = j /\ b = k + t
    BY <1>4, <2>1, <2>2
  <2> HIDE DEF j, k, y
  <2> QED BY <1>4, <2>3, <2>4
<1> HIDE DEF y, z
<1>12. y \in Octets /\ t \in Nat /\ r \in Nat
  BY <1>1, <1>2, <1>3, <1>4, <1>7
<1>13. ((rem * S + b) \div K) % S = y
  BY <1>9, <1>10, Zenon
<1> QED BY <1>11, <1>12, <1>13, Zenon DEF S, K, r, t

\* Reading a byte: of an empty buffer, zero.
LEMMA ReadIs ==
  ASSUME NEW d, d.buf \in Seq(Octets)
  PROVE  /\ readByte(d) \in Octets /\ unread(d) \in Seq(Octets)
         /\ readByte(d) = Byte(d.buf, 1)
         /\ \A n \in Nat : Byte(unread(d), n + 1) = Byte(d.buf, n + 2)
<1> DEFINE b == d.buf
<1>1. b \in Seq(Octets)
  OBVIOUS
<1>2. 0 \in Octets
  BY Digits
<1>3. CASE b = <<>>
  <2>1. readByte(d) = 0 /\ unread(d) = <<>>
    BY <1>3, Zenon DEF readByte, unread
  <2>2. \A n \in Nat : Byte(<<>>, n + 1) = 0 /\ Byte(<<>>, n + 2) = 0
    BY DEF Byte
  <2>3. Byte(<<>>, 1) = 0 /\ <<>> \in Seq(Octets)
    BY DEF Byte
  <2> QED BY <1>2, <1>3, <2>1, <2>2, <2>3, Zenon
<1>4. CASE b # <<>>
  <2>1. readByte(d) = Head(b) /\ unread(d) = Tail(b)
    BY <1>4, Zenon DEF readByte, unread
  <2> HIDE DEF b
  <2>2. /\ Head(b) \in Octets /\ Tail(b) \in Seq(Octets) /\ Len(b) \in Nat /\ Len(b) >= 1
        /\ Head(b) = b[1] /\ Len(Tail(b)) = Len(b) - 1
        /\ \A i \in 1 .. Len(b) - 1 : Tail(b)[i] = b[i + 1]
    BY <1>1, <1>4
  <2>3. Byte(b, 1) = Head(b)
    BY <2>2 DEF Byte
  <2>4. ASSUME NEW n \in Nat PROVE Byte(Tail(b), n + 1) = Byte(b, n + 2)
    <3>1. CASE n + 1 \in 1 .. Len(b) - 1
      <4>1. Tail(b)[n + 1] = b[(n + 1) + 1] /\ (n + 1) + 1 = n + 2 /\ n + 2 \in 1 .. Len(b)
            /\ n + 1 \in 1 .. Len(Tail(b))
        BY <2>2, <3>1
      <4> QED BY <4>1 DEF Byte
    <3>2. CASE n + 1 \notin 1 .. Len(b) - 1
      <4>1. n + 2 \notin 1 .. Len(b) /\ n + 1 \notin 1 .. Len(Tail(b))
        BY <2>2, <3>2
      <4> QED BY <4>1 DEF Byte
    <3> QED BY <3>1, <3>2
  <2> QED BY <2>1, <2>2, <2>3, <2>4, Zenon DEF b
<1> QED BY <1>3, <1>4

\* The decoder's first byte.
LEMMA FirstIs ==
  ASSUME NEW buf \in Seq(Octets)
  PROVE  LET d == firstIn(buf)
             b == Byte(buf, 1)
         IN /\ Decoder(d)
            /\ b \in Octets
            /\ d.rng = Two[CodeExtra] /\ d.rem = b
            /\ (d.rng - 1 - d.val) * Kept + (d.rem % Kept) = b
            /\ \A n \in Nat : Byte(d.buf, n + 1) = Byte(buf, n + 2)
<1> DEFINE E == Two[CodeExtra]
           K == Kept
           S == Sym
           first == [buf |-> buf, rng |-> E, rem |-> 0, val |-> 0]
           b == readByte(first)
           d == firstIn(buf)
           p == b \div K
<1>1. first.buf = buf
  OBVIOUS
<1>2. /\ b \in Octets /\ unread(first) \in Seq(Octets)
      /\ b = Byte(buf, 1)
      /\ \A n \in Nat : Byte(unread(first), n + 1) = Byte(buf, n + 2)
  <2> HIDE DEF first
  <2>1. first.buf \in Seq(Octets)
    BY <1>1
  <2> QED BY <1>1, <2>1, ReadIs
<1>3. d = [buf |-> unread(first), rng |-> E, rem |-> b, val |-> E - 1 - p]
  <2>1. d = [first EXCEPT !.buf = unread(first), !.rem = b, !.val = first.rng - 1 - b \div K]
    BY Zenon DEF firstIn
  <2>2. first.rng = E
    OBVIOUS
  <2> HIDE DEF p, b, E, d
  <2> DEFINE y == E - 1 - p
             u == unread(first)
  <2>3. d = [first EXCEPT !.buf = u, !.rem = b, !.val = y]
    BY <2>1, <2>2, Zenon DEF p
  <2> HIDE DEF y, u
  <2>4. d = [buf |-> u, rng |-> E, rem |-> b, val |-> y]
    BY <2>3
  <2> QED BY <2>4, Zenon DEF y, u
<1>4. /\ S \in Nat \ {0} /\ K \in Nat \ {0} /\ E \in Nat \ {0} /\ S = E * K
      /\ CodeTop = CodeBot * S /\ CodeBot \in Nat \ {0}
  BY Sizes
<1>5. b \in Nat /\ b <= S - 1
  BY <1>2, Digits
<1> HIDE DEF b
<1>6. p \in Nat /\ b % K \in 0 .. K - 1 /\ b = p * K + (b % K)
  BY <1>4, <1>5, DivMod
<1> DEFINE t == b % K
<1> HIDE DEF p, S, K, E, d, first
<1>7. p <= E - 1
  <2>1. p * K < E * K
    BY <1>4, <1>5, <1>6
  <2>2. p < E
    BY <1>4, <1>6, <2>1, LessTimes
  <2> QED BY <1>4, <1>6, <2>2
<1>8. E \in 1 .. CodeTop
  <2>1. E * 1 <= E * K /\ 1 * S <= CodeBot * S
    BY <1>4, Times
  <2> QED BY <1>4, <2>1
<1>9. Decoder(d)
  BY <1>2, <1>3, <1>4, <1>6, <1>7, <1>8 DEF Decoder
<1>10. d.rng = E /\ d.rem = b /\ d.val = E - 1 - p /\ d.buf = unread(first)
  BY <1>3
<1>11. (d.rng - 1 - d.val) * K + (d.rem % K) = b
  <2>1. d.rng - 1 - d.val = p
    BY <1>4, <1>6, <1>10
  <2> QED BY <1>6, <1>10, <2>1
<1> QED BY <1>2, <1>9, <1>10, <1>11, Zenon DEF d, E, K

\* A turn of its normalize: the value stays in the interval, and takes in the byte.
LEMMA ShiftInIs ==
  ASSUME NEW d, Decoder(d), Narrow(d)
  PROVE  LET f == shiftIn(d)
             b == Byte(d.buf, 1)
             D == d.rng - 1 - d.val
             G == f.rng - 1 - f.val
         IN /\ Decoder(f)
            /\ b \in Octets
            /\ f.rng = d.rng * Sym
            /\ D \in Nat /\ G \in Nat
            /\ \E sym \in Nat : G = D * Sym + sym /\ sym * Kept + (f.rem % Kept) = (d.rem % Kept) * Sym + b
            /\ \A n \in Nat : Byte(f.buf, n + 1) = Byte(d.buf, n + 2)
<1> DEFINE b == readByte(d)
           f == shiftIn(d)
           sym == ((d.rem * Sym + b) \div Kept) % Sym
           w == d.rng
           v == d.val
           S == Sym
           T == CodeTop
           y == v * S + SymMax - sym
<1>1. d \in [buf : Seq(Octets), rng : Nat, rem : Octets, val : Nat] /\ w \in 1 .. T /\ v \in 0 .. w - 1
  BY DEF Decoder
<1>2. /\ b \in Octets /\ unread(d) \in Seq(Octets)
      /\ b = Byte(d.buf, 1)
      /\ \A n \in Nat : Byte(unread(d), n + 1) = Byte(d.buf, n + 2)
  <2>1. d.buf \in Seq(Octets)
    BY <1>1
  <2> QED BY <2>1, ReadIs
<1>3. /\ S \in Nat \ {0} /\ T \in Nat \ {0} /\ T = CodeBot * S /\ CodeBot \in Nat \ {0}
      /\ SymMax = S - 1 /\ Octets = 0 .. S - 1
  BY Sizes, Digits
<1> HIDE DEF b
<1>4. sym \in Octets /\ sym * Kept + (b % Kept) = (d.rem % Kept) * S + b
  <2>1. d.rem \in Nat
    BY <1>1, Digits
  <2> QED BY <1>2, <2>1, Bits
<1>5. f = [buf |-> unread(d), rng |-> w * S, rem |-> b, val |-> y % T]
  BY Zenon DEF shiftIn, b
<1> HIDE DEF sym, w, v, S, T, f
<1>6. w * S \in 1 .. T
  <2>1. w <= CodeBot
    BY DEF Narrow, w
  <2>2. w * S <= CodeBot * S /\ w * S \in Nat \ {0}
    BY <1>1, <1>3, <2>1, Times
  <2> QED BY <1>3, <2>2
<1>7. y \in Nat /\ y <= w * S - 1 /\ w * S - 1 - y = (w - 1 - v) * S + sym
  <2>1. v * S \in Nat /\ v * S <= (w - 1) * S /\ (w - 1) * S = w * S - S
    BY <1>1, <1>3, Times
  <2>2. (w - 1 - v) * S = w * S - S - v * S
    BY <1>1, <1>3
  <2> DEFINE a == v * S
             k == w * S
  <2>3. a \in Nat /\ k \in Nat /\ a <= k - S /\ (w - 1 - v) * S = k - S - a /\ y = a + SymMax - sym
    BY <1>6, <2>1, <2>2
  <2> HIDE DEF a, k, y
  <2>4. y \in Nat /\ y <= k - 1 /\ k - 1 - y = (k - S - a) + sym
    BY <1>3, <1>4, <2>3
  <2> QED BY <2>3, <2>4 DEF k
<1>8. y % T = y
  <2> HIDE DEF y
  <2>1. y \in Nat /\ y < T
    BY <1>3, <1>6, <1>7
  <2> QED BY <1>3, <2>1
<1> DEFINE k == w * S
<1> HIDE DEF y, k
<1>9. f = [buf |-> unread(d), rng |-> k, rem |-> b, val |-> y]
  BY <1>5, <1>8, Zenon DEF k
<1>10. k \in 1 .. T /\ y \in Nat /\ y <= k - 1 /\ k - 1 - y = (w - 1 - v) * S + sym
  BY <1>6, <1>7 DEF k
<1>11. Decoder(f)
  <2>1. k \in Nat /\ y \in 0 .. k - 1
    BY <1>3, <1>10
  <2>2. f.rng = k /\ f.val = y
    BY <1>9
  <2>3. f \in [buf : Seq(Octets), rng : Nat, rem : Octets, val : Nat]
    BY <1>2, <1>9, <1>10, <2>1
  <2> QED BY <1>10, <2>1, <2>2, <2>3 DEF Decoder, T
<1>12. f.rng = k /\ f.val = y /\ f.rem = b /\ f.buf = unread(d)
  BY <1>9
<1>13. w - 1 - v \in Nat /\ k - 1 - y \in Nat /\ sym \in Nat
  BY <1>1, <1>3, <1>4, <1>10
<1>14. /\ f.rng = d.rng * S
       /\ d.rng - 1 - d.val \in Nat /\ f.rng - 1 - f.val \in Nat
       /\ f.rng - 1 - f.val = (d.rng - 1 - d.val) * S + sym
       /\ sym * Kept + (f.rem % Kept) = (d.rem % Kept) * S + Byte(d.buf, 1)
       /\ \A n \in Nat : Byte(f.buf, n + 1) = Byte(d.buf, n + 2)
  BY <1>2, <1>4, <1>10, <1>12, <1>13, Zenon DEF w, v, k
<1> QED BY <1>2, <1>11, <1>13, <1>14, Zenon DEF f, S

\* The frequency at which the value lies is in a part when the value is in it.
LEMMA PartHasValue ==
  ASSUME NEW rng \in Nat, NEW val \in 0 .. rng - 1,
         NEW fl, NEW fh, NEW ft, IsPart(fl, fh, ft), ft <= rng
  PROVE  LET r == rng \div ft
             t == ft - Least(val \div r + 1, ft)
             b == r * (ft - fh)
         IN /\ t \in 0 .. ft - 1
            /\ (fl <= t /\ t < fh) <=> (b <= val /\ val < b + Span(rng, fl, fh, ft))
<1> DEFINE r == rng \div ft
           q == val \div r
           m == val % r
           n == Least(q + 1, ft)
           t == ft - n
           b == r * (ft - fh)
           d == From(rng, fl, ft)
           w == Span(rng, fl, fh, ft)
           a == r * (ft - fl)
<1>1. /\ r \in Nat \ {0} /\ d \in Nat /\ w \in Nat \ {0} /\ b \in Nat
      /\ d + w = rng - b
      /\ fl > 0 => d = rng - a
      /\ ~(fl > 0) => fl = 0 /\ d = 0
  <2>1. PartLaw(rng, fl, fh, ft, r, d, w, b)
    BY PartIs
  <2> QED BY <2>1, Zenon DEF PartLaw
<1>2. fl \in Nat /\ fh \in Nat /\ ft \in Nat \ {0} /\ fl < fh /\ fh <= ft
  BY DEF IsPart
<1>3. q \in Nat /\ m \in 0 .. r - 1 /\ val = q * r + m
  <2>1. val \in Nat
    OBVIOUS
  <2> HIDE DEF r
  <2> QED BY <1>1, <2>1, DivMod
<1> HIDE DEF r, q, m, d, w
<1>4. n \in 1 .. ft /\ (n < ft => n = q + 1) /\ (n = q + 1 \/ (n = ft /\ ft <= q + 1))
  BY <1>2, <1>3 DEF Least
<1>5. q * r <= val /\ val < (q + 1) * r /\ q * r \in Nat /\ (q + 1) * r \in Nat /\ val \in Nat
  <2>1. q * r \in Nat /\ (q + 1) * r = q * r + r
    BY <1>1, <1>3
  <2> DEFINE i == q * r
             j == (q + 1) * r
  <2>2. i \in Nat /\ j = i + r /\ val = i + m
    BY <1>3, <2>1
  <2> HIDE DEF i, j
  <2>3. i <= val /\ val < j /\ j \in Nat
    BY <1>1, <1>3, <2>2
  <2> QED BY <2>2, <2>3 DEF i, j
<1> DEFINE x == ft - fh
           y == ft - fl
<1>6. x \in Nat /\ y \in Nat /\ b = x * r /\ a = y * r /\ x < ft
  BY <1>1, <1>2
<1> HIDE DEF n, a, b
<1>7. t \in 0 .. ft - 1 /\ (t < fh <=> n > x) /\ (fl <= t <=> n <= y)
  BY <1>2, <1>4
<1>8. n > x <=> b <= val
  <2>1. ASSUME n > x PROVE b <= val
    <3>1. x <= q
      BY <1>2, <1>3, <1>4, <1>6, <2>1
    <3>2. x * r <= q * r
      BY <1>1, <1>3, <1>6, <3>1, Times
    <3> QED BY <1>1, <1>5, <1>6, <3>2
  <2>2. ASSUME b <= val PROVE n > x
    <3>1. x * r < (q + 1) * r
      BY <1>1, <1>5, <1>6, <2>2
    <3>2. x < q + 1
      <4>1. q + 1 \in Int /\ x \in Int /\ r \in Nat
        BY <1>1, <1>3, <1>6
      <4> QED BY <3>1, <4>1, LessTimes
    <3> QED BY <1>2, <1>3, <1>4, <1>6, <3>2
  <2> QED BY <2>1, <2>2
<1>9. n <= y <=> val < b + w
  <2>1. CASE ~(fl > 0)
    <3>1. fl = 0 /\ b + w = rng
      BY <1>1, <2>1
    <3>2. n <= y
      BY <1>2, <1>4, <3>1
    <3> QED BY <3>1, <3>2
  <2>2. CASE fl > 0
    <3>1. b + w = a /\ a \in Nat
      <4>1. a \in Nat
        BY <1>1, <1>6
      <4> HIDE DEF y
      <4> QED BY <1>1, <2>2, <4>1
    <3>2. ASSUME n <= y PROVE val < a
      <4>1. q + 1 <= y
        BY <1>2, <1>3, <1>4, <1>6, <2>2, <3>2
      <4>2. (q + 1) * r <= y * r
        <5>1. q + 1 \in Int /\ y \in Int /\ r \in Nat
          BY <1>1, <1>3, <1>6
        <5> QED BY <4>1, <5>1, Times
      <4> QED BY <1>5, <1>6, <3>1, <4>2
    <3>3. ASSUME val < a PROVE n <= y
      <4>1. q * r < y * r
        BY <1>5, <1>6, <3>1, <3>3
      <4>2. q < y
        BY <1>1, <1>3, <1>6, <4>1, LessTimes
      <4> QED BY <1>2, <1>3, <1>4, <1>6, <4>2
    <3> QED BY <3>1, <3>2, <3>3
  <2> QED BY <2>1, <2>2
<1>10. (fl <= t /\ t < fh) <=> (b <= val /\ val < b + w)
  BY <1>7, <1>8, <1>9
<1> QED BY <1>7, <1>10, Zenon DEF r, q, n, b, w

\* What is assumed of a table.
LEMMA TableIs ==
  ASSUME NEW cdf \in Cdfs
  PROVE  /\ cdf \in Seq(Nat) /\ Len(cdf) \in Nat /\ Len(cdf) >= 2
         /\ \A i \in 1 .. Len(cdf) : cdf[i] \in Nat
         /\ \A i, j \in 1 .. Len(cdf) : i <= j => cdf[i] <= cdf[j]
         /\ Width(cdf) = cdf[Len(cdf)] - cdf[1]
         /\ Width(cdf) \in 1 .. CodeBot /\ Width(cdf) \in Nat
<1>1. /\ cdf \in Seq(Nat) /\ Len(cdf) >= 2
      /\ \A i, j \in 1 .. Len(cdf) : i <= j => cdf[i] <= cdf[j]
      /\ Width(cdf) \in 1 .. CodeBot
  BY TablesAssumption
<1>2. Len(cdf) \in Nat /\ \A i \in 1 .. Len(cdf) : cdf[i] \in Nat
  BY <1>1
<1>3. Width(cdf) \in Nat
  BY <1>1, Sizes
<1> QED BY <1>1, <1>2, <1>3 DEF Width

\* A symbol of a table is a part of its width.
LEMMA SymbolPart ==
  ASSUME NEW x \in Symbols
  PROVE  /\ x.cdf \in Cdfs /\ x.sym \in 0 .. Len(x.cdf) - 2
         /\ IsPart(Low(x), High(x), Width(x.cdf))
         /\ Width(x.cdf) <= CodeBot
<1> DEFINE cdf == x.cdf
           s == x.sym
<1>1. cdf \in Cdfs /\ s \in Nat /\ s <= Len(cdf) - 2 /\ cdf[s + 1] < cdf[s + 2]
  BY DEF Symbols
<1>2. Low(x) = cdf[s + 1] - cdf[1] /\ High(x) = cdf[s + 2] - cdf[1]
  BY DEF Low, High
<1> HIDE DEF cdf, s
<1>3. /\ Len(cdf) \in Nat /\ Len(cdf) >= 2
      /\ \A i \in 1 .. Len(cdf) : cdf[i] \in Nat
      /\ \A i, j \in 1 .. Len(cdf) : i <= j => cdf[i] <= cdf[j]
      /\ Width(cdf) = cdf[Len(cdf)] - cdf[1]
      /\ Width(cdf) \in 1 .. CodeBot /\ Width(cdf) \in Nat
  BY <1>1, TableIs
<1> DEFINE n == Len(cdf)
<1>4. 1 \in 1 .. n /\ s + 1 \in 1 .. n /\ s + 2 \in 1 .. n /\ n \in 1 .. n
  BY <1>1, <1>3
<1>5. cdf[1] <= cdf[s + 1] /\ cdf[s + 2] <= cdf[n]
  BY <1>1, <1>3, <1>4
<1>6. cdf[1] \in Nat /\ cdf[s + 1] \in Nat /\ cdf[s + 2] \in Nat /\ cdf[n] \in Nat
  BY <1>3, <1>4
<1>7. IsPart(Low(x), High(x), Width(cdf))
  BY <1>1, <1>2, <1>3, <1>5, <1>6 DEF IsPart
<1>8. s \in 0 .. n - 2
  BY <1>1, <1>3
<1> QED BY <1>1, <1>3, <1>7, <1>8 DEF cdf, s

\* The search finds a symbol of the table, and the only one around the target.
LEMMA SymbolIs ==
  ASSUME NEW cdf \in Cdfs, NEW t \in 0 .. Width(cdf) - 1
  PROVE  LET k == CHOOSE j \in 0 .. Len(cdf) - 2 :
                     /\ cdf[j + 2] > cdf[1] + t
                     /\ \A i \in 0 .. j - 1 : cdf[i + 2] <= cdf[1] + t
             x == [cdf |-> cdf, sym |-> k]
         IN /\ x \in Symbols /\ Low(x) <= t /\ t < High(x)
            /\ \A y \in Symbols : y.cdf = cdf /\ Low(y) <= t /\ t < High(y) => k = y.sym
<1> DEFINE n == Len(cdf)
           g == cdf[1] + t
           Found(j) == /\ cdf[j + 2] > g
                       /\ \A i \in 0 .. j - 1 : cdf[i + 2] <= g
           k == CHOOSE j \in 0 .. n - 2 : Found(j)
           x == [cdf |-> cdf, sym |-> k]
<1>1. /\ n \in Nat /\ n >= 2
      /\ \A i \in 1 .. n : cdf[i] \in Nat
      /\ \A i, j \in 1 .. n : i <= j => cdf[i] <= cdf[j]
      /\ Width(cdf) = cdf[n] - cdf[1] /\ Width(cdf) \in Nat
  BY TableIs
<1>2. 1 \in 1 .. n /\ n \in 1 .. n /\ cdf[1] \in Nat /\ cdf[n] \in Nat
  BY <1>1
<1>3. t \in Nat /\ g \in Nat /\ g < cdf[n]
  BY <1>1, <1>2
<1> HIDE DEF g, n
<1>4. \E j \in 0 .. n - 2 : Found(j)
  <2> DEFINE U == {j \in Nat : j <= n - 2 /\ cdf[j + 2] > g}
  <2>1. n - 2 \in U
    <3>1. n - 2 \in Nat /\ (n - 2) + 2 = n
      BY <1>1
    <3> QED BY <1>3, <3>1
  <2>2. U \in SUBSET Nat /\ U # {}
    BY <2>1
  <2> HIDE DEF U
  <2>3. PICK j \in U : \A i \in U : j <= i
    BY <2>2, LeastOfNat
  <2>4. j \in Nat /\ j <= n - 2 /\ cdf[j + 2] > g
    BY <2>3 DEF U
  <2>5. ASSUME NEW i \in 0 .. j - 1 PROVE cdf[i + 2] <= g
    <3>1. i \notin U
      BY <2>3, <2>4
    <3>2. i \in Nat /\ i <= n - 2 /\ i + 2 \in 1 .. n
      BY <1>1, <2>4
    <3>3. ~(cdf[i + 2] > g)
      BY <3>1, <3>2 DEF U
    <3> QED BY <1>1, <1>3, <3>2, <3>3
  <2>6. j \in 0 .. n - 2
    BY <1>1, <2>4
  <2> QED BY <2>4, <2>5, <2>6
<1>5. k \in 0 .. n - 2 /\ Found(k)
  <2> HIDE DEF Found
  <2> QED BY <1>4, Zenon
<1> HIDE DEF k
<1>6. k \in Nat /\ k + 1 \in 1 .. n /\ k + 2 \in 1 .. n
  BY <1>1, <1>5
<1>7. cdf[k + 1] <= g
  <2>1. CASE k = 0
    BY <1>2, <1>3, <2>1 DEF g
  <2>2. CASE k # 0
    <3>1. k - 1 \in 0 .. k - 1 /\ (k - 1) + 2 = k + 1
      BY <1>6, <2>2
    <3> QED BY <1>5, <3>1
  <2> QED BY <2>1, <2>2
<1>8. cdf[k + 1] \in Nat /\ cdf[k + 2] \in Nat /\ cdf[k + 1] < cdf[k + 2]
  BY <1>1, <1>3, <1>5, <1>6, <1>7
<1>9. x \in Symbols /\ x.cdf = cdf /\ x.sym = k
  <2>1. x \in [cdf : Cdfs, sym : Nat] /\ x.cdf = cdf /\ x.sym = k
    BY <1>6
  <2>2. k <= n - 2
    BY <1>1, <1>5
  <2> HIDE DEF x
  <2> QED BY <1>8, <2>1, <2>2 DEF Symbols, n
<1>10. Low(x) <= t /\ t < High(x)
  <2>1. Low(x) = cdf[k + 1] - cdf[1] /\ High(x) = cdf[k + 2] - cdf[1]
    BY <1>9, Zenon DEF Low, High
  <2> QED BY <1>2, <1>3, <1>5, <1>7, <1>8, <2>1 DEF g
<1>11. ASSUME NEW y \in Symbols, y.cdf = cdf, Low(y) <= t, t < High(y) PROVE k = y.sym
  <2> DEFINE s == y.sym
  <2>1. s \in Nat /\ s <= n - 2
    BY <1>11 DEF Symbols, n
  <2>2. s + 1 \in 1 .. n /\ s + 2 \in 1 .. n
    BY <1>1, <2>1
  <2>3. cdf[s + 1] \in Nat /\ cdf[s + 2] \in Nat
    BY <1>1, <2>2
  <2>4. cdf[s + 1] - cdf[1] <= t /\ t < cdf[s + 2] - cdf[1]
    BY <1>11, Zenon DEF Low, High
  <2>5. cdf[s + 1] <= g /\ g < cdf[s + 2]
    BY <1>2, <1>3, <2>3, <2>4 DEF g
  <2> HIDE DEF s
  <2>6. ~(k < s)
    <3> SUFFICES ASSUME k < s PROVE FALSE
      OBVIOUS
    <3>1. k + 2 <= s + 1
      BY <1>6, <2>1
    <3>2. cdf[k + 2] <= cdf[s + 1]
      BY <1>1, <1>6, <2>2, <3>1
    <3> QED BY <1>3, <1>5, <1>8, <2>3, <2>5, <3>2
  <2>7. ~(s < k)
    <3> SUFFICES ASSUME s < k PROVE FALSE
      OBVIOUS
    <3>1. s \in 0 .. k - 1
      BY <1>6, <2>1
    <3> QED BY <1>3, <1>5, <2>3, <2>5, <3>1
  <2> QED BY <1>6, <2>1, <2>6, <2>7 DEF s
<1> QED BY <1>9, <1>10, <1>11, Zenon DEF k, g, n

\* What DecodeCDF finds and leaves: d is what was below the symbol in the interval.
LEMMA DecodeIs ==
  ASSUME NEW d, Decoder(d), ~Narrow(d), NEW cdf \in Cdfs
  PROVE  LET k == symbolAt(d, cdf)
             x == [cdf |-> cdf, sym |-> k]
             f == remove(d, cdf[k + 1] - cdf[1], cdf[k + 2] - cdf[1], Width(cdf))
             a == From(d.rng, Low(x), Width(cdf))
             w == Span(d.rng, Low(x), High(x), Width(cdf))
         IN /\ x \in Symbols
            /\ Decoder(f) /\ f.buf = d.buf /\ f.rem = d.rem
            /\ f.rng = w
            /\ f.rng - 1 - f.val = d.rng - 1 - d.val - a
            /\ a \in Nat
            /\ \A y \in Symbols :
                 /\ y.cdf = cdf
                 /\ From(d.rng, Low(y), Width(cdf)) <= d.rng - 1 - d.val
                 /\ d.rng - 1 - d.val < From(d.rng, Low(y), Width(cdf))
                                       + Span(d.rng, Low(y), High(y), Width(cdf))
                 => k = y.sym
<1> DEFINE k == symbolAt(d, cdf)
           x == [cdf |-> cdf, sym |-> k]
           fl == Low(x)
           fh == High(x)
           ft == Width(cdf)
           f == remove(d, cdf[k + 1] - cdf[1], cdf[k + 2] - cdf[1], ft)
           rng == d.rng
           val == d.val
           a == From(rng, fl, ft)
           w == Span(rng, fl, fh, ft)
           r == rng \div ft
           b == r * (ft - fh)
           t == ft - Least(val \div r + 1, ft)
<1>1. /\ d \in [buf : Seq(Octets), rng : Nat, rem : Octets, val : Nat]
      /\ rng \in 1 .. CodeTop /\ val \in 0 .. rng - 1 /\ rng \in Nat /\ val \in Nat
  BY Sizes DEF Decoder
<1>2. ft \in Nat /\ ft \in 1 .. CodeBot /\ ft <= rng
  <2>1. ft \in Nat /\ ft \in 1 .. CodeBot
    BY TableIs
  <2>2. ~(rng <= CodeBot)
    BY DEF Narrow
  <2> HIDE DEF ft, rng
  <2> QED BY <1>1, <2>1, <2>2, Sizes
<1>3. ASSUME NEW y \in Symbols, y.cdf = cdf
      PROVE  /\ IsPart(Low(y), High(y), ft)
             /\ t \in 0 .. ft - 1
             /\ (Low(y) <= t /\ t < High(y)) <=>
                  (r * (ft - High(y)) <= val /\ val < r * (ft - High(y)) + Span(rng, Low(y), High(y), ft))
             /\ PartLaw(rng, Low(y), High(y), ft, r, From(rng, Low(y), ft), Span(rng, Low(y), High(y), ft),
                        r * (ft - High(y)))
  <2>1. IsPart(Low(y), High(y), ft)
    BY <1>3, SymbolPart
  <2> HIDE DEF rng, val, ft
  <2>2. /\ t \in 0 .. ft - 1
        /\ (Low(y) <= t /\ t < High(y)) <=>
              (r * (ft - High(y)) <= val /\ val < r * (ft - High(y)) + Span(rng, Low(y), High(y), ft))
    BY <1>1, <1>2, <2>1, PartHasValue
  <2>3. PartLaw(rng, Low(y), High(y), ft, r, From(rng, Low(y), ft), Span(rng, Low(y), High(y), ft),
                r * (ft - High(y)))
    BY <1>1, <1>2, <2>1, PartIs
  <2> QED BY <2>1, <2>2, <2>3, Zenon
<1>4. t \in 0 .. ft - 1
  <2>1. Len(cdf) - 2 \in Nat
    BY TableIs
  <2>2. IsPart(0, ft, ft)
    BY <1>2 DEF IsPart
  <2> HIDE DEF rng, val, ft
  <2> QED BY <1>1, <1>2, <2>2, PartHasValue
<1>5. k = CHOOSE j \in 0 .. Len(cdf) - 2 :
             /\ cdf[j + 2] > cdf[1] + t
             /\ \A i \in 0 .. j - 1 : cdf[i + 2] <= cdf[1] + t
  BY Zenon DEF symbolAt, Decode
<1> HIDE DEF t
<1>6. /\ x \in Symbols /\ fl <= t /\ t < fh
      /\ \A y \in Symbols : y.cdf = cdf /\ Low(y) <= t /\ t < High(y) => k = y.sym
  <2> HIDE DEF k
  <2> QED BY <1>4, <1>5, SymbolIs
<1>7. x.cdf = cdf /\ fl = cdf[k + 1] - cdf[1] /\ fh = cdf[k + 2] - cdf[1]
  BY Zenon DEF Low, High
<1> HIDE DEF x
<1>8. /\ IsPart(fl, fh, ft)
      /\ b <= val /\ val < b + w
      /\ PartLaw(rng, fl, fh, ft, r, a, w, b)
  BY <1>3, <1>6, <1>7, Zenon
<1>9. f = [d EXCEPT !.val = val - b, !.rng = w]
  <2>1. f = [d EXCEPT !.val = val - b, !.rng = IF fl > 0 THEN r * (fh - fl) ELSE rng - b]
    BY <1>7, Zenon DEF remove
  <2>2. (IF fl > 0 THEN r * (fh - fl) ELSE rng - b) = w
    BY Zenon DEF Span
  <2> QED BY <2>1, <2>2, Zenon
<1>10. /\ r \in Nat \ {0} /\ a \in Nat /\ w \in Nat \ {0} /\ b \in Nat
       /\ a + w = rng - b /\ w <= rng
  BY <1>8, Zenon DEF PartLaw
<1> HIDE DEF f, fl, fh, ft, rng, val, a, w, r, b
<1> DEFINE z == val - b
<1>11. z \in 0 .. w - 1 /\ z \in Nat /\ w \in 1 .. CodeTop /\ w \in Nat
  <2>1. CodeTop \in Nat /\ b <= val /\ val < b + w
    BY <1>8, Sizes
  <2> QED BY <1>1, <1>10, <2>1
<1>12. w - 1 - z = rng - 1 - val - a
  BY <1>1, <1>10
<1> HIDE DEF z
<1>13. f = [d EXCEPT !.val = z, !.rng = w]
  BY <1>9, Zenon DEF z
<1>14. /\ f.val = z /\ f.rng = w /\ f.buf = d.buf /\ f.rem = d.rem
       /\ f \in [buf : Seq(Octets), rng : Nat, rem : Octets, val : Nat]
  BY <1>1, <1>11, <1>13
<1>15. Decoder(f)
  BY <1>11, <1>14 DEF Decoder
<1>16. ASSUME NEW y \in Symbols, y.cdf = cdf,
              From(rng, Low(y), ft) <= rng - 1 - val,
              rng - 1 - val < From(rng, Low(y), ft) + Span(rng, Low(y), High(y), ft)
       PROVE  k = y.sym
  <2> DEFINE a1 == From(rng, Low(y), ft)
             w1 == Span(rng, Low(y), High(y), ft)
             b1 == r * (ft - High(y))
  <2>1. PartLaw(rng, Low(y), High(y), ft, r, a1, w1, b1)
    BY <1>3, <1>16, Zenon
  <2>2. a1 \in Nat /\ w1 \in Nat /\ b1 \in Nat /\ a1 + w1 = rng - b1
    BY <2>1, Zenon DEF PartLaw
  <2>3. a1 <= rng - 1 - val /\ rng - 1 - val < a1 + w1
    BY <1>16
  <2> HIDE DEF a1, w1, b1
  <2>4. b1 <= val /\ val < b1 + w1
    BY <1>1, <2>2, <2>3
  <2>5. Low(y) <= t /\ t < High(y)
    BY <1>3, <1>16, <2>4, Zenon DEF b1, w1
  <2> QED BY <1>6, <1>16, <2>5, Zenon
<1>17. f.rng - 1 - f.val = rng - 1 - val - a
  BY <1>12, <1>14
<1> QED BY <1>6, <1>10, <1>14, <1>15, <1>16, <1>17, Zenon DEF k, x, f, fl, fh, ft, rng, val, a, w

-----------------------------------------------------------------------------
(* The number that Done chooses. *)

\* ilog finds the number of bits.
LEMMA BitsOf ==
  ASSUME NEW x \in 1 .. CodeTop
  PROVE  /\ ilog(x) \in 1 .. CodeBits
         /\ x < Two[ilog(x)] /\ Two[ilog(x) - 1] <= x
<1> DEFINE Good(n) == x < Two[n] /\ (n > 0 => Two[n - 1] <= x)
           U == {n \in Nat : x < Two[n]}
           k == ilog(x)
<1>1. x \in Nat /\ x >= 1 /\ CodeBits \in Nat /\ x < Two[CodeBits]
  BY Sizes, WidthsAssumption
<1>2. CodeBits \in U /\ U \in SUBSET Nat
  BY <1>1
<1>3. PICK n \in U : \A m \in U : n <= m
  <2> HIDE DEF U
  <2>1. U # {}
    BY <1>2
  <2> QED BY <1>2, <2>1, LeastOfNat
<1>4. n \in 0 .. CodeBits /\ x < Two[n]
  BY <1>1, <1>2, <1>3
<1>5. n > 0 => Two[n - 1] <= x
  <2> SUFFICES ASSUME n > 0 PROVE Two[n - 1] <= x
    OBVIOUS
  <2>1. n - 1 \in Nat /\ n - 1 \notin U
    BY <1>1, <1>3, <1>4
  <2>2. Two[n - 1] \in Nat
    BY <2>1, TwoPositive
  <2> QED BY <1>1, <2>1, <2>2
<1>6. k \in 0 .. CodeBits /\ Good(k)
  <2>1. \E j \in 0 .. CodeBits : Good(j)
    BY <1>4, <1>5
  <2>2. k = CHOOSE j \in 0 .. CodeBits : Good(j)
    BY Zenon DEF ilog
  <2> HIDE DEF Good, k
  <2> QED BY <2>1, <2>2, Zenon
<1>7. k # 0
  <2>1. Two[0] = 1
    BY TwoLaw
  <2> HIDE DEF k
  <2> QED BY <1>1, <1>6, <2>1
<1> HIDE DEF k
<1>8. k \in 1 .. CodeBits /\ k > 0
  BY <1>1, <1>6, <1>7
<1> QED BY <1>6, <1>8 DEF k

\* Rounding up to a multiple of p stays within p - 1.
LEMMA CutAt ==
  ASSUME NEW v \in Nat, NEW p \in Nat \ {0}
  PROVE  LET y == v + (p - 1)
             end == y - (y % p)
         IN end \in Nat /\ v <= end /\ end <= y /\ \E a \in Nat : end = a * p
<1> DEFINE y == v + (p - 1)
           a == y \div p
           b == y % p
<1>1. y \in Nat
  OBVIOUS
<1>2. a \in Nat /\ b \in 0 .. p - 1 /\ y = a * p + b
  <2> HIDE DEF y
  <2> QED BY <1>1, DivMod
<1>3. y - b = a * p
  <2> HIDE DEF y, a, b
  <2> QED BY <1>1, <1>2
<1>4. y - b \in Nat /\ v <= y - b /\ y - b <= y
  <2> HIDE DEF a, b
  <2> QED BY <1>2
<1> QED BY <1>2, <1>3, <1>4

\* Done's end is in the interval, and so many trailing bits of it are zero.
LEMMA CutIs ==
  ASSUME NEW e, Coder(e), ~Narrow(e), e.rng <= CodeTop, InWhole(e.rem, e.val, e.rng)
  PROVE  LET t == Cut(e)
         IN /\ t \in [end : Nat, left : Int]
            /\ e.val <= t.end /\ t.end < e.val + e.rng
            /\ Ends(t)
<1> DEFINE v == e.val
           w == e.rng
           n == ilog(w)
           l == CodeBits - n
           T == CodeTop
           P == Two[n - 1]
           Q == Two[n - 2]
           L == Two[l]
           m1 == (T - 1) \div L
           m2 == m1 \div 2
           cut(m) == v + m - ((v + m) % (m + 1))
           t == Cut(e)
<1>1. v \in Nat /\ w \in Nat /\ w > CodeBot /\ w <= T /\ v + w <= 2 * T - 1 /\ T \in Nat \ {0}
      /\ CodeBot \in Nat \ {0} /\ CodeBits \in Nat
  BY Sizes, WidthsAssumption DEF Coder, Narrow, InWhole
<1>2. w \in 1 .. T
  BY <1>1
<1>3. n \in 1 .. CodeBits /\ w < Two[n] /\ P <= w
  <2> HIDE DEF w
  <2> QED BY <1>2, BitsOf
<1> HIDE DEF n, w, v
<1>4. n - 1 \in Nat /\ l \in Nat /\ n \in Nat
  BY <1>1, <1>3
<1>5. P \in Nat \ {0} /\ L \in Nat \ {0} /\ T = P * L /\ Two[n] = 2 * P
  <2>1. CodeBits - 1 = (n - 1) + l /\ (n - 1) + 1 = n
    BY <1>1, <1>3
  <2> HIDE DEF l
  <2>2. Two[(n - 1) + l] = Two[n - 1] * Two[l] /\ Two[(n - 1) + 1] = 2 * Two[n - 1]
    BY <1>4, TwoSum, TwoLaw
  <2> QED BY <1>4, <2>1, <2>2, TwoPositive DEF CodeTop
<1>6. n - 2 \in Nat
  <2> SUFFICES ASSUME n = 1 PROVE FALSE
    BY <1>3
  <2>1. Two[n] = 2
    BY <1>4, TwoLaw
  <2> QED BY <1>1, <1>3, <2>1
<1>7. Q \in Nat \ {0} /\ P = 2 * Q /\ Two[l + 1] = 2 * L
  <2>1. (n - 2) + 1 = n - 1
    BY <1>4
  <2> HIDE DEF l
  <2>2. Two[(n - 2) + 1] = 2 * Two[n - 2] /\ Two[l + 1] = 2 * Two[l]
    BY <1>4, <1>6, TwoLaw
  <2> QED BY <1>6, <2>1, <2>2, TwoPositive
<1> HIDE DEF T, P, Q, L
<1>8. m1 = P - 1
  <2>1. (P - 1) * L = T - L
    BY <1>5
  <2>2. T - 1 \in Nat /\ L - 1 \in 0 .. L - 1 /\ P - 1 \in Int /\ T - 1 = (P - 1) * L + (L - 1)
    BY <1>1, <1>5, <2>1
  <2> DEFINE a == T - 1
             q == P - 1
             r == L - 1
  <2>3. a \in Nat /\ r \in 0 .. L - 1 /\ q \in Int /\ a = q * L + r
    BY <2>2
  <2> HIDE DEF a, q, r
  <2>4. a \div L = q
    BY <1>5, <2>3, DivModOf
  <2> QED BY <2>4 DEF a, q
<1>9. m2 = Q - 1
  <2>1. m1 = (Q - 1) * 2 + 1 /\ m1 \in Nat
    BY <1>5, <1>7, <1>8
  <2> HIDE DEF m1
  <2> QED BY <1>7, <2>1
<1> HIDE DEF m1, m2
<1>10. /\ cut(m1) \in Nat /\ v <= cut(m1) /\ cut(m1) <= v + P - 1
       /\ \E a \in Nat : cut(m1) = a * P
  <2>1. m1 + 1 = P /\ m1 = P - 1
    BY <1>5, <1>8
  <2> DEFINE y == v + (P - 1)
  <2>2. cut(m1) = y - (y % P)
    <3>1. y = v + m1
      BY <2>1
    <3>2. cut(m1) = v + (m1 - ((v + m1) % (m1 + 1)))
      OBVIOUS
    <3>3. y \in Nat /\ m1 \in Nat
      BY <1>1, <1>5, <1>7, <2>1
    <3> HIDE DEF y
    <3>4. cut(m1) = v + (m1 - (y % P))
      BY <2>1, <3>1, <3>2, Zenon
    <3> DEFINE b == y % P
    <3>5. b \in Nat
      BY <1>5, <1>7, <3>3, DivMod
    <3>6. cut(m1) = v + (m1 - b)
      BY <3>4
    <3> HIDE DEF b
    <3>7. v + (m1 - b) = y - b
      BY <1>1, <3>1, <3>3, <3>5
    <3> QED BY <3>6, <3>7, Zenon DEF b
  <2>3. y - (y % P) \in Nat /\ v <= y - (y % P) /\ y - (y % P) <= y /\ \E a \in Nat : y - (y % P) = a * P
    BY <1>1, <1>5, CutAt
  <2>4. y = v + P - 1
    BY <1>1, <1>5
  <2> HIDE DEF y
  <2> QED BY <2>2, <2>3, <2>4, Zenon
<1>11. /\ cut(m2) \in Nat /\ v <= cut(m2) /\ cut(m2) <= v + Q - 1
       /\ \E a \in Nat : cut(m2) = a * Q
  <2>1. m2 + 1 = Q /\ m2 = Q - 1
    BY <1>7, <1>9
  <2> DEFINE y == v + (Q - 1)
  <2>2. cut(m2) = y - (y % Q)
    <3>1. y = v + m2
      BY <2>1
    <3>2. cut(m2) = v + (m2 - ((v + m2) % (m2 + 1)))
      OBVIOUS
    <3>3. y \in Nat /\ m2 \in Nat
      BY <1>1, <1>5, <1>7, <2>1
    <3> HIDE DEF y
    <3>4. cut(m2) = v + (m2 - (y % Q))
      BY <2>1, <3>1, <3>2, Zenon
    <3> DEFINE b == y % Q
    <3>5. b \in Nat
      BY <1>5, <1>7, <3>3, DivMod
    <3>6. cut(m2) = v + (m2 - b)
      BY <3>4
    <3> HIDE DEF b
    <3>7. v + (m2 - b) = y - b
      BY <1>1, <3>1, <3>3, <3>5
    <3> QED BY <3>6, <3>7, Zenon DEF b
  <2>3. y - (y % Q) \in Nat /\ v <= y - (y % Q) /\ y - (y % Q) <= y /\ \E a \in Nat : y - (y % Q) = a * Q
    BY <1>1, <1>7, CutAt
  <2>4. y = v + Q - 1
    BY <1>1, <1>7
  <2> HIDE DEF y
  <2> QED BY <2>2, <2>3, <2>4, Zenon
<1>12. t = IF cut(m1) + m1 >= v + w THEN [end |-> cut(m2), left |-> l + 1]
                                    ELSE [end |-> cut(m1), left |-> l]
  BY Zenon DEF Cut, v, w, n, T, L, m1, m2
<1> DEFINE c1 == cut(m1)
           c2 == cut(m2)
<1> HIDE DEF c1, c2, t
<1>13. CASE c1 + m1 >= v + w
  <2>1. t = [end |-> c2, left |-> l + 1]
    BY <1>12, <1>13, Zenon DEF c1, c2
  <2>2. c2 \in Nat /\ v <= c2 /\ c2 <= v + Q - 1
    BY <1>11 DEF c2
  <2>3. PICK a \in Nat : c2 = a * Q
    BY <1>11 DEF c2
  <2>4. c2 * Two[l + 1] = a * T
    <3>1. c2 * (2 * L) = (a * Q) * (2 * L)
      BY <2>3
    <3>2. (a * Q) * (2 * L) = a * ((2 * Q) * L)
      BY <1>5, <1>7
    <3> QED BY <1>5, <1>7, <3>1, <3>2
  <2>5. t.end = c2 /\ t.left = l + 1 /\ l + 1 \in Int /\ l + 1 > 0
    BY <1>4, <2>1
  <2>6. Ends(t)
    BY <2>4, <2>5 DEF Ends, T
  <2>7. c2 < v + w
    BY <1>1, <1>3, <1>7, <2>2
  <2>8. t \in [end : Nat, left : Int]
    BY <2>1, <2>2, <2>5
  <2> QED BY <2>2, <2>5, <2>6, <2>7, <2>8 DEF v, w, t
<1>14. CASE ~(c1 + m1 >= v + w)
  <2>1. t = [end |-> c1, left |-> l]
    BY <1>12, <1>14, Zenon DEF c1, c2
  <2>2. c1 \in Nat /\ v <= c1 /\ c1 <= v + P - 1
    BY <1>10 DEF c1
  <2>3. PICK a \in Nat : c1 = a * P
    BY <1>10 DEF c1
  <2>4. c1 * Two[l] = a * T
    <3>1. c1 * L = (a * P) * L
      BY <2>3
    <3>2. (a * P) * L = a * (P * L)
      BY <1>5
    <3> QED BY <1>5, <3>1, <3>2 DEF L
  <2>5. t.end = c1 /\ t.left = l /\ l \in Int
    BY <1>4, <2>1
  <2>6. ASSUME ~(l > 0) PROVE c1 = 0
    <3>1. l = 0
      BY <1>4, <2>6
    <3>2. L = 1
      BY <3>1, TwoLaw DEF L
    <3>3. P = T /\ c1 = a * T
      BY <1>5, <2>3, <3>2
    <3>4. c1 + (T - 1) < v + w /\ v + w <= 2 * T - 1
      BY <1>1, <1>8, <1>14, <2>2, <3>3
    <3>5. a * T < 1 * T
      BY <1>1, <2>2, <3>3, <3>4
    <3>6. a < 1
      BY <1>1, <3>5, LessTimes
    <3>7. a = 0
      BY <3>6
    <3> QED BY <1>1, <3>3, <3>7
  <2>7. Ends(t)
    BY <2>4, <2>5, <2>6 DEF Ends, T
  <2>8. c1 < v + w
    BY <1>1, <1>3, <1>5, <2>2
  <2>9. t \in [end : Nat, left : Int]
    BY <2>1, <2>2, <2>5
  <2> QED BY <2>2, <2>5, <2>7, <2>8, <2>9 DEF v, w, t
<1> QED BY <1>13, <1>14

-----------------------------------------------------------------------------
(* One step. *)

\* A symbol is appended.
LEMMA OneMoreSent ==
  ASSUME NEW s \in Seq(Symbols), NEW x \in Symbols
  PROVE  /\ Append(s, x) \in Seq(Symbols) /\ Len(s) \in Nat
         /\ Len(Append(s, x)) = Len(s) + 1
         /\ Append(s, x)[Len(s) + 1] = x
         /\ \A p \in 1 .. Len(s) : Append(s, x)[p] = s[p]
         /\ Append(s, x) # <<>>
OBVIOUS

\* A turn is appended.
LEMMA OneMoreTurn ==
  ASSUME NEW s \in Seq(Intervals), s # <<>>, NEW j \in Intervals
  PROVE  /\ Append(s, j) \in Seq(Intervals) /\ Append(s, j) # <<>>
         /\ Len(s) \in Nat \ {0} /\ s[Len(s)] \in Intervals
         /\ Len(Append(s, j)) = Len(s) + 1
         /\ Append(s, j)[Len(s) + 1] = j
         /\ \A p \in 1 .. Len(s) : Append(s, j)[p] = s[p]
OBVIOUS

\* A turn of the encoder's normalize.
LEMMA ShiftOutIs ==
  ASSUME NEW e, Coder(e), InWhole(e.rem, e.val, e.rng), Narrow(e)
  PROVE  LET f == shiftOut(e)
             c == e.val \div CodeBot
             u == e.val % CodeBot
         IN /\ Coder(f)
            /\ InWhole(f.rem, f.val, f.rng)
            /\ f.rng = e.rng * Sym /\ f.rng <= CodeTop
            /\ f.val = u * Sym
            /\ ~f.err => /\ ~e.err
                        /\ Len(Bytes(e)) \in Nat
                        /\ Len(Bytes(f)) = Len(Bytes(e)) + 1
                        /\ Number(Bytes(f))[Len(Bytes(f))] = Number(Bytes(e))[Len(Bytes(e))] * Sym + c
<1> DEFINE v == e.val
           w == e.rng
           c == v \div CodeBot
           u == v % CodeBot
           g == carryOut(e, c)
           f == shiftOut(e)
           x == u * Sym
           y == w * Sym
<1>1. w <= CodeBot /\ w \in Nat /\ v \in Nat
  BY DEF Narrow, Coder
<1>2. /\ Coder(g)
      /\ InWhole(g.rem, x, y)
      /\ ~g.err => /\ ~e.err
                  /\ Len(Bytes(e)) \in Nat
                  /\ Len(Bytes(g)) = Len(Bytes(e)) + 1
                  /\ Number(Bytes(g))[Len(Bytes(g))] = Number(Bytes(e))[Len(Bytes(e))] * Sym + c
  <2>1. InWhole(e.rem, v, w) /\ w <= CodeBot
    BY <1>1
  <2> HIDE DEF v, w
  <2> QED BY <2>1, ShiftIs
<1>3. f = [g EXCEPT !.val = x, !.rng = y]
  <2>1. CodeBot = Two[CodeShift]
    BY Sizes
  <2>2. (v * Sym) % CodeTop = x
    BY <1>1, ByteLeaves
  <2>3. f = [g EXCEPT !.val = (v * Sym) % CodeTop, !.rng = y]
    BY <2>1, Zenon DEF shiftOut
  <2> QED BY <2>2, <2>3, Zenon
<1>4. y <= CodeTop
  <2>1. w * Sym <= CodeBot * Sym
    BY <1>1, Sizes, Times
  <2> QED BY <2>1, Sizes
<1>5. x \in Nat /\ y \in Nat
  BY <1>2 DEF InWhole
<1> HIDE DEF f, g, x, y
<1>6. /\ g \in [out : Seq(Octets), rng : Nat, val : Nat, rem : -1 .. SymMax, ext : Nat, err : BOOLEAN]
      /\ Len(g.out) <= Storage
  BY <1>2 DEF Coder
<1>7. /\ f \in [out : Seq(Octets), rng : Nat, val : Nat, rem : -1 .. SymMax, ext : Nat, err : BOOLEAN]
      /\ f.out = g.out /\ f.rem = g.rem /\ f.ext = g.ext /\ f.err = g.err /\ f.val = x /\ f.rng = y
  BY <1>3, <1>5, <1>6
<1>8. Coder(f) /\ Bytes(f) = Bytes(g)
  BY <1>6, <1>7 DEF Coder, Bytes
<1> QED BY <1>2, <1>4, <1>7, <1>8, Zenon DEF f, x, y

\* The ideal coder codes a symbol.
LEMMA CodedIs ==
  ASSUME NEW i \in Intervals, ~Narrow(i), NEW x \in Symbols
  PROVE  LET j == Coded(i, x)
             ft == Width(x.cdf)
         IN /\ j \in Intervals
            /\ j.low = i.low + From(i.rng, Low(x), ft)
            /\ j.rng = Span(i.rng, Low(x), High(x), ft)
            /\ j.bytes = i.bytes /\ j.coded = i.coded + 1
            /\ From(i.rng, Low(x), ft) \in Nat /\ j.rng \in Nat
            /\ From(i.rng, Low(x), ft) + j.rng <= i.rng
<1> DEFINE j == Coded(i, x)
           fl == Low(x)
           fh == High(x)
           ft == Width(x.cdf)
           rng == i.rng
           r == rng \div ft
           d == From(rng, fl, ft)
           w == Span(rng, fl, fh, ft)
           b == r * (ft - fh)
<1>1. i \in [low : Nat, rng : Nat \ {0}, bytes : Nat, coded : Nat] /\ rng \in Nat /\ i.low \in Nat
  BY DEF Intervals
<1>2. IsPart(fl, fh, ft) /\ ft <= CodeBot /\ ft \in Nat
  <2>1. IsPart(fl, fh, ft) /\ ft <= CodeBot
    BY SymbolPart
  <2> QED BY <2>1 DEF IsPart
<1>3. ft <= rng
  <2>1. ~(rng <= CodeBot)
    BY DEF Narrow
  <2> HIDE DEF ft, rng
  <2> QED BY <1>1, <1>2, <2>1, Sizes
<1>4. PartLaw(rng, fl, fh, ft, r, d, w, b)
  <2> HIDE DEF rng, fl, fh, ft
  <2> QED BY <1>1, <1>2, <1>3, PartIs
<1>5. /\ d \in Nat /\ w \in Nat \ {0} /\ b \in Nat /\ d + w = rng - b
      /\ fl > 0 => d = rng - r * (ft - fl) /\ w = r * (fh - fl)
      /\ ~(fl > 0) => fl = 0 /\ d = 0
  BY <1>4, Zenon DEF PartLaw
<1>6. r * (ft - fl) \in Int
  <2>1. r \in Nat /\ fl \in Nat
    BY <1>2, <1>4 DEF PartLaw, IsPart
  <2> HIDE DEF r, fl, ft
  <2> QED BY <1>2, <2>1
<1>7. j = [i EXCEPT !.low = i.low + d, !.rng = w, !.coded = i.coded + 1]
  <2>1. j = [i EXCEPT !.low = IF fl > 0 THEN i.low + rng - r * (ft - fl) ELSE i.low,
                      !.rng = IF fl > 0 THEN r * (fh - fl) ELSE rng - b,
                      !.coded = i.coded + 1]
    BY Zenon DEF Coded, Part
  <2>2. (IF fl > 0 THEN r * (fh - fl) ELSE rng - b) = w
    BY Zenon DEF Span
  <2>3. (IF fl > 0 THEN i.low + rng - r * (ft - fl) ELSE i.low) = i.low + d
    <3> DEFINE a == r * (ft - fl)
               o == i.low
    <3>1. a \in Int /\ o \in Nat /\ (fl > 0 => d = rng - a) /\ (~(fl > 0) => d = 0)
      BY <1>1, <1>5, <1>6
    <3> HIDE DEF a, o, d, rng
    <3>2. (IF fl > 0 THEN o + rng - a ELSE o) = o + d
      BY <1>1, <3>1
    <3> QED BY <3>2, Zenon DEF a, o
  <2> QED BY <2>1, <2>2, <2>3, Zenon
<1> DEFINE z == i.low + d
<1>8. z \in Nat
  BY <1>1, <1>5
<1> DEFINE k == i.coded + 1
<1>13. k \in Nat
  BY <1>1
<1> HIDE DEF j, z, d, w, b, k
<1>9. j = [i EXCEPT !.low = z, !.rng = w, !.coded = k]
  BY <1>7, Zenon DEF z, k
<1>10. /\ j \in [low : Nat, rng : Nat \ {0}, bytes : Nat, coded : Nat]
       /\ j.low = z /\ j.rng = w /\ j.bytes = i.bytes /\ j.coded = k
  BY <1>1, <1>5, <1>8, <1>9, <1>13
<1>11. d + w <= rng
  <2> HIDE DEF rng
  <2> QED BY <1>1, <1>5
<1>12. j \in Intervals /\ w \in Nat
  BY <1>5, <1>10 DEF Intervals
<1> QED BY <1>5, <1>10, <1>11, <1>12, Zenon DEF j, z, d, w, k

\* The ideal coder scales its interval.
LEMMA ScaledIs ==
  ASSUME NEW i \in Intervals
  PROVE  LET j == Scaled(i)
         IN /\ j \in Intervals
            /\ j.low = i.low * Sym /\ j.rng = i.rng * Sym
            /\ j.bytes = i.bytes + 1 /\ j.coded = i.coded
<1> DEFINE a == i.low * Sym
           b == i.rng * Sym
           j == Scaled(i)
<1>1. i \in [low : Nat, rng : Nat \ {0}, bytes : Nat, coded : Nat] /\ Sym \in Nat
  BY Sizes DEF Intervals
<1>2. i.low \in Nat /\ i.rng \in Nat \ {0}
  BY <1>1
<1>3. a \in Nat /\ b \in Nat \ {0}
  <2> DEFINE r == i.rng
             y == Sym
  <2>1. r \in Nat /\ r >= 1 /\ y \in Nat /\ y >= 1
    BY <1>2, Sizes
  <2> HIDE DEF r, y
  <2>2. r * y \in Nat /\ 1 * y <= r * y
    BY <2>1, Times
  <2>3. b \in Nat \ {0}
    BY <2>1, <2>2 DEF r, y
  <2> QED BY <1>1, <1>2, <2>3
<1> DEFINE k == i.bytes + 1
<1>4. j = [i EXCEPT !.low = a, !.rng = b, !.bytes = k]
  BY Zenon DEF Scaled
<1>6. k \in Nat
  BY <1>1
<1> HIDE DEF a, b, j, k
<1>5. /\ j \in [low : Nat, rng : Nat \ {0}, bytes : Nat, coded : Nat]
      /\ j.low = a /\ j.rng = b /\ j.bytes = k /\ j.coded = i.coded
  BY <1>1, <1>3, <1>4, <1>6
<1> QED BY <1>5, Zenon DEF j, a, b, k, Intervals

\* The invariant of the registers holds at the start ...
LEMMA StreamStarts ==
  ASSUME StreamInit
  PROVE  StreamTyped /\ Contained
<1> USE DEF StreamInit
<1>1. Coder(NewRangeEncoder)
  <2>1. CodeTop \in Nat /\ Storage \in Nat /\ SymMax \in Nat
    BY Sizes, WidthsAssumption
  <2>2. <<>> \in Seq(Octets) /\ Len(<<>>) = 0 /\ -1 \in -1 .. SymMax
    BY <2>1
  <2> QED BY <2>1, <2>2 DEF Coder, NewRangeEncoder
<1>2. Decoder(firstIn(<<>>))
  <2>1. <<>> \in Seq(Octets)
    OBVIOUS
  <2> QED BY <2>1, FirstIs
<1>3. Whole \in Intervals /\ CodeTop \in Nat \ {0}
  BY Sizes DEF Whole, Intervals
<1>4. ideal \in Seq(Intervals) /\ ideal # <<>> /\ Now = Whole
  <2> DEFINE w == Whole
  <2>1. w \in Intervals /\ ideal = <<w>>
    BY <1>3
  <2> HIDE DEF w
  <2>2. ideal \in Seq(Intervals) /\ ideal # <<>> /\ Len(ideal) = 1 /\ ideal[1] = w
    BY <2>1
  <2> QED BY <2>2 DEF Now, w
<1>5. StreamTyped
  <2>1. /\ stage = "encode" /\ enc = NewRangeEncoder /\ dec = firstIn(<<>>)
        /\ tail = [end |-> 0, left |-> 0] /\ sent = <<>> /\ got = <<>> /\ taken = 0
    OBVIOUS
  <2>2. sent \in Seq(Symbols) /\ got \in Seq(Nat) /\ taken \in Nat
    BY <2>1
  <2>3. tail \in [end : Nat, left : Int]
    BY <2>1
  <2> QED BY <1>1, <1>2, <1>4, <2>1, <2>2, <2>3 DEF StreamTyped
<1>6. InWhole(-1, 0, CodeTop)
  <2>1. SymMax \in Nat
    BY Sizes
  <2> QED BY <1>3, <2>1 DEF InWhole
<1>7. Contained
  <2>1. /\ stage = "encode" /\ enc = NewRangeEncoder /\ tail = [end |-> 0, left |-> 0] /\ sent = <<>>
    OBVIOUS
  <2>2. enc.rem = -1 /\ enc.val = 0 /\ enc.rng = CodeTop
    BY <2>1 DEF NewRangeEncoder
  <2>3. Now.rng = CodeTop /\ Now.coded = 0
    BY <1>4 DEF Whole
  <2> QED BY <1>3, <1>6, <2>1, <2>2, <2>3 DEF Contained
<1> QED BY <1>5, <1>7

\* What EncodeCDF does to the coder and to the ideal one.
LEMMA EncodeStep ==
  ASSUME StreamTyped, Contained, NEW cdf \in Cdfs, NEW s \in 0 .. Len(cdf) - 2, EncodeCDF(cdf, s)
  PROVE  LET x == [cdf |-> cdf, sym |-> s]
         IN /\ x \in Symbols /\ x.cdf = cdf
            /\ sent' = Append(sent, x)
            /\ enc' = select(enc, Low(x), High(x), Width(cdf))
            /\ ideal' = Append(ideal, Coded(Now, x))
            /\ Now \in Intervals /\ ~Narrow(Now) /\ Now.rng = enc.rng /\ Now.coded = Len(sent)
            /\ Width(cdf) <= enc.rng /\ enc.rng \in Nat
            /\ IsPart(Low(x), High(x), Width(cdf))
            /\ Coded(Now, x) \in Intervals
<1> DEFINE x == [cdf |-> cdf, sym |-> s]
<1>1. x.cdf = cdf /\ x.sym = s
  OBVIOUS
<1>2. /\ stage = "encode" /\ ~Narrow(enc) /\ cdf[s + 1] < cdf[s + 2]
      /\ enc' = select(enc, cdf[s + 1] - cdf[1], cdf[s + 2] - cdf[1], Width(cdf))
      /\ sent' = Append(sent, x)
      /\ ideal' = Append(ideal, Part(Now, cdf[s + 1] - cdf[1], cdf[s + 2] - cdf[1], Width(cdf)))
  BY DEF EncodeCDF
<1>3. x \in Symbols
  <2>1. Len(cdf) \in Nat
    BY TableIs
  <2>2. s \in Nat /\ s <= Len(cdf) - 2
    BY <2>1
  <2>3. x \in [cdf : Cdfs, sym : Nat]
    BY <2>2
  <2> HIDE DEF x
  <2> QED BY <1>1, <1>2, <2>2, <2>3 DEF Symbols
<1> HIDE DEF x
<1>4. enc' = select(enc, Low(x), High(x), Width(cdf)) /\ ideal' = Append(ideal, Coded(Now, x))
  BY <1>1, <1>2, Zenon DEF Coded, Low, High
<1>5. Now \in Intervals /\ Now.rng = enc.rng /\ Now.coded = Len(sent)
  <2>1. ideal \in Seq(Intervals) /\ ideal # <<>>
    BY DEF StreamTyped
  <2>2. ideal[Len(ideal)] \in Intervals
    BY <2>1
  <2> QED BY <1>2, <2>2 DEF Contained, Now
<1>6. ~Narrow(Now)
  BY <1>2, <1>5 DEF Narrow
<1>7. IsPart(Low(x), High(x), Width(cdf)) /\ Width(cdf) <= CodeBot
  BY <1>1, <1>3, SymbolPart
<1>8. Width(cdf) <= enc.rng /\ enc.rng \in Nat
  <2>1. enc.rng \in Nat
    BY DEF StreamTyped, Coder
  <2>2. ~(enc.rng <= CodeBot) /\ CodeBot \in Nat /\ Width(cdf) \in Nat
    BY <1>2, <1>7, Sizes DEF Narrow, IsPart
  <2> DEFINE r == enc.rng
             w == Width(cdf)
  <2> HIDE DEF r, w
  <2>3. w <= r
    BY <1>7, <2>1, <2>2 DEF r, w
  <2> QED BY <2>1, <2>3 DEF r, w
<1>9. Coded(Now, x) \in Intervals
  BY <1>3, <1>5, <1>6, CodedIs
<1> QED BY <1>1, <1>2, <1>3, <1>4, <1>5, <1>6, <1>7, <1>8, <1>9, Zenon DEF x

\* The ideal coder's last interval.
LEMMA TypedNow ==
  ASSUME StreamTyped
  PROVE  /\ Now \in Intervals /\ Now = ideal[Len(ideal)] /\ Len(ideal) \in Nat \ {0}
         /\ Now.low \in Nat /\ Now.rng \in Nat /\ Now.bytes \in Nat /\ Now.coded \in Nat
<1>1. ideal \in Seq(Intervals) /\ ideal # <<>>
  BY DEF StreamTyped
<1>2. ideal[Len(ideal)] \in Intervals /\ Len(ideal) \in Nat \ {0}
  BY <1>1
<1>3. Now \in Intervals /\ Now = ideal[Len(ideal)]
  BY <1>2 DEF Now
<1> QED BY <1>2, <1>3 DEF Intervals

\* A turn is appended to the history.
LEMMA NextTurn ==
  ASSUME StreamTyped, NEW j \in Intervals, ideal' = Append(ideal, j)
  PROVE  /\ ideal' \in Seq(Intervals) /\ ideal' # <<>>
         /\ Len(ideal') = Len(ideal) + 1
         /\ Now' = j
         /\ ideal'[Len(ideal) + 1] = j
         /\ \A p \in 1 .. Len(ideal) : ideal'[p] = ideal[p]
<1>1. ideal \in Seq(Intervals) /\ ideal # <<>>
  BY DEF StreamTyped
<1>2. /\ ideal' \in Seq(Intervals) /\ ideal' # <<>>
      /\ Len(ideal') = Len(ideal) + 1
      /\ ideal'[Len(ideal) + 1] = j
      /\ \A p \in 1 .. Len(ideal) : ideal'[p] = ideal[p]
  BY <1>1, OneMoreTurn
<1>3. Now' = j
  BY <1>2 DEF Now
<1> QED BY <1>2, <1>3

\* What Done does.
LEMMA DoneStep ==
  ASSUME StreamTyped, Contained, Done
  PROVE  LET j == [Now EXCEPT !.low = @ - enc.val + Cut(enc).end, !.rng = 1]
         IN /\ tail' = Cut(enc) /\ ideal' = Append(ideal, j)
            /\ tail' \in [end : Nat, left : Int]
            /\ enc.val <= tail'.end /\ tail'.end < enc.val + enc.rng
            /\ Ends(tail')
            /\ enc.val \in Nat /\ enc.rng \in Nat /\ enc.rng = Now.rng /\ ~Narrow(Now)
            /\ Now.coded = Len(sent)
            /\ j \in Intervals /\ j.rng = 1 /\ j.bytes = Now.bytes /\ j.coded = Now.coded
            /\ j.low = Now.low + (tail'.end - enc.val)
<1> DEFINE j == [Now EXCEPT !.low = @ - enc.val + Cut(enc).end, !.rng = 1]
           t == Cut(enc)
<1>1. stage = "encode" /\ ~Narrow(enc) /\ tail' = t /\ ideal' = Append(ideal, j)
  BY DEF Done
<1>2. /\ Coder(enc) /\ InWhole(enc.rem, enc.val, enc.rng) /\ enc.rng <= CodeTop
      /\ Now.rng = enc.rng /\ Now.coded = Len(sent)
  BY <1>1 DEF StreamTyped, Contained
<1>3. /\ t \in [end : Nat, left : Int]
      /\ enc.val <= t.end /\ t.end < enc.val + enc.rng
      /\ Ends(t)
  BY <1>1, <1>2, CutIs
<1>4. enc.val \in Nat /\ enc.rng \in Nat
  BY <1>2 DEF Coder
<1>5. ~Narrow(Now)
  BY <1>1, <1>2 DEF Narrow
<1>6. Now \in [low : Nat, rng : Nat \ {0}, bytes : Nat, coded : Nat] /\ Now.low \in Nat
  BY TypedNow DEF Intervals
<1> HIDE DEF t
<1> DEFINE y == Now.low + (t.end - enc.val)
<1>7. y \in Nat /\ y = Now.low - enc.val + t.end
  <2>1. t.end \in Nat
    BY <1>3
  <2> QED BY <1>3, <1>4, <1>6, <2>1
<1>8. j = [Now EXCEPT !.low = y, !.rng = 1]
  BY <1>7, Zenon DEF t
<1> HIDE DEF j, y
<1>9. /\ j \in [low : Nat, rng : Nat \ {0}, bytes : Nat, coded : Nat]
      /\ j.low = y /\ j.rng = 1 /\ j.bytes = Now.bytes /\ j.coded = Now.coded
  <2>1. 1 \in Nat \ {0}
    OBVIOUS
  <2> DEFINE one == 1
             S == Nat \ {0}
  <2>2. one \in S /\ one = 1 /\ Now \in [low : Nat, rng : S, bytes : Nat, coded : Nat]
    BY <1>6, <2>1
  <2>3. j = [Now EXCEPT !.low = y, !.rng = one]
    BY <1>8
  <2> HIDE DEF one, S
  <2>4. /\ j \in [low : Nat, rng : S, bytes : Nat, coded : Nat]
        /\ j.low = y /\ j.rng = one /\ j.bytes = Now.bytes /\ j.coded = Now.coded
    BY <1>7, <2>2, <2>3
  <2> QED BY <2>2, <2>4 DEF S
<1>10. j \in Intervals
  BY <1>9 DEF Intervals
<1> QED BY <1>1, <1>2, <1>3, <1>4, <1>5, <1>9, <1>10, Zenon DEF j, t, y

\* One turn of the loop of Done.
LEMMA FlushStep ==
  ASSUME StreamTyped, Contained, Flush
  PROVE  LET c == tail.end \div CodeBot
             u == tail.end % CodeBot
         IN /\ Coder(enc')
            /\ tail' \in [end : Nat, left : Int]
            /\ tail'.end = u * Sym /\ tail'.left = tail.left - SymBits
            /\ tail.end \in Nat
            /\ InWhole(enc'.rem, tail'.end, 1)
            /\ ideal' = Append(ideal, Scaled(Now))
            /\ ~enc'.err => /\ ~enc.err
                           /\ Len(Bytes(enc)) \in Nat
                           /\ Len(Bytes(enc')) = Len(Bytes(enc)) + 1
                           /\ Number(Bytes(enc'))[Len(Bytes(enc'))]
                                = Number(Bytes(enc))[Len(Bytes(enc))] * Sym + c
<1> DEFINE v == tail.end
           c == v \div CodeBot
           u == v % CodeBot
           x == u * Sym
<1>1. /\ stage = "flush" /\ enc' = flushOut(enc, tail) /\ tail' = flushed(tail)
      /\ ideal' = Append(ideal, Scaled(Now))
  BY DEF Flush
<1>2. Coder(enc) /\ InWhole(enc.rem, v, 1) /\ tail \in [end : Nat, left : Int] /\ v \in Nat
  BY <1>1 DEF StreamTyped, Contained
<1>3. enc' = carryOut(enc, c)
  <2>1. CodeBot = Two[CodeShift]
    BY Sizes
  <2> QED BY <1>1, <2>1, Zenon DEF flushOut
<1>4. tail' = [end |-> x, left |-> tail.left - SymBits]
  <2>1. (v * Sym) % CodeTop = x
    BY <1>2, ByteLeaves
  <2> QED BY <1>1, <2>1, Zenon DEF flushed
<1>5. /\ Coder(enc')
      /\ InWhole(enc'.rem, x, 1 * Sym)
      /\ ~enc'.err => /\ ~enc.err
                     /\ Len(Bytes(enc)) \in Nat
                     /\ Len(Bytes(enc')) = Len(Bytes(enc)) + 1
                     /\ Number(Bytes(enc'))[Len(Bytes(enc'))] = Number(Bytes(enc))[Len(Bytes(enc))] * Sym + c
  <2> DEFINE e == enc
             f == carryOut(e, c)
  <2>1. 1 <= CodeBot /\ Coder(e) /\ InWhole(e.rem, v, 1)
    BY <1>2, Sizes
  <2>2. /\ Coder(f)
        /\ InWhole(f.rem, x, 1 * Sym)
        /\ ~f.err => /\ ~e.err
                    /\ Len(Bytes(e)) \in Nat
                    /\ Len(Bytes(f)) = Len(Bytes(e)) + 1
                    /\ Number(Bytes(f))[Len(Bytes(f))] = Number(Bytes(e))[Len(Bytes(e))] * Sym + c
    <3> HIDE DEF e, v
    <3> QED BY <2>1, ShiftIs
  <2> QED BY <1>3, <2>2, Zenon
<1>6. InWhole(enc'.rem, x, 1) /\ x \in Nat
  <2>1. x \in Nat
    BY <1>5 DEF InWhole
  <2>2. 0 \in Nat /\ 1 \in Nat \ {0} /\ 0 + 1 <= 1 * Sym /\ x + 0 = x
    BY <2>1, Sizes
  <2> HIDE DEF x
  <2>3. InWhole(enc'.rem, x + 0, 1)
    BY <1>5, <2>2, PartOfWhole
  <2> QED BY <2>1, <2>2, <2>3
<1> HIDE DEF x
<1>7. tail.left - SymBits \in Int
  BY <1>2, WidthsAssumption
<1>8. tail' \in [end : Nat, left : Int] /\ tail'.end = x /\ tail'.left = tail.left - SymBits
  BY <1>4, <1>6, <1>7
<1> QED BY <1>1, <1>2, <1>5, <1>6, <1>8, Zenon DEF x

\* Done's last byte releases what is held.
LEMMA ReleaseStep ==
  ASSUME StreamTyped, Release
  PROVE  /\ Coder(enc')
         /\ ~enc'.err => ~enc.err
         /\ \/ enc.rem < 0 /\ enc.ext = 0 /\ enc' = enc
            \/ /\ enc' = carryOut(enc, 0) /\ enc'.rem = 0 /\ enc'.ext = 0
               /\ ~enc'.err => enc'.out = enc.out \o Held(enc, 0)
<1>1. Coder(enc) /\ enc' = release(enc)
  BY DEF StreamTyped, Release
<1>2. CASE enc.rem >= 0 \/ enc.ext > 0
  <2>1. enc' = carryOut(enc, 0)
    BY <1>1, <1>2, Zenon DEF release
  <2>2. 0 \in Nat /\ 0 < 2 * Sym /\ 0 # SymMax /\ 0 % Sym = 0 /\ 0 \div Sym = 0
    <3>1. Sym \in Nat /\ Sym >= 2 /\ SymMax = Sym - 1
      BY Sizes DEF SymMax
    <3>2. 0 = 0 * Sym + 0 /\ 0 \in 0 .. Sym - 1 /\ Sym \in Nat \ {0}
      BY <3>1
    <3> QED BY <3>1, <3>2
  <2> DEFINE z == 0
             f == carryOut(enc, z)
  <2>3. z \in Nat /\ z < 2 * Sym /\ z # SymMax /\ z % Sym = 0 /\ z \div Sym = 0
    BY <2>2
  <2>4. enc' = f
    BY <2>1
  <2> HIDE DEF z
  <2>5. /\ Coder(f)
        /\ f.rem = z % Sym /\ f.ext = 0
        /\ ~f.err => ~enc.err /\ f.out = enc.out \o Held(enc, z \div Sym)
    BY <1>1, <2>3, CarryOutIs
  <2> QED BY <2>1, <2>3, <2>4, <2>5, Zenon
<1>3. CASE ~(enc.rem >= 0 \/ enc.ext > 0)
  <2>1. enc' = enc
    BY <1>1, <1>3, Zenon DEF release
  <2>2. enc.rem \in Int /\ enc.ext \in Nat
    BY <1>1, Digits DEF Coder
  <2> QED BY <1>1, <1>3, <2>1, <2>2
<1> QED BY <1>2, <1>3

\* ... and every step keeps it.
LEMMA StreamSteps ==
  ASSUME StreamTyped, Contained, [StreamNext]_streamVars
  PROVE  StreamTyped' /\ Contained'
<1>0. /\ stage \in {"encode", "flush", "refused", "written", "decode", "foreign"}
      /\ Coder(enc)
      /\ tail \in [end : Nat, left : Int]
      /\ Decoder(dec)
      /\ sent \in Seq(Symbols)
      /\ got \in Seq(Nat)
      /\ taken \in Nat
      /\ ideal \in Seq(Intervals) /\ ideal # <<>>
  BY DEF StreamTyped
<1>1. ASSUME NEW cdf \in Cdfs, NEW s \in 0 .. Len(cdf) - 2, EncodeCDF(cdf, s)
      PROVE  StreamTyped' /\ Contained'
  <2> DEFINE x == [cdf |-> cdf, sym |-> s]
             j == Coded(Now, x)
  <2>1. /\ x \in Symbols /\ x.cdf = cdf
        /\ sent' = Append(sent, x)
        /\ enc' = select(enc, Low(x), High(x), Width(cdf))
        /\ ideal' = Append(ideal, j)
        /\ Now \in Intervals /\ ~Narrow(Now) /\ Now.rng = enc.rng /\ Now.coded = Len(sent)
        /\ Width(cdf) <= enc.rng /\ enc.rng \in Nat
        /\ IsPart(Low(x), High(x), Width(cdf))
        /\ j \in Intervals
    BY <1>1, EncodeStep
  <2>2. stage = "encode" /\ UNCHANGED <<stage, tail, dec, got, taken>>
    BY <1>1 DEF EncodeCDF
  <2>3. InWhole(enc.rem, enc.val, enc.rng) /\ enc.rng <= CodeTop /\ tail = [end |-> 0, left |-> 0]
    BY <2>2 DEF Contained
  <2> HIDE DEF x
  <2>4. /\ Coder(enc')
        /\ enc'.rng = Span(enc.rng, Low(x), High(x), Width(cdf))
        /\ enc'.rng <= enc.rng
        /\ InWhole(enc'.rem, enc'.val, enc'.rng)
    <3> DEFINE ft == Width(cdf)
    <3> HIDE DEF ft
    <3>1. LET f == select(enc, Low(x), High(x), ft)
          IN /\ Coder(f)
             /\ f.rng = Span(enc.rng, Low(x), High(x), ft)
             /\ f.rng <= enc.rng
             /\ InWhole(f.rem, f.val, f.rng)
      BY <1>0, <2>1, <2>3, SelectIs DEF ft
    <3> QED BY <2>1, <3>1, Zenon DEF ft
  <2>5. /\ j.rng = Span(Now.rng, Low(x), High(x), Width(x.cdf)) /\ j.coded = Now.coded + 1
    BY <2>1, CodedIs
  <2> HIDE DEF j
  <2>6. ideal' \in Seq(Intervals) /\ ideal' # <<>> /\ Now' = j
    BY <2>1, NextTurn
  <2>7. sent' \in Seq(Symbols) /\ sent' # <<>> /\ Len(sent') = Len(sent) + 1
    BY <1>0, <2>1, OneMoreSent
  <2>8. StreamTyped'
    BY <1>0, <2>2, <2>4, <2>6, <2>7 DEF StreamTyped
  <2>9. enc'.rng <= CodeTop
    <3>1. enc'.rng \in Nat /\ CodeTop \in Nat
      BY <2>4, Sizes DEF Coder
    <3> QED BY <2>1, <2>3, <2>4, <3>1
  <2>10. Now'.rng = enc'.rng /\ Now'.coded = Len(sent')
    BY <2>1, <2>4, <2>5, <2>6, <2>7, Zenon
  <2>11. Contained'
    BY <2>2, <2>3, <2>4, <2>7, <2>9, <2>10 DEF Contained
  <2> QED BY <2>8, <2>11
<1>2. ASSUME Normalize PROVE StreamTyped' /\ Contained'
  <2>1. /\ stage = "encode" /\ Narrow(enc) /\ enc' = shiftOut(enc) /\ ideal' = Append(ideal, Scaled(Now))
        /\ UNCHANGED <<stage, tail, dec, sent, got, taken>>
    BY <1>2 DEF Normalize
  <2>2. /\ InWhole(enc.rem, enc.val, enc.rng) /\ enc.rng <= CodeTop /\ tail = [end |-> 0, left |-> 0]
        /\ Now.rng = enc.rng /\ Now.coded = Len(sent) /\ (sent = <<>> => enc = NewRangeEncoder)
    BY <2>1 DEF Contained
  <2>3. /\ Coder(enc') /\ InWhole(enc'.rem, enc'.val, enc'.rng)
        /\ enc'.rng = enc.rng * Sym /\ enc'.rng <= CodeTop
    BY <1>0, <2>1, <2>2, ShiftOutIs
  <2>4. /\ Scaled(Now) \in Intervals /\ Scaled(Now).rng = Now.rng * Sym /\ Scaled(Now).coded = Now.coded
    BY TypedNow, ScaledIs
  <2>5. ideal' \in Seq(Intervals) /\ ideal' # <<>> /\ Now' = Scaled(Now)
    BY <2>1, <2>4, NextTurn
  <2>6. sent # <<>>
    <3> SUFFICES ASSUME sent = <<>> PROVE FALSE
      OBVIOUS
    <3>1. enc.rng = CodeTop
      BY <2>2 DEF NewRangeEncoder
    <3>2. ~(CodeTop <= CodeBot)
      <4> DEFINE b == CodeBot
                 t == CodeTop
                 y == Sym
      <4>1. b \in Nat \ {0} /\ y \in Nat /\ 1 < y /\ t = b * y
        BY Sizes
      <4> HIDE DEF b, t, y
      <4>2. 1 * b < y * b
        BY <4>1, TimesLess
      <4>3. ~(t <= b)
        BY <4>1, <4>2
      <4> QED BY <4>3 DEF b, t
    <3> QED BY <2>1, <3>1, <3>2 DEF Narrow
  <2>7. StreamTyped'
    BY <1>0, <2>1, <2>3, <2>5 DEF StreamTyped
  <2>8. Now'.rng = enc'.rng /\ Now'.coded = Len(sent')
    BY <2>1, <2>2, <2>3, <2>4, <2>5, Zenon
  <2>9. Contained'
    BY <2>1, <2>2, <2>3, <2>6, <2>8 DEF Contained
  <2> QED BY <2>7, <2>9
<1>3. ASSUME Done PROVE StreamTyped' /\ Contained'
  <2> DEFINE j == [Now EXCEPT !.low = @ - enc.val + Cut(enc).end, !.rng = 1]
  <2>1. /\ ideal' = Append(ideal, j) /\ j \in Intervals
        /\ tail' \in [end : Nat, left : Int]
        /\ enc.val <= tail'.end /\ tail'.end < enc.val + enc.rng
        /\ enc.val \in Nat /\ enc.rng \in Nat
    BY <1>3, DoneStep
  <2>2. stage = "encode" /\ stage' = "flush" /\ UNCHANGED <<enc, dec, sent, got, taken>>
    BY <1>3 DEF Done
  <2> HIDE DEF j
  <2>3. ideal' \in Seq(Intervals) /\ ideal' # <<>>
    BY <2>1, NextTurn
  <2>4. StreamTyped'
    BY <1>0, <2>1, <2>2, <2>3 DEF StreamTyped
  <2>5. InWhole(enc.rem, tail'.end, 1)
    <3> DEFINE v == enc.val
               w == enc.rng
               d == tail'.end - v
               o == tail'.end
    <3>1. InWhole(enc.rem, v, w)
      BY <2>2 DEF Contained
    <3>2. o \in Nat
      BY <2>1
    <3>3. d \in Nat /\ 1 \in Nat \ {0} /\ d + 1 <= w /\ v + d = o
      BY <2>1, <3>2
    <3> HIDE DEF v, w, d, o
    <3>4. InWhole(enc.rem, v + d, 1)
      BY <3>1, <3>3, PartOfWhole
    <3> QED BY <3>3, <3>4 DEF o
  <2>6. Contained'
    BY <2>2, <2>5 DEF Contained
  <2> QED BY <2>4, <2>6
<1>4. ASSUME Flush PROVE StreamTyped' /\ Contained'
  <2>1. /\ Coder(enc') /\ tail' \in [end : Nat, left : Int] /\ InWhole(enc'.rem, tail'.end, 1)
        /\ ideal' = Append(ideal, Scaled(Now))
    BY <1>4, FlushStep
  <2>2. stage = "flush" /\ UNCHANGED <<stage, dec, sent, got, taken>>
    BY <1>4 DEF Flush
  <2>3. Scaled(Now) \in Intervals
    BY TypedNow, ScaledIs
  <2>4. ideal' \in Seq(Intervals) /\ ideal' # <<>>
    BY <2>1, <2>3, NextTurn
  <2>5. StreamTyped'
    BY <1>0, <2>1, <2>2, <2>4 DEF StreamTyped
  <2>6. Contained'
    BY <2>1, <2>2 DEF Contained
  <2> QED BY <2>5, <2>6
<1>5. ASSUME Release PROVE StreamTyped' /\ Contained'
  <2>1. Coder(enc')
    BY <1>5, ReleaseStep
  <2>2. stage' \in {"refused", "written"} /\ UNCHANGED <<tail, dec, sent, got, taken, ideal>>
    BY <1>5 DEF Release
  <2> QED BY <1>0, <2>1, <2>2 DEF StreamTyped, Contained
<1>6. ASSUME Open PROVE StreamTyped' /\ Contained'
  <2>1. /\ stage' = "decode" /\ dec' = firstIn(enc.out) /\ taken' = 1
        /\ UNCHANGED <<enc, tail, sent, got, ideal>>
    BY <1>6 DEF Open
  <2>2. enc.out \in Seq(Octets)
    BY <1>0 DEF Coder
  <2>3. Decoder(dec')
    BY <2>1, <2>2, FirstIs
  <2> QED BY <1>0, <2>1, <2>3 DEF StreamTyped, Contained
<1>7. ASSUME NEW buf \in Foreign, OpenForeign(buf) PROVE StreamTyped' /\ Contained'
  <2>1. stage' = "foreign" /\ dec' = firstIn(buf) /\ taken' = 1 /\ UNCHANGED <<enc, tail, sent, got, ideal>>
    BY <1>7 DEF OpenForeign
  <2>2. buf \in Seq(Octets)
    BY TablesAssumption
  <2>3. Decoder(dec')
    BY <2>1, <2>2, FirstIs
  <2> QED BY <1>0, <2>1, <2>3 DEF StreamTyped, Contained
<1>8. ASSUME DecNormalize PROVE StreamTyped' /\ Contained'
  <2>1. /\ stage \in {"decode", "foreign"} /\ Narrow(dec) /\ dec' = shiftIn(dec) /\ taken' = taken + 1
        /\ UNCHANGED <<stage, enc, tail, sent, got, ideal>>
    BY <1>8 DEF DecNormalize
  <2>2. Decoder(dec')
    BY <1>0, <2>1, ShiftInIs
  <2> QED BY <1>0, <2>1, <2>2 DEF StreamTyped, Contained
<1>9. ASSUME NEW cdf \in Cdfs, DecodeCDF(cdf) PROVE StreamTyped' /\ Contained'
  <2> DEFINE k == symbolAt(dec, cdf)
             x == [cdf |-> cdf, sym |-> k]
             f == remove(dec, cdf[k + 1] - cdf[1], cdf[k + 2] - cdf[1], Width(cdf))
  <2>1. /\ stage \in {"decode", "foreign"} /\ ~Narrow(dec) /\ dec' = f /\ got' = Append(got, k)
        /\ UNCHANGED <<stage, enc, tail, sent, taken, ideal>>
    BY <1>9 DEF DecodeCDF
  <2>2. x \in Symbols /\ Decoder(f)
    BY <1>0, <2>1, DecodeIs
  <2>3. k \in Nat
    <3>1. x.sym = k
      OBVIOUS
    <3> HIDE DEF x, k
    <3> QED BY <2>2, <3>1 DEF Symbols
  <2> HIDE DEF k, f
  <2>4. Decoder(dec') /\ got' \in Seq(Nat)
    BY <1>0, <2>1, <2>2, <2>3
  <2> QED BY <1>0, <2>1, <2>4 DEF StreamTyped, Contained
<1>10. ASSUME UNCHANGED streamVars PROVE StreamTyped' /\ Contained'
  BY <1>10 DEF streamVars, StreamTyped, Contained, Now
<1> QED BY <1>1, <1>2, <1>3, <1>4, <1>5, <1>6, <1>7, <1>8, <1>9, <1>10, Zenon DEF StreamNext

-----------------------------------------------------------------------------
(* The number that is written. *)

\* The number is the same when a byte has moved from the register to the buffer.
LEMMA ShiftNumber ==
  ASSUME NEW n \in Nat, NEW v \in Nat
  PROVE  (n * CodeTop + v) * Sym
           = (n * Sym + (v \div CodeBot)) * CodeTop + (v % CodeBot) * Sym
<1> DEFINE c == v \div CodeBot
           x == (v % CodeBot) * Sym
           T == CodeTop
           S == Sym
<1>1. T \in Nat /\ S \in Nat
  BY Sizes
<1>2. c \in Nat /\ x \in Nat /\ v * S = c * T + x
  BY ByteLeaves
<1> HIDE DEF c, x, T, S
<1>3. (n * T + v) * S = (n * T) * S + v * S
  BY <1>1
<1>4. (n * T) * S = (n * S) * T
  BY <1>1
<1>5. (n * S + c) * T = (n * S) * T + c * T
  BY <1>1, <1>2
<1> DEFINE a == (n * S) * T
           b == c * T
<1>6. a \in Nat /\ b \in Nat
  BY <1>1, <1>2
<1>7. (n * T + v) * S = a + (b + x) /\ (n * S + c) * T = a + b
  BY <1>2, <1>3, <1>4, <1>5
<1> HIDE DEF a, b
<1>8. (n * T + v) * S = (n * S + c) * T + x
  BY <1>2, <1>6, <1>7
<1> QED BY <1>8, Zenon DEF c, x, T, S

\* The bits of the end that are left become fewer by those of a byte.
LEMMA StillEnds ==
  ASSUME NEW t \in [end : Nat, left : Int], Ends(t), t.left > 0,
         NEW f, f.end = (t.end % CodeBot) * Sym, f.left = t.left - SymBits
  PROVE  Ends(f)
<1> DEFINE v == t.end
           c == v \div CodeBot
           x == (v % CodeBot) * Sym
           T == CodeTop
           S == Sym
           l == t.left
<1>1. T \in Nat \ {0} /\ S \in Nat \ {0} /\ S = Two[SymBits] /\ SymBits \in Nat
  BY Sizes, WidthsAssumption DEF Sym
<1>2. v \in Nat /\ l \in Nat
  OBVIOUS
<1>3. c \in Nat /\ x \in Nat /\ v * S = c * T + x /\ x <= T - S
  BY <1>2, ByteLeaves
<1>4. PICK q \in Int : v * Two[l] = q * T
  BY DEF Ends
<1>5. f.end = x /\ f.left = l - SymBits
  OBVIOUS
<1> HIDE DEF v, c, x, T, S, l
<1>6. CASE l - SymBits > 0
  <2> DEFINE m == l - SymBits
             p == Two[m]
  <2>1. m \in Nat /\ l = SymBits + m
    BY <1>1, <1>2, <1>6
  <2> HIDE DEF m
  <2>2. Two[l] = S * p /\ p \in Nat
    BY <1>1, <2>1, TwoSum, TwoPositive
  <2> HIDE DEF p
  <2>3. x = v * S - c * T
    <3> DEFINE a == v * S
               b == c * T
    <3>1. a \in Int /\ b \in Int /\ a = b + x
      BY <1>1, <1>2, <1>3
    <3> HIDE DEF a, b
    <3>2. x = a - b
      BY <1>3, <3>1
    <3> QED BY <3>2 DEF a, b
  <2>4. x * p = (v * S) * p - (c * T) * p
    <3> DEFINE a == v * S
               b == c * T
    <3>1. a \in Int /\ b \in Int /\ x = a - b
      BY <1>1, <1>2, <1>3, <2>3
    <3> HIDE DEF a, b
    <3>2. x * p = a * p - b * p
      BY <2>2, <3>1
    <3> QED BY <3>2 DEF a, b
  <2>5. (v * S) * p = q * T
    <3>1. (v * S) * p = v * (S * p)
      BY <1>1, <1>2, <2>2
    <3> QED BY <1>4, <2>2, <3>1
  <2>6. (c * T) * p = (c * p) * T
    BY <1>1, <1>3, <2>2
  <2> DEFINE r == c * p
  <2>7. r \in Int
    BY <1>3, <2>2
  <2> HIDE DEF r
  <2>8. x * p = (q - r) * T
    <3>1. (q - r) * T = q * T - r * T
      BY <1>1, <2>7
    <3> QED BY <2>4, <2>5, <2>6, <3>1 DEF r
  <2>9. q - r \in Int
    BY <2>7
  <2>10. f.left > 0 /\ f.end * Two[f.left] = (q - r) * T
    BY <1>5, <1>6, <2>8 DEF p, m
  <2> QED BY <2>9, <2>10 DEF Ends, T
<1>7. CASE ~(l - SymBits > 0)
  <2> DEFINE m == SymBits - l
             p == Two[m]
  <2>1. m \in Nat /\ SymBits = l + m
    BY <1>1, <1>2, <1>7
  <2> HIDE DEF m
  <2>2. S = Two[l] * p /\ p \in Nat /\ Two[l] \in Nat
    BY <1>1, <1>2, <2>1, TwoSum, TwoPositive
  <2> HIDE DEF p
  <2>3. v * S = (q * p) * T
    <3>1. v * (Two[l] * p) = (v * Two[l]) * p
      <4> DEFINE y == Two[l]
      <4>1. y \in Nat
        BY <2>2
      <4> HIDE DEF y
      <4>2. v * (y * p) = (v * y) * p
        BY <1>2, <2>2, <4>1
      <4> QED BY <4>2 DEF y
    <3>2. (q * T) * p = (q * p) * T
      BY <1>1, <2>2
    <3> QED BY <1>4, <2>2, <3>1, <3>2
  <2> DEFINE r == q * p
             k == r - c
  <2>4. r \in Int /\ k \in Int
    <3>1. r \in Int
      BY <2>2
    <3> HIDE DEF r
    <3> QED BY <1>3, <3>1
  <2> HIDE DEF r
  <2>5. x = k * T
    <3>1. k * T = r * T - c * T
      BY <1>1, <1>3, <2>4
    <3> DEFINE a == r * T
               b == c * T
    <3>2. a \in Int /\ b \in Int /\ a = b + x /\ k * T = a - b
      BY <1>1, <1>3, <2>3, <2>4, <3>1 DEF r
    <3> HIDE DEF a, b, k
    <3> QED BY <1>3, <3>2
  <2> HIDE DEF k
  <2>6. ~(k < 0) /\ ~(k > 0)
    <3>1. ASSUME k < 0 PROVE FALSE
      <4>1. k * T < 0 * T
        BY <1>1, <2>4, <3>1, TimesLess
      <4> QED BY <1>1, <1>3, <2>5, <4>1
    <3>2. ASSUME k > 0 PROVE FALSE
      <4>1. 1 * T <= k * T
        BY <1>1, <2>4, <3>2, Times
      <4> QED BY <1>1, <1>3, <2>5, <4>1
    <3> QED BY <3>1, <3>2
  <2>7. x = 0
    BY <1>1, <2>4, <2>5, <2>6
  <2>8. ~(f.left > 0)
    BY <1>5, <1>7
  <2> QED BY <1>5, <2>7, <2>8 DEF Ends
<1> QED BY <1>6, <1>7

\* What was released is what was held.
LEMMA ReleasedNumber ==
  ASSUME StreamTyped, Release, ~enc'.err
  PROVE  LET n == Len(Bytes(enc))
         IN /\ n \in Nat /\ Len(enc'.out) = n
            /\ Number(enc'.out)[n] = Number(Bytes(enc))[n]
            /\ Number(Bytes(enc'))[n] = Number(Bytes(enc))[n]
<1> DEFINE e == enc
           f == enc'
           s == Bytes(e)
           n == Len(s)
           o == Len(e.out)
           k == o + One(e.rem)
           x == e.ext
<1>1. /\ Coder(e) /\ Coder(f)
      /\ \/ e.rem < 0 /\ e.ext = 0 /\ f = e
         \/ f = carryOut(e, 0) /\ f.rem = 0 /\ f.ext = 0 /\ f.out = e.out \o Held(e, 0)
  BY ReleaseStep DEF StreamTyped
<1>2. /\ o \in Nat /\ k \in Nat /\ x \in Nat
      /\ e.out \in Seq(Nat) /\ s \in Seq(Nat) /\ n = k + x
      /\ \A i \in 1 .. o : Byte(s, i) = Byte(e.out, i)
  <2> HIDE DEF e
  <2> QED BY <1>1, ByteOfBytes, Zenon
<1>3. n \in Nat
  BY <1>2
<1>4. CASE e.rem < 0 /\ e.ext = 0 /\ f = e
  <2>1. One(e.rem) = 0
    <3>1. e.rem \in Int
      BY <1>1, Digits DEF Coder
    <3> QED BY <1>4, <3>1 DEF One
  <2>2. n = o
    BY <1>2, <1>4, <2>1
  <2>3. Number(e.out)[n] = Number(s)[n]
    <3> DEFINE t == e.out
    <3>1. t \in Seq(Nat) /\ \A i \in 1 .. n : Byte(t, i) = Byte(s, i)
      BY <1>2, <2>2
    <3> HIDE DEF t, s, n
    <3> QED BY <1>2, <1>3, <3>1, SamePrefix DEF t
  <2> QED BY <1>3, <1>4, <2>2, <2>3, Zenon
<1>5. CASE f = carryOut(e, 0) /\ f.rem = 0 /\ f.ext = 0 /\ f.out = e.out \o Held(e, 0)
  <2> DEFINE w == e.out \o Held(e, 0)
             z == 0
  <2>1. Number(w)[n] = Number(s)[n]
    <3>1. z \in {0, 1} /\ (z = 1 => e.rem \in 0 .. SymMax - 1)
      OBVIOUS
    <3> HIDE DEF e, z
    <3>2. Number(e.out \o Held(e, z))[n] = Number(s)[n] + z
      BY <1>1, <3>1, Released
    <3>3. Number(s)[n] \in Nat
      <4> HIDE DEF s, n
      <4>1. Number(s) \in [Nat -> Nat]
        BY <1>2, NumberLaw
      <4> QED BY <1>3, <4>1
    <3>4. z = 0
      BY DEF z
    <3> DEFINE a == Number(s)[n]
    <3> HIDE DEF a
    <3>5. a + z = a
      BY <3>3, <3>4 DEF a
    <3> QED BY <3>2, <3>4, <3>5, Zenon DEF a
  <2>2. w \in Seq(Octets) /\ Len(w) = n
    <3>1. z \in {0, 1}
      OBVIOUS
    <3>2. e.out \o Held(e, z) \in Seq(Octets) /\ Len(e.out \o Held(e, z)) = k + x
      <4> HIDE DEF e, z
      <4> QED BY <1>1, <3>1, ByteOfHeld, Zenon
    <3> QED BY <1>2, <3>2, Zenon
  <2>3. f.out = w
    BY <1>5
  <2>4. /\ Bytes(f) \in Seq(Nat)
        /\ \A i \in 1 .. Len(f.out) : Byte(Bytes(f), i) = Byte(f.out, i)
    <3> HIDE DEF f
    <3> QED BY <1>1, ByteOfBytes, Zenon
  <2>5. w \in Seq(Nat)
    <3> HIDE DEF w
    <3> QED BY <2>2, OctetsAreNat
  <2>6. Number(Bytes(f))[n] = Number(w)[n]
    <3> DEFINE t == Bytes(f)
    <3>1. t \in Seq(Nat) /\ \A i \in 1 .. n : Byte(t, i) = Byte(w, i)
      BY <2>2, <2>3, <2>4, Zenon
    <3> HIDE DEF t, w, n
    <3> QED BY <1>3, <2>5, <3>1, SamePrefix DEF t
  <2> QED BY <1>3, <2>1, <2>2, <2>3, <2>6, Zenon
<1> QED BY <1>1, <1>4, <1>5

Accurate == Exact /\ Complete /\ InStep

\* The numbers of the encoder and of the ideal coder are equal at the start ...
LEMMA AccurateStarts ==
  ASSUME StreamInit
  PROVE  Accurate
<1>1. StreamTyped /\ Contained
  BY StreamStarts
<1>2. /\ stage = "encode" /\ enc = NewRangeEncoder /\ ideal = <<Whole>>
  BY DEF StreamInit
<1>3. Now = Whole
  BY <1>2 DEF Now
<1>4. Now.low = 0 /\ Now.bytes = 0 /\ enc.val = 0 /\ enc.out = <<>> /\ enc.rem = -1 /\ enc.ext = 0
  BY <1>2, <1>3 DEF Whole, NewRangeEncoder
<1>5. Bytes(enc) \in Seq(Nat) /\ Len(Bytes(enc)) = 0
  <2>1. Coder(enc)
    BY <1>1 DEF StreamTyped
  <2>2. Bytes(enc) \in Seq(Nat) /\ Len(Bytes(enc)) = Len(enc.out) + One(enc.rem) + enc.ext
    BY <2>1, ByteOfBytes, Zenon
  <2> QED BY <1>4, <2>2 DEF One
<1>6. Number(Bytes(enc))[0] = 0
  BY <1>5, NumberLaw
<1>7. Exact
  <2>1. 0 = 0 * CodeTop + 0
    BY Sizes
  <2>2. Register = 0
    BY <1>2, <1>4 DEF Register
  <2> QED BY <1>4, <1>6, <2>1, <2>2 DEF Exact
<1>8. InStep /\ Complete
  BY <1>2, <1>4, <1>5 DEF InStep, Complete
<1> QED BY <1>7, <1>8 DEF Accurate

\* ... and after every step.
LEMMA AccurateSteps ==
  ASSUME StreamTyped, Contained, Accurate, [StreamNext]_streamVars
  PROVE  Accurate'
<1>0. /\ Coder(enc) /\ StreamTyped' /\ Contained'
      /\ tail \in [end : Nat, left : Int] /\ CodeTop \in Nat /\ Sym \in Nat
  BY StreamSteps, Sizes DEF StreamTyped
<1>1. /\ ~enc.err => Now.low = Number(Bytes(enc))[Now.bytes] * CodeTop + Register
      /\ Now.low \in Nat /\ Now.bytes \in Nat
      /\ Number(Bytes(enc))[Now.bytes] \in Nat
  <2>1. Now.low \in Nat /\ Now.bytes \in Nat
    BY TypedNow
  <2>2. Bytes(enc) \in Seq(Nat)
    BY <1>0, ByteOfBytes, Zenon
  <2>3. Number(Bytes(enc)) \in [Nat -> Nat]
    BY <2>2, NumberLaw
  <2> QED BY <2>1, <2>3 DEF Accurate, Exact
<1> DEFINE N == Number(Bytes(enc))[Now.bytes]
<1>2. ASSUME NEW cdf \in Cdfs, NEW s \in 0 .. Len(cdf) - 2, EncodeCDF(cdf, s)
      PROVE  Accurate'
  <2> DEFINE x == [cdf |-> cdf, sym |-> s]
             j == Coded(Now, x)
             ft == Width(cdf)
  <2>1. /\ x \in Symbols /\ x.cdf = cdf
        /\ enc' = select(enc, Low(x), High(x), ft)
        /\ ideal' = Append(ideal, j)
        /\ Now \in Intervals /\ ~Narrow(Now) /\ Now.rng = enc.rng
        /\ ft <= enc.rng
        /\ IsPart(Low(x), High(x), ft)
        /\ j \in Intervals
    BY <1>2, EncodeStep
  <2>2. stage = "encode" /\ stage' = "encode"
    BY <1>2 DEF EncodeCDF
  <2>3. InWhole(enc.rem, enc.val, enc.rng)
    BY <2>2 DEF Contained
  <2> HIDE DEF x, ft
  <2> DEFINE a == From(enc.rng, Low(x), ft)
  <2>4. Bytes(enc') = Bytes(enc) /\ enc'.err = enc.err /\ enc'.val = enc.val + a
    <3>1. LET f == select(enc, Low(x), High(x), ft)
          IN Bytes(f) = Bytes(enc) /\ f.err = enc.err /\ f.val = enc.val + a
      BY <1>0, <2>1, <2>3, SelectIs
    <3> QED BY <2>1, <3>1, Zenon
  <2>5. j.low = Now.low + a /\ j.bytes = Now.bytes /\ a \in Nat
    BY <2>1, CodedIs, Zenon DEF ft
  <2> HIDE DEF j, a
  <2>6. Now' = j
    BY <2>1, NextTurn
  <2>7. Register = enc.val /\ Register' = enc'.val /\ enc.val \in Nat
    BY <1>0, <2>2 DEF Register, Coder
  <2>8. ASSUME ~enc'.err
        PROVE  Now'.low = Number(Bytes(enc'))[Now'.bytes] * CodeTop + Register'
    <3> DEFINE p == N * CodeTop
    <3>1. p \in Nat /\ Now.low = p + enc.val
      BY <1>0, <1>1, <2>4, <2>7, <2>8
    <3> HIDE DEF p
    <3>2. Now.low + a = p + (enc.val + a)
      BY <2>5, <2>7, <3>1
    <3>3. Now'.low = Now.low + a /\ Register' = enc.val + a
      BY <2>4, <2>5, <2>6, <2>7
    <3>4. Number(Bytes(enc'))[Now'.bytes] * CodeTop = p
      BY <2>4, <2>5, <2>6, Zenon DEF p
    <3> QED BY <3>2, <3>3, <3>4, Zenon
  <2>9. ~enc'.err => Len(Bytes(enc')) = Now'.bytes
    BY <2>2, <2>4, <2>5, <2>6, Zenon DEF Accurate, InStep
  <2> QED BY <2>2, <2>8, <2>9 DEF Accurate, Exact, Complete, InStep
<1>3. ASSUME NEW v \in Nat, v = Register,
             stage \in {"encode", "flush"}, stage' = stage, Register' = (v % CodeBot) * Sym,
             ideal' = Append(ideal, Scaled(Now)),
             ~enc'.err => /\ ~enc.err
                        /\ Len(Bytes(enc)) \in Nat
                        /\ Len(Bytes(enc')) = Len(Bytes(enc)) + 1
                        /\ Number(Bytes(enc'))[Len(Bytes(enc'))]
                             = Number(Bytes(enc))[Len(Bytes(enc))] * Sym + (v \div CodeBot)
      PROVE  Exact' /\ InStep'
  <2>1. /\ Scaled(Now) \in Intervals /\ Scaled(Now).low = Now.low * Sym
        /\ Scaled(Now).bytes = Now.bytes + 1
    BY TypedNow, ScaledIs
  <2>2. Now' = Scaled(Now)
    BY <1>3, <2>1, NextTurn
  <2>3. ~enc'.err => Len(Bytes(enc')) = Now'.bytes /\ Len(Bytes(enc)) = Now.bytes /\ ~enc.err
    BY <1>3, <2>1, <2>2 DEF Accurate, InStep
  <2>4. ASSUME ~enc'.err
        PROVE  Now'.low = Number(Bytes(enc'))[Now'.bytes] * CodeTop + Register'
    <3>1. Now.low = N * CodeTop + v
      BY <1>1, <1>3, <2>3, <2>4
    <3>2. (N * CodeTop + v) * Sym = (N * Sym + (v \div CodeBot)) * CodeTop + (v % CodeBot) * Sym
      <4> HIDE DEF N
      <4> QED BY <1>1, <1>3, ShiftNumber DEF N
    <3>3. Number(Bytes(enc'))[Now'.bytes] = N * Sym + (v \div CodeBot)
      BY <1>3, <2>3, <2>4, Zenon
    <3> QED BY <1>3, <2>1, <2>2, <3>1, <3>2, <3>3, Zenon
  <2> QED BY <1>3, <2>3, <2>4 DEF Exact, InStep
<1>4. ASSUME Normalize PROVE Accurate'
  <2>1. /\ stage = "encode" /\ stage' = "encode" /\ Narrow(enc) /\ enc' = shiftOut(enc)
        /\ ideal' = Append(ideal, Scaled(Now))
    BY <1>4 DEF Normalize
  <2>2. InWhole(enc.rem, enc.val, enc.rng)
    BY <2>1 DEF Contained
  <2>3. LET f == shiftOut(enc)
        IN /\ f.val = (enc.val % CodeBot) * Sym
           /\ ~f.err => /\ ~enc.err
                       /\ Len(Bytes(enc)) \in Nat
                       /\ Len(Bytes(f)) = Len(Bytes(enc)) + 1
                       /\ Number(Bytes(f))[Len(Bytes(f))]
                            = Number(Bytes(enc))[Len(Bytes(enc))] * Sym + (enc.val \div CodeBot)
    BY <1>0, <2>1, <2>2, ShiftOutIs
  <2>4. enc.val = Register /\ enc.val \in Nat /\ Register' = (enc.val % CodeBot) * Sym
    BY <1>0, <2>1, <2>3 DEF Register, Coder
  <2> DEFINE v == enc.val
  <2>5. /\ v \in Nat /\ v = Register /\ Register' = (v % CodeBot) * Sym
        /\ ~enc'.err => /\ ~enc.err
                       /\ Len(Bytes(enc)) \in Nat
                       /\ Len(Bytes(enc')) = Len(Bytes(enc)) + 1
                       /\ Number(Bytes(enc'))[Len(Bytes(enc'))]
                            = Number(Bytes(enc))[Len(Bytes(enc))] * Sym + (v \div CodeBot)
    BY <2>1, <2>3, <2>4, Zenon
  <2> HIDE DEF v
  <2>6. Exact' /\ InStep'
    BY <1>3, <2>1, <2>5
  <2> QED BY <2>1, <2>6 DEF Accurate, Complete
<1>5. ASSUME Done PROVE Accurate'
  <2> DEFINE j == [Now EXCEPT !.low = @ - enc.val + Cut(enc).end, !.rng = 1]
  <2>1. /\ ideal' = Append(ideal, j) /\ j \in Intervals
        /\ tail' \in [end : Nat, left : Int]
        /\ enc.val \in Nat /\ Ends(tail')
        /\ j.bytes = Now.bytes /\ j.low = Now.low + (tail'.end - enc.val)
    BY <1>5, DoneStep
  <2>2. stage = "encode" /\ stage' = "flush" /\ enc' = enc
    BY <1>5 DEF Done
  <2> HIDE DEF j
  <2>3. Now' = j
    BY <2>1, NextTurn
  <2>4. Register = enc.val /\ Register' = tail'.end /\ tail'.end \in Nat
    BY <2>1, <2>2 DEF Register
  <2>5. ASSUME ~enc'.err
        PROVE  Now'.low = Number(Bytes(enc'))[Now'.bytes] * CodeTop + Register'
    <3> DEFINE p == N * CodeTop
               k == tail'.end
    <3>1. p \in Nat /\ Now.low = p + enc.val
      BY <1>0, <1>1, <2>2, <2>4, <2>5
    <3>2. k \in Nat /\ j.low = Now.low + (k - enc.val)
      BY <2>1, <2>4
    <3> HIDE DEF p, k
    <3>3. j.low = p + k
      BY <2>1, <3>1, <3>2
    <3>4. Number(Bytes(enc'))[Now'.bytes] * CodeTop = p
      BY <2>1, <2>2, <2>3, Zenon DEF p
    <3> QED BY <2>3, <2>4, <3>3, <3>4, Zenon DEF k
  <2>6. ~enc'.err => Len(Bytes(enc')) = Now'.bytes
    BY <2>1, <2>2, <2>3, Zenon DEF Accurate, InStep
  <2> QED BY <2>1, <2>2, <2>5, <2>6 DEF Accurate, Exact, Complete, InStep
<1>6. ASSUME Flush PROVE Accurate'
  <2> DEFINE v == tail.end
  <2>1. /\ tail'.end = (v % CodeBot) * Sym /\ tail'.left = tail.left - SymBits
        /\ v \in Nat
        /\ ideal' = Append(ideal, Scaled(Now))
        /\ ~enc'.err => /\ ~enc.err
                       /\ Len(Bytes(enc)) \in Nat
                       /\ Len(Bytes(enc')) = Len(Bytes(enc)) + 1
                       /\ Number(Bytes(enc'))[Len(Bytes(enc'))]
                            = Number(Bytes(enc))[Len(Bytes(enc))] * Sym + (v \div CodeBot)
    BY <1>6, FlushStep
  <2>2. stage = "flush" /\ stage' = "flush" /\ tail.left > 0
    BY <1>6 DEF Flush
  <2>3. v = Register /\ Register' = (v % CodeBot) * Sym
    BY <2>1, <2>2 DEF Register
  <2>4. Exact' /\ InStep'
    <3> HIDE DEF v
    <3> QED BY <1>3, <2>1, <2>2, <2>3
  <2>5. Ends(tail)
    BY <2>2 DEF Accurate, Complete
  <2>6. Ends(tail')
    BY <1>0, <2>1, <2>2, <2>5, StillEnds
  <2> QED BY <2>2, <2>4, <2>6 DEF Accurate, Complete
<1>7. ASSUME Release PROVE Accurate'
  <2>1. /\ stage = "flush" /\ ~(tail.left > 0) /\ stage' = IF enc'.err THEN "refused" ELSE "written"
        /\ UNCHANGED <<tail, ideal>>
    BY <1>0, <1>7 DEF Release
  <2>2. tail.end = 0
    BY <2>1 DEF Accurate, Complete, Ends
  <2>3. Register = 0 /\ Register' = 0 /\ Now' = Now
    BY <2>1, <2>2 DEF Register, Now
  <2>4. ASSUME ~enc'.err
        PROVE  /\ Now.low = Number(Bytes(enc'))[Now.bytes] * CodeTop + 0
               /\ Now.low = Number(enc'.out)[Now.bytes] * CodeTop
               /\ Len(enc'.out) = Now.bytes
    <3>1. ~enc.err
      BY <1>7, <2>4, ReleaseStep
    <3>2. Len(Bytes(enc)) = Now.bytes
      BY <2>1, <3>1 DEF Accurate, InStep
    <3>3. /\ Len(enc'.out) = Now.bytes
          /\ Number(enc'.out)[Now.bytes] = N
          /\ Number(Bytes(enc'))[Now.bytes] = N
      BY <1>7, <2>4, <3>2, ReleasedNumber
    <3>4. Now.low = N * CodeTop + 0
      BY <1>1, <2>3, <3>1
    <3>5. N * CodeTop + 0 = N * CodeTop
      BY <1>0, <1>1
    <3> QED BY <3>3, <3>4, <3>5, Zenon
  <2>5. Exact'
    BY <2>3, <2>4 DEF Exact
  <2>6. InStep'
    BY <2>1, <2>3, <2>4 DEF InStep
  <2> QED BY <2>1, <2>2, <2>5, <2>6 DEF Accurate, Complete
<1>8. ASSUME NEW buf \in Foreign, OpenForeign(buf) PROVE Accurate'
  <2>1. stage = "encode" /\ sent = <<>> /\ stage' = "foreign" /\ UNCHANGED <<enc, tail, ideal>>
    BY <1>8 DEF OpenForeign
  <2>2. enc.val = 0 /\ tail.end = 0
    BY <2>1 DEF Contained, NewRangeEncoder
  <2>3. Register = 0 /\ Register' = 0 /\ Now' = Now
    BY <2>1, <2>2 DEF Register, Now
  <2>4. Exact'
    BY <2>1, <2>3 DEF Accurate, Exact
  <2> QED BY <2>1, <2>4 DEF Accurate, Complete, InStep
<1>9. ASSUME /\ UNCHANGED <<enc, tail, ideal>>
             /\ \/ stage = "written" /\ stage' = "decode"
                \/ stage \in {"decode", "foreign"} /\ stage' = stage
      PROVE  Accurate'
  <2>1. Now' = Now /\ Register' = Register
    BY <1>9 DEF Now, Register
  <2> QED BY <1>9, <2>1 DEF Accurate, Exact, Complete, InStep
<1>10. ASSUME UNCHANGED streamVars PROVE Accurate'
  BY <1>10 DEF streamVars, Accurate, Exact, Complete, InStep, Register, Now
<1>11. ASSUME Open \/ DecNormalize \/ \E cdf \in Cdfs : DecodeCDF(cdf) PROVE Accurate'
  <2>1. /\ UNCHANGED <<enc, tail, ideal>>
        /\ \/ stage = "written" /\ stage' = "decode"
           \/ stage \in {"decode", "foreign"} /\ stage' = stage
    BY <1>11 DEF Open, DecNormalize, DecodeCDF
  <2> QED BY <1>9, <2>1
<1> QED BY <1>2, <1>4, <1>5, <1>6, <1>7, <1>8, <1>10, <1>11, Zenon DEF StreamNext

-----------------------------------------------------------------------------
(* The way of the ideal coder, and where the number lies that was written. *)

\* The turns and the symbols, one by one.
LEMMA Turns ==
  ASSUME StreamTyped
  PROVE  /\ Len(ideal) \in Nat \ {0}
         /\ \A p \in 1 .. Len(ideal) : ideal[p] \in Intervals
         /\ Len(sent) \in Nat
         /\ \A i \in 1 .. Len(sent) : sent[i] \in Symbols
<1>1. ideal \in Seq(Intervals) /\ ideal # <<>> /\ sent \in Seq(Symbols)
  BY DEF StreamTyped
<1> QED BY <1>1

\* The way goes on when a turn is appended, and a symbol if there is one more.
LEMMA WayGoesOn ==
  ASSUME NEW t \in Seq(Intervals), t # <<>>, NEW s \in Seq(Symbols), NEW j \in Intervals,
         NEW r \in Seq(Symbols), Len(s) <= Len(r), \A i \in 1 .. Len(s) : r[i] = s[i],
         Way(t, s, Len(t)), OneTurn(t[Len(t)], j, r)
  PROVE  Way(Append(t, j), r, Len(Append(t, j)))
<1> DEFINE u == Append(t, j)
           n == Len(t)
<1>1. /\ n \in Nat \ {0} /\ Len(u) = n + 1 /\ u[n + 1] = j
      /\ \A p \in 1 .. n : u[p] = t[p]
  BY OneMoreTurn
<1>2. \A p \in 1 .. n : t[p] \in Intervals
  OBVIOUS
<1>3. Len(s) \in Nat /\ Len(r) \in Nat
  OBVIOUS
<1>4. \A p \in 1 .. n - 1 : OneTurn(t[p], t[p + 1], s)
  BY DEF Way
<1> HIDE DEF u
<1>5. ASSUME NEW p \in 1 .. (n + 1) - 1 PROVE OneTurn(u[p], u[p + 1], r)
  <2>1. CASE p = n
    <3>1. u[p] = t[n] /\ u[p + 1] = j
      BY <1>1, <2>1
    <3> QED BY <3>1
  <2>2. CASE p # n
    <3>1. p \in 1 .. n - 1 /\ p \in 1 .. n /\ p + 1 \in 1 .. n
      BY <1>1, <2>2
    <3>2. u[p] = t[p] /\ u[p + 1] = t[p + 1] /\ OneTurn(t[p], t[p + 1], s) /\ t[p] \in Intervals
      BY <1>1, <1>2, <1>4, <3>1
    <3> DEFINE i == t[p]
               k == t[p + 1]
    <3>3. i \in Intervals /\ OneTurn(i, k, s)
      BY <3>2
    <3> HIDE DEF i, k
    <3>4. i.coded \in Nat
      BY <3>3 DEF Intervals
    <3>5. ~Narrow(i) => i.coded < Len(r) /\ r[i.coded + 1] = s[i.coded + 1]
      <4> SUFFICES ASSUME ~Narrow(i) PROVE i.coded < Len(r) /\ r[i.coded + 1] = s[i.coded + 1]
        OBVIOUS
      <4>1. i.coded < Len(s)
        BY <3>3 DEF OneTurn
      <4>2. i.coded + 1 \in 1 .. Len(s)
        BY <1>3, <3>4, <4>1
      <4> QED BY <1>3, <3>4, <4>1, <4>2
    <3>6. OneTurn(i, k, r)
      BY <3>3, <3>5, Zenon DEF OneTurn
    <3> QED BY <3>2, <3>6 DEF i, k
  <2> QED BY <2>1, <2>2
<1>6. n + 1 \in 1 .. n + 1
  BY <1>1
<1>7. Way(u, r, n + 1)
  BY <1>1, <1>5, <1>6 DEF Way
<1> QED BY <1>1, <1>7, Zenon DEF u

\* Done's turn, and those of its loop.
LEMMA WayEnds ==
  ASSUME NEW t \in Seq(Intervals), t # <<>>, NEW s \in Seq(Symbols), NEW j \in Intervals,
         Way(t, s, Len(t)), Ended(t[Len(t)], j, s)
  PROVE  \E m \in 1 .. Len(Append(t, j)) - 1 : Way(Append(t, j), s, m)
<1> DEFINE u == Append(t, j)
           n == Len(t)
<1>1. /\ n \in Nat \ {0} /\ Len(u) = n + 1 /\ u[n + 1] = j
      /\ \A p \in 1 .. n : u[p] = t[p]
  BY OneMoreTurn
<1>2. \A p \in 1 .. n - 1 : OneTurn(t[p], t[p + 1], s)
  BY DEF Way
<1> HIDE DEF u
<1>3. ASSUME NEW p \in 1 .. n - 1 PROVE OneTurn(u[p], u[p + 1], s)
  <2>1. u[p] = t[p] /\ u[p + 1] = t[p + 1]
    BY <1>1
  <2> QED BY <1>2, <2>1
<1>4. Ended(u[n], u[n + 1], s)
  <2>1. u[n] = t[n]
    BY <1>1
  <2> QED BY <1>1, <2>1
<1>5. n \in 1 .. n + 1 /\ n \in 1 .. (n + 1) - 1 /\ n + 1 .. (n + 1) - 1 = {}
  BY <1>1
<1>6. Way(u, s, n)
  BY <1>1, <1>3, <1>4, <1>5 DEF Way
<1> QED BY <1>1, <1>5, <1>6, Zenon DEF u

\* The end of the way grows by a byte.
LEMMA EndGrows ==
  ASSUME NEW t \in Seq(Intervals), t # <<>>, NEW s \in Seq(Symbols), NEW j \in Intervals,
         \E m \in 1 .. Len(t) - 1 : Way(t, s, m), j = Scaled(t[Len(t)])
  PROVE  \E m \in 1 .. Len(Append(t, j)) - 1 : Way(Append(t, j), s, m)
<1> DEFINE u == Append(t, j)
           n == Len(t)
<1>1. /\ n \in Nat \ {0} /\ Len(u) = n + 1 /\ u[n + 1] = j
      /\ \A p \in 1 .. n : u[p] = t[p]
  BY OneMoreTurn
<1>2. PICK m \in 1 .. n - 1 : Way(t, s, m)
  OBVIOUS
<1>3. /\ \A p \in 1 .. m - 1 : OneTurn(t[p], t[p + 1], s)
      /\ \A p \in m + 1 .. n - 1 : t[p + 1] = Scaled(t[p])
      /\ Ended(t[m], t[m + 1], s)
  BY <1>1, <1>2 DEF Way
<1> HIDE DEF u
<1>4. ASSUME NEW p \in 1 .. m - 1 PROVE OneTurn(u[p], u[p + 1], s)
  <2>1. u[p] = t[p] /\ u[p + 1] = t[p + 1]
    BY <1>1
  <2> QED BY <1>3, <2>1
<1>5. Ended(u[m], u[m + 1], s)
  <2>1. u[m] = t[m] /\ u[m + 1] = t[m + 1]
    BY <1>1
  <2> QED BY <1>3, <2>1
<1>6. ASSUME NEW p \in m + 1 .. (n + 1) - 1 PROVE u[p + 1] = Scaled(u[p])
  <2>1. CASE p = n
    <3>1. u[p] = t[n] /\ u[p + 1] = j
      BY <1>1, <2>1
    <3> QED BY <3>1
  <2>2. CASE p # n
    <3>1. p \in m + 1 .. n - 1 /\ u[p] = t[p] /\ u[p + 1] = t[p + 1]
      BY <1>1, <2>2
    <3> QED BY <1>3, <3>1
  <2> QED BY <2>1, <2>2
<1>7. m \in 1 .. n + 1 /\ m \in 1 .. (n + 1) - 1
  BY <1>1
<1>8. Way(u, s, m)
  BY <1>1, <1>4, <1>5, <1>6, <1>7 DEF Way
<1> QED BY <1>1, <1>7, <1>8, Zenon DEF u

\* The ideal coder's history is a way at the start ...
LEMMA OnItsWayStarts ==
  ASSUME StreamInit
  PROVE  OnItsWay
<1>1. stage = "encode" /\ ideal = <<Whole>>
  BY DEF StreamInit
<1>2. Len(ideal) = 1 /\ ideal[1] = Whole
  <2> DEFINE w == Whole
  <2> HIDE DEF w
  <2>1. Len(<<w>>) = 1 /\ <<w>>[1] = w
    OBVIOUS
  <2> QED BY <1>1, <2>1 DEF w
<1>3. Way(ideal, sent, 1)
  BY <1>2 DEF Way
<1> QED BY <1>1, <1>2, <1>3 DEF OnItsWay

\* ... and stays one.
LEMMA OnItsWaySteps ==
  ASSUME StreamTyped, Contained, OnItsWay, [StreamNext]_streamVars
  PROVE  OnItsWay'
<1>1. /\ ideal \in Seq(Intervals) /\ ideal # <<>> /\ sent \in Seq(Symbols)
      /\ Now = ideal[Len(ideal)] /\ Now \in Intervals /\ Len(ideal) \in Nat \ {0}
      /\ Now.coded \in Nat
  BY TypedNow DEF StreamTyped
<1>2. ASSUME NEW j \in Intervals, ideal' = Append(ideal, j)
      PROVE  ideal'[1] = Whole
  <2>1. 1 \in 1 .. Len(ideal) /\ \A p \in 1 .. Len(ideal) : ideal'[p] = ideal[p]
    BY <1>1, <1>2, NextTurn
  <2> QED BY <2>1 DEF OnItsWay
<1>3. ASSUME NEW cdf \in Cdfs, NEW s \in 0 .. Len(cdf) - 2, EncodeCDF(cdf, s) PROVE OnItsWay'
  <2> DEFINE x == [cdf |-> cdf, sym |-> s]
             j == Coded(Now, x)
  <2>1. /\ x \in Symbols
        /\ sent' = Append(sent, x)
        /\ ideal' = Append(ideal, j)
        /\ ~Narrow(Now) /\ Now.coded = Len(sent)
        /\ j \in Intervals
    BY <1>3, EncodeStep
  <2>2. stage = "encode" /\ stage' = "encode"
    BY <1>3 DEF EncodeCDF
  <2> HIDE DEF x
  <2> DEFINE r == Append(sent, x)
  <2>3. /\ r \in Seq(Symbols) /\ Len(sent) \in Nat /\ Len(r) = Len(sent) + 1 /\ r[Len(sent) + 1] = x
        /\ \A i \in 1 .. Len(sent) : r[i] = sent[i]
    BY <1>1, <2>1, OneMoreSent
  <2> HIDE DEF r
  <2>4. Now.coded < Len(r) /\ r[Now.coded + 1] = x /\ Len(sent) <= Len(r)
    BY <2>1, <2>3
  <2>5. OneTurn(ideal[Len(ideal)], j, r)
    BY <1>1, <2>1, <2>4, Zenon DEF OneTurn
  <2>6. Way(ideal, sent, Len(ideal))
    BY <2>2 DEF OnItsWay
  <2> HIDE DEF j
  <2>7. Way(Append(ideal, j), r, Len(Append(ideal, j)))
    BY <1>1, <2>1, <2>3, <2>4, <2>5, <2>6, WayGoesOn
  <2>8. Way(ideal', sent', Len(ideal'))
    BY <2>1, <2>7, Zenon DEF r
  <2> QED BY <1>2, <2>1, <2>2, <2>8 DEF OnItsWay
<1>4. ASSUME Normalize PROVE OnItsWay'
  <2> DEFINE j == Scaled(Now)
  <2>1. stage = "encode" /\ stage' = "encode" /\ sent' = sent /\ Narrow(enc) /\ ideal' = Append(ideal, j)
    BY <1>4 DEF Normalize
  <2>2. Narrow(Now)
    BY <2>1 DEF Narrow, Contained
  <2>3. j \in Intervals
    BY <1>1, ScaledIs
  <2>4. OneTurn(ideal[Len(ideal)], j, sent)
    BY <1>1, <2>2, Zenon DEF OneTurn
  <2>5. Way(ideal, sent, Len(ideal))
    BY <2>1 DEF OnItsWay
  <2>6. Len(sent) <= Len(sent)
    BY <1>1
  <2> HIDE DEF j
  <2>7. Way(Append(ideal, j), sent, Len(Append(ideal, j)))
    BY <1>1, <2>3, <2>4, <2>5, <2>6, WayGoesOn
  <2>8. Way(ideal', sent', Len(ideal'))
    BY <2>1, <2>7, Zenon
  <2> QED BY <1>2, <2>1, <2>3, <2>8 DEF OnItsWay
<1>5. ASSUME Done PROVE OnItsWay'
  <2> DEFINE j == [Now EXCEPT !.low = @ - enc.val + Cut(enc).end, !.rng = 1]
  <2>1. /\ ideal' = Append(ideal, j) /\ j \in Intervals
        /\ tail' \in [end : Nat, left : Int]
        /\ enc.val <= tail'.end /\ tail'.end < enc.val + enc.rng
        /\ enc.val \in Nat /\ enc.rng \in Nat /\ enc.rng = Now.rng
        /\ ~Narrow(Now) /\ Now.coded = Len(sent)
        /\ j.rng = 1 /\ j.bytes = Now.bytes /\ j.low = Now.low + (tail'.end - enc.val)
    BY <1>5, DoneStep
  <2>2. stage = "encode" /\ stage' = "flush" /\ sent' = sent
    BY <1>5 DEF Done
  <2> HIDE DEF j
  <2>3. j.low >= Now.low /\ j.low < Now.low + Now.rng
    <3>1. tail'.end \in Nat /\ Now.low \in Nat
      BY <2>1, TypedNow
    <3> QED BY <2>1, <3>1
  <2>4. Ended(ideal[Len(ideal)], j, sent)
    BY <1>1, <2>1, <2>3 DEF Ended
  <2>5. Way(ideal, sent, Len(ideal))
    BY <2>2 DEF OnItsWay
  <2>6. \E m \in 1 .. Len(Append(ideal, j)) - 1 : Way(Append(ideal, j), sent, m)
    BY <1>1, <2>1, <2>4, <2>5, WayEnds
  <2>7. \E m \in 1 .. Len(ideal') - 1 : Way(ideal', sent', m)
    BY <2>1, <2>2, <2>6, Zenon
  <2> QED BY <1>2, <2>1, <2>2, <2>7 DEF OnItsWay
<1>6. ASSUME Flush PROVE OnItsWay'
  <2> DEFINE j == Scaled(Now)
  <2>1. stage = "flush" /\ stage' = "flush" /\ sent' = sent /\ ideal' = Append(ideal, j)
    BY <1>6 DEF Flush
  <2>2. j \in Intervals /\ j = Scaled(ideal[Len(ideal)])
    BY <1>1, ScaledIs
  <2> HIDE DEF j
  <2>3. \E m \in 1 .. Len(ideal) - 1 : Way(ideal, sent, m)
    BY <2>1 DEF OnItsWay
  <2>4. \E m \in 1 .. Len(Append(ideal, j)) - 1 : Way(Append(ideal, j), sent, m)
    BY <1>1, <2>2, <2>3, EndGrows
  <2>5. \E m \in 1 .. Len(ideal') - 1 : Way(ideal', sent', m)
    BY <2>1, <2>4, Zenon
  <2> QED BY <1>2, <2>1, <2>2, <2>5 DEF OnItsWay
<1>7. ASSUME Release \/ Open PROVE OnItsWay'
  BY <1>7 DEF Release, Open, OnItsWay
<1>8. ASSUME NEW buf \in Foreign, OpenForeign(buf) PROVE OnItsWay'
  BY <1>8 DEF OpenForeign, OnItsWay
<1>9. ASSUME DecNormalize \/ \E cdf \in Cdfs : DecodeCDF(cdf) PROVE OnItsWay'
  BY <1>9 DEF DecNormalize, DecodeCDF, OnItsWay
<1>10. ASSUME UNCHANGED streamVars PROVE OnItsWay'
  BY <1>10 DEF streamVars, OnItsWay
<1> QED BY <1>3, <1>4, <1>5, <1>6, <1>7, <1>8, <1>9, <1>10, Zenon DEF StreamNext

-----------------------------------------------------------------------------
(* The number that was written lies in every interval of the way. *)

\* The law of a number of bytes.
LEMMA NumberIs ==
  ASSUME NEW s \in Seq(Octets), NEW n \in Nat
  PROVE  /\ Byte(s, n + 1) \in Octets
         /\ Number(s)[n] \in Nat /\ Number(s)[n + 1] \in Nat
         /\ Number(s)[n + 1] = Number(s)[n] * Sym + Byte(s, n + 1)
<1>1. s \in Seq(Nat)
  BY OctetsAreNat
<1>2. n + 1 \in Nat
  OBVIOUS
<1>3. Number(s) \in [Nat -> Nat]
  BY <1>1, NumberLaw
<1>4. Number(s)[n + 1] = Number(s)[n] * Sym + Byte(s, n + 1)
  BY <1>1, NumberLaw, Zenon
<1>5. Byte(s, n + 1) \in Octets
  <2>1. 0 \in Octets
    BY Digits
  <2> QED BY <2>1 DEF Byte
<1> QED BY <1>2, <1>3, <1>4, <1>5

\* A number and its first byte behind it, between scaled bounds.
LEMMA BetweenScaled ==
  ASSUME NEW l \in Nat, NEW h \in Nat, NEW k \in Nat, NEW S \in Nat \ {0}, NEW n \in Nat,
         NEW b \in 0 .. S - 1,
         (l * S) * k <= n * S + b, n * S + b < (h * S) * k
  PROVE  l * k <= n /\ n < h * k
<1> DEFINE x == l * k
           y == h * k
<1>1. x \in Nat /\ y \in Nat
  OBVIOUS
<1>2. (l * S) * k = x * S /\ (h * S) * k = y * S
  OBVIOUS
<1> HIDE DEF x, y
<1>3. n * S \in Nat /\ (n + 1) * S = n * S + S
  OBVIOUS
<1>4. n * S < y * S
  <2> DEFINE m == n * S
             z == y * S
  <2>1. m \in Nat /\ z \in Nat /\ m + b < z
    BY <1>1, <1>2
  <2> HIDE DEF m, z
  <2>2. m < z
    BY <2>1
  <2> QED BY <2>2 DEF m, z
<1>5. x * S < (n + 1) * S
  <2> DEFINE m == n * S
             z == x * S
  <2>1. m \in Nat /\ z \in Nat /\ z <= m + b
    BY <1>1, <1>2
  <2> HIDE DEF m, z
  <2>2. z < m + S
    BY <2>1
  <2> QED BY <1>3, <2>2 DEF m, z
<1>6. n < y
  BY <1>1, <1>4, LessTimes
<1>7. x < n + 1
  BY <1>1, <1>5, LessTimes
<1> QED BY <1>1, <1>6, <1>7 DEF x, y

\* The number lies in an interval when it lies in the interval scaled ...
LEMMA HoldsScaled ==
  ASSUME StreamTyped, NEW i \in Intervals, Holds(Scaled(i))
  PROVE  Holds(i)
<1> DEFINE n == Lead + i.bytes
           N == Number(enc.out)[n]
           b == Byte(enc.out, n + 1)
           j == Scaled(i)
           l == i.low
           w == i.rng
<1>1. l \in Nat /\ w \in Nat /\ i.bytes \in Nat
  BY DEF Intervals
<1>2. Lead \in Nat /\ Kept \in Nat /\ Sym \in Nat \ {0}
  BY Sizes
<1>3. n \in Nat /\ Lead + (i.bytes + 1) = n + 1
  BY <1>1, <1>2
<1>4. enc.out \in Seq(Octets)
  BY DEF StreamTyped, Coder
<1> HIDE DEF n
<1>5. /\ N \in Nat /\ b \in 0 .. Sym - 1
      /\ Number(enc.out)[n + 1] = N * Sym + b
  BY <1>3, <1>4, NumberIs, Digits
<1>6. j.low = l * Sym /\ j.rng = w * Sym /\ j.bytes = i.bytes + 1
  BY ScaledIs
<1> HIDE DEF j
<1> DEFINE h == l + w
<1>7. l * Sym + w * Sym = h * Sym
  BY <1>1, <1>2
<1>8. Lead + j.bytes = n + 1
  BY <1>3, <1>6
<1>9. j.low * Kept <= Number(enc.out)[n + 1] /\ Number(enc.out)[n + 1] < (j.low + j.rng) * Kept
  BY <1>8, Zenon DEF Holds, j
<1>10. h \in Nat
  BY <1>1
<1> HIDE DEF N, b, l, w, h
<1>11. (l * Sym) * Kept <= N * Sym + b /\ N * Sym + b < (h * Sym) * Kept
  BY <1>5, <1>6, <1>7, <1>9, Zenon
<1>12. l * Kept <= N /\ N < h * Kept
  BY <1>1, <1>2, <1>5, <1>10, <1>11, BetweenScaled
<1> QED BY <1>12, Zenon DEF Holds, N, n, h, l, w

\* ... or in a part of it.
LEMMA HoldsWithin ==
  ASSUME StreamTyped, NEW i \in Intervals, NEW j \in Intervals, Holds(j),
         j.bytes = i.bytes, i.low <= j.low, j.low + j.rng <= i.low + i.rng
  PROVE  Holds(i)
<1> DEFINE N == Number(enc.out)[Lead + i.bytes]
           l == i.low
           h == i.low + i.rng
           x == j.low
           y == j.low + j.rng
<1>1. l \in Nat /\ h \in Nat /\ x \in Nat /\ y \in Nat /\ i.bytes \in Nat /\ l <= x /\ y <= h
  BY DEF Intervals
<1>2. N \in Nat
  <2>1. enc.out \in Seq(Octets)
    BY DEF StreamTyped, Coder
  <2>2. Lead \in Nat
    BY Sizes
  <2>3. Lead + i.bytes \in Nat
    BY <1>1, <2>2
  <2> QED BY <2>1, <2>3, NumberIs
<1>3. x * Kept <= N /\ N < y * Kept
  BY Zenon DEF Holds
<1>4. Kept \in Nat
  BY Sizes
<1> HIDE DEF N, l, h, x, y
<1>5. l * Kept <= x * Kept /\ y * Kept <= h * Kept
  BY <1>1, <1>4, Times
<1> DEFINE p == l * Kept
           q == x * Kept
           r == y * Kept
           t == h * Kept
<1>6. p \in Nat /\ q \in Nat /\ r \in Nat /\ t \in Nat
  BY <1>1, <1>4
<1>7. q <= N /\ N < r /\ p <= q /\ r <= t
  BY <1>3, <1>5
<1> HIDE DEF p, q, r, t
<1>8. p <= N /\ N < t
  BY <1>2, <1>6, <1>7
<1> QED BY <1>8, Zenon DEF p, t, N, l, h, Holds

\* So it lies in an interval of the way when it lies in the next one.
LEMMA HoldsBack ==
  ASSUME StreamTyped, NEW i \in Intervals, NEW j \in Intervals, Holds(j),
         OneTurn(i, j, sent) \/ Ended(i, j, sent) \/ j = Scaled(i)
  PROVE  Holds(i)
<1>1. CASE j = Scaled(i)
  BY <1>1, HoldsScaled
<1>2. CASE OneTurn(i, j, sent) /\ ~Narrow(i)
  <2>1. i.coded < Len(sent) /\ j = Coded(i, sent[i.coded + 1])
    BY <1>2 DEF OneTurn
  <2>2. i.coded + 1 \in 1 .. Len(sent)
    <3>1. i.coded \in Nat /\ Len(sent) \in Nat
      BY Turns DEF Intervals
    <3> QED BY <2>1, <3>1
  <2> DEFINE x == sent[i.coded + 1]
             a == From(i.rng, Low(x), Width(x.cdf))
  <2>3. x \in Symbols
    BY <2>2, Turns
  <2> HIDE DEF x
  <2>4. /\ j.low = i.low + a /\ j.bytes = i.bytes /\ a \in Nat /\ j.rng \in Nat
        /\ a + j.rng <= i.rng
    BY <1>2, <2>1, <2>3, CodedIs, Zenon DEF x
  <2> HIDE DEF a
  <2>5. i.low \in Nat /\ i.rng \in Nat
    BY DEF Intervals
  <2>6. i.low <= j.low /\ j.low + j.rng <= i.low + i.rng
    BY <2>4, <2>5
  <2> QED BY <2>4, <2>6, HoldsWithin
<1>3. CASE Ended(i, j, sent)
  <2>1. i.low \in Nat /\ i.rng \in Nat /\ j.low \in Nat /\ j.bytes = i.bytes /\ j.rng = 1
        /\ i.low <= j.low /\ j.low < i.low + i.rng
    BY <1>3 DEF Intervals, Ended
  <2>2. j.low + j.rng <= i.low + i.rng
    BY <2>1
  <2> QED BY <2>1, <2>2, HoldsWithin
<1> QED BY <1>1, <1>2, <1>3 DEF OneTurn

\* At the end nothing is left in the register, and past the end of the buffer come zeros.
LEMMA HoldsAtTheEnd ==
  ASSUME StreamTyped, InStep, stage \in {"written", "decode"}
  PROVE  Holds(Now)
<1> DEFINE s == enc.out
           n == Now.bytes
           N == Number(s)[n]
           M == Number(s)[n + Lead]
           w == Now.rng
<1>1. n \in Nat /\ Now.low \in Nat /\ w \in Nat \ {0}
  BY TypedNow DEF Intervals
<1>2. Len(s) = n /\ Now.low = N * CodeTop
  BY DEF InStep
<1>3. s \in Seq(Octets) /\ s \in Seq(Nat)
  BY OctetsAreNat DEF StreamTyped, Coder
<1>4. Lead \in Nat /\ Kept \in Nat \ {0} /\ CodeTop \in Nat /\ CodeTop * Kept = Two[SymBits * Lead]
  BY Sizes
<1>5. \A i \in 1 .. Lead : Byte(s, n + i) = 0
  BY <1>1, <1>2, <1>4 DEF Byte
<1>6. M = N * Two[SymBits * Lead]
  <2> HIDE DEF s, n
  <2> QED BY <1>1, <1>3, <1>4, <1>5, ZerosScale
<1>7. N \in Nat
  BY <1>1, <1>3, NumberIs
<1> HIDE DEF N, n, w, s
<1>8. Now.low * Kept = M
  <2>1. (N * CodeTop) * Kept = N * (CodeTop * Kept)
    BY <1>4, <1>7
  <2> QED BY <1>2, <1>4, <1>6, <2>1, Zenon
<1>9. Now.low * Kept < (Now.low + w) * Kept
  <2>1. Now.low < Now.low + w /\ Now.low \in Int /\ Now.low + w \in Int
    BY <1>1
  <2> QED BY <1>4, <2>1, TimesLess
<1>10. Lead + n = n + Lead
  BY <1>1, <1>4
<1>11. Now.low * Kept <= M /\ M < (Now.low + w) * Kept
  <2> DEFINE x == Now.low * Kept
             y == (Now.low + w) * Kept
  <2>1. x \in Nat /\ y \in Nat
    BY <1>1, <1>4
  <2>2. x = M /\ x < y
    BY <1>8, <1>9
  <2> HIDE DEF x, y
  <2>3. x <= M /\ M < y
    BY <2>1, <2>2
  <2> QED BY <2>3 DEF x, y
<1> QED BY <1>10, <1>11, Zenon DEF Holds, w, n, s

\* From the last interval back to the first, the number lies in all of them.
LEMMA WrittenHolds ==
  ASSUME StreamTyped, InStep, OnItsWay, stage \in {"written", "decode"}
  PROVE  \A p \in 1 .. Len(ideal) : Holds(ideal[p])
<1> DEFINE n == Len(ideal)
           T == {k \in Nat : k < n => Holds(ideal[n - k])}
<1>1. n \in Nat \ {0} /\ \A p \in 1 .. n : ideal[p] \in Intervals
  BY Turns
<1>2. 0 \in T
  <2>1. n - 0 = n
    BY <1>1
  <2>2. Holds(ideal[n])
    BY HoldsAtTheEnd DEF Now
  <2> QED BY <2>1, <2>2
<1>3. PICK m \in 1 .. n - 1 : Way(ideal, sent, m)
  BY DEF OnItsWay
<1>4. /\ \A p \in 1 .. m - 1 : OneTurn(ideal[p], ideal[p + 1], sent)
      /\ \A p \in m + 1 .. n - 1 : ideal[p + 1] = Scaled(ideal[p])
      /\ Ended(ideal[m], ideal[m + 1], sent)
  <2>1. m < n
    BY <1>1
  <2> QED BY <1>3, <2>1 DEF Way
<1>5. ASSUME NEW k \in T PROVE k + 1 \in T
  <2>1. k \in Nat /\ k + 1 \in Nat
    OBVIOUS
  <2> SUFFICES ASSUME k + 1 < n PROVE Holds(ideal[n - (k + 1)])
    BY <2>1
  <2> DEFINE p == n - (k + 1)
             i == ideal[p]
             j == ideal[p + 1]
  <2>2. p \in 1 .. n - 1 /\ p \in 1 .. n /\ p + 1 \in 1 .. n /\ n - k = p + 1 /\ k < n
    BY <1>1, <2>1
  <2>3. Holds(ideal[n - k])
    BY <2>2
  <2>4. Holds(j)
    BY <2>2, <2>3, Zenon
  <2>5. i \in Intervals /\ j \in Intervals
    BY <1>1, <2>2
  <2>6. p \in 1 .. m - 1 \/ p = m \/ p \in m + 1 .. n - 1
    <3>1. m \in Nat /\ p \in Nat /\ p >= 1 /\ p <= n - 1
      BY <1>1, <2>2
    <3> HIDE DEF p, n
    <3> QED BY <1>1, <3>1
  <2>7. OneTurn(i, j, sent) \/ Ended(i, j, sent) \/ j = Scaled(i)
    BY <1>4, <2>6
  <2> HIDE DEF i, j
  <2>8. Holds(i)
    BY <2>4, <2>5, <2>7, HoldsBack
  <2> QED BY <2>8 DEF i
<1>6. T \in SUBSET Nat
  OBVIOUS
<1> HIDE DEF T
<1>7. \A k \in Nat : k \in T
  BY <1>2, <1>5, <1>6, SetInduction
<1>8. ASSUME NEW p \in 1 .. n PROVE Holds(ideal[p])
  <2> DEFINE k == n - p
  <2>1. k \in Nat /\ k < n /\ n - k = p
    BY <1>1
  <2>2. k \in T
    BY <1>7, <2>1
  <2> HIDE DEF k
  <2>3. Holds(ideal[n - k])
    BY <2>1, <2>2 DEF T
  <2> QED BY <2>1, <2>3, Zenon
<1> QED BY <1>8
-----------------------------------------------------------------------------
(* The decoder follows the way of the ideal coder. *)

\* A factor that is not zero can be left out.
LEMMA Cancel ==
  ASSUME NEW a \in Nat, NEW b \in Nat, NEW c \in Nat \ {0}, a * c = b * c
  PROVE  a = b
<1>1. ~(a < b)
  <2> SUFFICES ASSUME a < b PROVE FALSE
    OBVIOUS
  <2>1. a * c < b * c
    BY TimesLess
  <2> QED BY <2>1
<1>2. ~(b < a)
  <2> SUFFICES ASSUME b < a PROVE FALSE
    OBVIOUS
  <2>1. b * c < a * c
    BY TimesLess
  <2> QED BY <2>1
<1> QED BY <1>1, <1>2

\* What the decoder has read is Number's law: a byte more.
LEMMA ReadOn ==
  ASSUME NEW d, Decoder(d), Narrow(d), NEW s \in Seq(Octets), NEW t \in Nat,
         Byte(d.buf, 1) = Byte(s, t + 1), NEW low \in Nat, Read(d, s, t, low)
  PROVE  Read(shiftIn(d), s, t + 1, low * Sym)
<1> DEFINE f == shiftIn(d)
           b == Byte(d.buf, 1)
           D == d.rng - 1 - d.val
           G == f.rng - 1 - f.val
           m == d.rem % Kept
           r == f.rem % Kept
           N == Number(s)[t]
           S == Sym
           K == Kept
<1>1. b \in Octets /\ D \in Nat /\ G \in Nat
  BY ShiftInIs
<1>2. PICK sym \in Nat : G = D * S + sym /\ sym * K + r = m * S + b
  BY ShiftInIs
<1>3. N \in Nat /\ Number(s)[t + 1] = N * S + b
  BY NumberIs
<1>4. S \in Nat /\ K \in Nat \ {0} /\ b \in Nat
  BY <1>1, Sizes, Digits
<1>5. m \in Nat /\ r \in Nat
  <2>1. Decoder(f)
    BY ShiftInIs
  <2>2. d.rem \in Nat /\ f.rem \in Nat
    BY <2>1, Digits DEF Decoder
  <2>3. Kept \in Nat \ {0}
    BY Sizes
  <2>4. d.rem % Kept \in 0 .. Kept - 1 /\ f.rem % Kept \in 0 .. Kept - 1
    <3> DEFINE x == d.rem
               y == f.rem
    <3>1. x \in Nat /\ y \in Nat
      BY <2>2
    <3> HIDE DEF x, y
    <3>2. x % Kept \in 0 .. Kept - 1 /\ y % Kept \in 0 .. Kept - 1
      BY <2>3, <3>1, DivMod
    <3> QED BY <3>2, Zenon DEF x, y
  <2> QED BY <2>3, <2>4
<1>6. (low + D) * K + m = N
  BY DEF Read
<1> HIDE DEF f, b, D, G, m, r, N, S, K
<1> DEFINE A == (low + D) * K
<1>7. A \in Nat /\ A + m = N
  BY <1>1, <1>4, <1>6
<1>8. (low * S + G) * K = A * S + sym * K
  <2>1. low * S + G = (low + D) * S + sym
    <3>1. (low + D) * S = low * S + D * S
      BY <1>1, <1>4
    <3> DEFINE x == low * S
               y == D * S
    <3>2. x \in Nat /\ y \in Nat
      BY <1>1, <1>4
    <3>3. G = y + sym /\ (low + D) * S = x + y
      BY <1>2, <3>1
    <3> HIDE DEF x, y
    <3>4. x + G = (low + D) * S + sym
      BY <3>2, <3>3
    <3> QED BY <3>4 DEF x
  <2> DEFINE z == low + D
  <2>2. z \in Nat
    BY <1>1
  <2> HIDE DEF z
  <2>3. (z * S + sym) * K = (z * K) * S + sym * K
    BY <1>4, <2>2
  <2> QED BY <2>1, <2>3 DEF A, z
<1> HIDE DEF A
<1>9. N * S = A * S + m * S
  BY <1>5, <1>7, <1>4
<1> DEFINE x == A * S
           y == sym * K
           z == m * S
<1>10. x \in Nat /\ y \in Nat /\ z \in Nat
  BY <1>4, <1>5, <1>7
<1>11. (low * S + G) * K = x + y /\ N * S = x + z /\ y + r = z + b
  BY <1>2, <1>8, <1>9
<1> HIDE DEF x, y, z
<1>12. (low * S + G) * K + r = N * S + b
  BY <1>4, <1>5, <1>10, <1>11
<1>13. (low * S + G) * K + r = Number(s)[t + 1]
  BY <1>3, <1>12
<1> QED BY <1>13, Zenon DEF Read, G, r, S, K, f

\* A byte more of the first ones.
LEMMA FillingOn ==
  ASSUME NEW d, Decoder(d), Narrow(d), NEW s \in Seq(Octets), NEW t \in Nat,
         Byte(d.buf, 1) = Byte(s, t + 1), Filling(d, s, t)
  PROVE  Filling(shiftIn(d), s, t + 1)
<1>1. PICK k \in Nat : d.rng * Two[SymBits * k] = CodeTop /\ t + k = Lead
  BY DEF Filling
<1>2. /\ d.rng \in Nat /\ CodeTop = CodeBot * Sym /\ CodeBot \in Nat \ {0}
      /\ Sym \in Nat /\ Sym >= 2 /\ d.rng <= CodeBot
  BY Sizes DEF Decoder, Narrow
<1>3. k # 0
  <2> SUFFICES ASSUME k = 0 PROVE FALSE
    OBVIOUS
  <2>1. SymBits * k = 0
    BY WidthsAssumption
  <2>2. d.rng * Two[0] = CodeTop /\ Two[0] = 1
    BY <1>1, <2>1, TwoLaw, Zenon
  <2>3. d.rng = CodeTop
    BY <1>2, <2>2
  <2>4. CodeBot * 1 < CodeBot * Sym
    BY <1>2
  <2> QED BY <1>2, <2>3, <2>4
<1> DEFINE l == k - 1
           p == SymBits * l
<1>4. l \in Nat /\ (t + 1) + l = Lead /\ p \in Nat /\ SymBits * k = SymBits + p
  BY <1>1, <1>3, WidthsAssumption
<1>5. Two[SymBits * k] = Sym * Two[p] /\ Two[p] \in Nat
  <2>1. SymBits \in Nat
    BY WidthsAssumption
  <2> HIDE DEF p
  <2>2. Two[SymBits + p] = Two[SymBits] * Two[p] /\ Two[p] \in Nat
    BY <1>4, <2>1, TwoSum, TwoPositive
  <2> QED BY <1>4, <2>2 DEF Sym
<1> DEFINE y == Two[p]
<1> HIDE DEF y
<1>6. (d.rng * Sym) * y = CodeTop
  <2>1. (d.rng * Sym) * y = d.rng * (Sym * y)
    BY <1>2, <1>5 DEF y
  <2> QED BY <1>1, <1>5, <2>1 DEF y
<1>7. shiftIn(d).rng = d.rng * Sym
  BY ShiftInIs
<1>8. Read(shiftIn(d), s, t + 1, 0)
  <2>1. Read(d, s, t, 0) /\ 0 * Sym = 0
    BY Sizes DEF Filling
  <2>2. Read(shiftIn(d), s, t + 1, 0 * Sym)
    BY <2>1, ReadOn
  <2> QED BY <2>1, <2>2
<1> QED BY <1>4, <1>6, <1>7, <1>8 DEF Filling, y

\* Once its interval is wide, the decoder stands at the whole.
LEMMA Filled ==
  ASSUME NEW d, Decoder(d), ~Narrow(d), NEW s \in Seq(Octets), NEW t \in Nat,
         Filling(d, s, t)
  PROVE  At(Whole, d, s, t)
<1>1. PICK k \in Nat : d.rng * Two[SymBits * k] = CodeTop /\ t + k = Lead
  BY DEF Filling
<1>2. /\ d.rng \in Nat /\ CodeTop = CodeBot * Sym /\ CodeBot \in Nat \ {0}
      /\ Sym \in Nat \ {0} /\ CodeBot < d.rng
  <2>1. CodeTop = CodeBot * Sym /\ CodeBot \in Nat \ {0} /\ Sym \in Nat \ {0}
    BY Sizes
  <2>2. d.rng \in Nat
    BY DEF Decoder
  <2>3. ~(d.rng <= CodeBot)
    BY DEF Narrow
  <2> QED BY <2>1, <2>2, <2>3
<1>3. k = 0
  <2> SUFFICES ASSUME k # 0 PROVE FALSE
    OBVIOUS
  <2> DEFINE l == k - 1
             p == SymBits * l
             y == Two[p]
  <2>1. p \in Nat /\ SymBits * k = SymBits + p /\ SymBits \in Nat
    BY WidthsAssumption
  <2> HIDE DEF p
  <2>2. Two[SymBits + p] = Two[SymBits] * y /\ y \in Nat \ {0}
    BY <2>1, TwoSum, TwoPositive
  <2>3. d.rng * (Sym * y) = CodeTop
    BY <1>1, <2>1, <2>2 DEF Sym
  <2> HIDE DEF y
  <2>4. (d.rng * y) * Sym = CodeBot * Sym /\ d.rng * y \in Nat
    BY <1>2, <2>2, <2>3
  <2>5. d.rng * y = CodeBot
    BY <1>2, <2>4, Cancel
  <2>6. d.rng * 1 <= d.rng * y
    BY <1>2, <2>2
  <2> QED BY <1>2, <2>5, <2>6
<1>4. SymBits * k = 0 /\ t = Lead
  <2>1. Lead \in Nat
    BY Sizes
  <2> QED BY <1>1, <1>3, <2>1, WidthsAssumption
<1>5. d.rng = CodeTop
  <2>1. d.rng * Two[0] = CodeTop /\ Two[0] = 1
    BY <1>1, <1>4, TwoLaw, Zenon
  <2> QED BY <1>2, <2>1
<1>6. Lead + 0 = t
  BY <1>4
<1>7. Whole.low = 0 /\ Whole.rng = CodeTop /\ Whole.bytes = 0
  BY DEF Whole
<1>8. Read(d, s, t, 0)
  BY DEF Filling
<1> QED BY <1>5, <1>6, <1>7, <1>8 DEF At

\* Having the first byte, the decoder fills.
LEMMA FirstFills ==
  ASSUME NEW s \in Seq(Octets)
  PROVE  /\ Filling(firstIn(s), s, 1)
         /\ \A n \in Nat : Byte(firstIn(s).buf, n + 1) = Byte(s, 1 + n + 1)
<1> DEFINE d == firstIn(s)
           b == Byte(s, 1)
<1>1. /\ b \in Octets /\ d.rng = Two[CodeExtra] /\ Decoder(d)
      /\ (d.rng - 1 - d.val) * Kept + (d.rem % Kept) = b
      /\ \A n \in Nat : Byte(d.buf, n + 1) = Byte(s, n + 2)
  BY FirstIs
<1>2. \A n \in Nat : 1 + n + 1 = n + 2
  OBVIOUS
<1>3. \A n \in Nat : Byte(d.buf, n + 1) = Byte(s, 1 + n + 1)
  BY <1>1, <1>2, Zenon
<1> HIDE DEF d
<1>4. Number(s)[1] = b
  <2>1. s \in Seq(Nat)
    BY OctetsAreNat
  <2>2. 0 + 1 = 1 /\ 0 \in Nat
    OBVIOUS
  <2>3. Number(s)[0] = 0 /\ Number(s)[0 + 1] = Number(s)[0] * Sym + Byte(s, 0 + 1)
    BY <2>1, <2>2, NumberIs, NumberLaw, Zenon
  <2>4. 0 * Sym + Byte(s, 1) = Byte(s, 1)
    <3>1. b \in Nat /\ Sym \in Nat
      BY <1>1, Digits
    <3> QED BY <3>1
  <2> QED BY <2>2, <2>3, <2>4
<1>5. Read(d, s, 1, 0)
  <2> DEFINE D == d.rng - 1 - d.val
  <2>1. D \in Nat
    <3>1. d.rng \in Nat /\ d.val \in 0 .. d.rng - 1
      BY <1>1 DEF Decoder
    <3> QED BY <3>1
  <2>2. D * Kept + (d.rem % Kept) = Number(s)[1]
    BY <1>1, <1>4
  <2> HIDE DEF D
  <2>3. 0 + D = D
    BY <2>1
  <2> QED BY <2>2, <2>3, Zenon DEF Read, D
<1> DEFINE k == Lead - 1
           p == SymBits * k
           y == Two[p]
<1>6. Lead \in Nat \ {0} /\ SymBits \in Nat
  BY Sizes, WidthsAssumption
<1>7. k \in Nat /\ p \in Nat /\ 1 + k = Lead /\ SymBits * Lead = SymBits + p
  BY <1>6
<1> HIDE DEF p
<1>8. Two[SymBits * Lead] = Sym * y /\ y \in Nat
  <2>1. Two[SymBits + p] = Two[SymBits] * y /\ y \in Nat
    BY <1>6, <1>7, TwoSum, TwoPositive
  <2> QED BY <1>7, <2>1 DEF Sym
<1>9. d.rng * y = CodeTop
  <2> DEFINE e == Two[CodeExtra]
  <2>1. /\ Kept \in Nat \ {0} /\ e \in Nat /\ CodeTop \in Nat /\ Sym = e * Kept
        /\ CodeTop * Kept = Two[SymBits * Lead]
    BY Sizes
  <2> HIDE DEF e, y
  <2>2. (e * Kept) * y = (e * y) * Kept /\ e * y \in Nat
    BY <1>8, <2>1
  <2>3. (e * y) * Kept = CodeTop * Kept
    BY <1>8, <2>1, <2>2
  <2>4. e * y = CodeTop
    BY <2>1, <2>2, <2>3, Cancel
  <2> QED BY <1>1, <2>4 DEF e
<1>10. Filling(d, s, 1)
  BY <1>5, <1>7, <1>9, Zenon DEF Filling, p
<1> QED BY <1>3, <1>10, Zenon DEF d

\* Behind an interval of the way the decoder goes on with the encoder.
LEMMA AtOn ==
  ASSUME NEW d, Decoder(d), Narrow(d), NEW s \in Seq(Octets), NEW t \in Nat,
         Byte(d.buf, 1) = Byte(s, t + 1), NEW i \in Intervals, At(i, d, s, t)
  PROVE  Narrow(i) /\ At(Scaled(i), shiftIn(d), s, t + 1)
<1>1. d.rng = i.rng /\ t = Lead + i.bytes /\ Read(d, s, t, i.low) /\ i.low \in Nat /\ i.bytes \in Nat
  BY DEF At, Intervals
<1>2. Narrow(i)
  BY <1>1 DEF Narrow
<1>3. Read(shiftIn(d), s, t + 1, i.low * Sym)
  BY <1>1, ReadOn
<1>4. shiftIn(d).rng = d.rng * Sym
  BY ShiftInIs
<1>5. Scaled(i).low = i.low * Sym /\ Scaled(i).rng = i.rng * Sym /\ Scaled(i).bytes = i.bytes + 1
  BY ScaledIs
<1>6. t + 1 = Lead + (i.bytes + 1)
  <2>1. Lead \in Nat
    BY Sizes
  <2> QED BY <1>1, <2>1
<1> QED BY <1>1, <1>2, <1>3, <1>4, <1>5, <1>6 DEF At

\* The decoder decodes what the encoder coded, when the number lies in the interval.
LEMMA DecodeOn ==
  ASSUME NEW d, Decoder(d), ~Narrow(d), NEW s \in Seq(Octets), NEW t \in Nat,
         NEW i \in Intervals, At(i, d, s, t), NEW y \in Symbols, NEW j, j = Coded(i, y),
         j.low * Kept <= Number(s)[Lead + j.bytes],
         Number(s)[Lead + j.bytes] < (j.low + j.rng) * Kept,
         NEW cdf, cdf = y.cdf, NEW k, k = symbolAt(d, cdf),
         NEW f, f = remove(d, cdf[k + 1] - cdf[1], cdf[k + 2] - cdf[1], Width(cdf))
  PROVE  k = y.sym /\ f.buf = d.buf /\ At(j, f, s, t)
<1> DEFINE ft == Width(cdf)
           a == From(d.rng, Low(y), ft)
           w == Span(d.rng, Low(y), High(y), ft)
           D == d.rng - 1 - d.val
           G == f.rng - 1 - f.val
           N == Number(s)[t]
           m == d.rem % Kept
           K == Kept
           l == i.low
<1>1. d.rng = i.rng /\ t = Lead + i.bytes /\ Read(d, s, t, l) /\ l \in Nat
  BY DEF At, Intervals
<1>2. ~Narrow(i)
  BY <1>1 DEF Narrow
<1>3. /\ j.low = l + a /\ j.rng = w /\ j.bytes = i.bytes
      /\ a \in Nat /\ w \in Nat
  <2>1. /\ Coded(i, y).low = l + From(i.rng, Low(y), Width(y.cdf))
        /\ Coded(i, y).rng = Span(i.rng, Low(y), High(y), Width(y.cdf))
        /\ Coded(i, y).bytes = i.bytes
        /\ From(i.rng, Low(y), Width(y.cdf)) \in Nat
        /\ Coded(i, y).rng \in Nat
    BY <1>2, CodedIs
  <2> QED BY <1>1, <2>1, Zenon
<1>4. Lead + j.bytes = t
  BY <1>1, <1>3
<1>5. N \in Nat /\ K \in Nat \ {0} /\ m \in 0 .. K - 1 /\ D \in Nat
  <2>1. N \in Nat
    BY NumberIs
  <2>2. K \in Nat \ {0}
    BY Sizes
  <2>3. d.rem \in Octets /\ d.rng \in Nat /\ d.val \in 0 .. d.rng - 1
    BY DEF Decoder
  <2>4. d.rem \in Nat /\ D \in Nat
    BY <2>3, Digits
  <2>5. m \in 0 .. K - 1
    <3> HIDE DEF K
    <3> QED BY <2>2, <2>4, DivMod DEF K
  <2> QED BY <2>1, <2>2, <2>4, <2>5
<1>6. (l + D) * K + m = N
  BY <1>1 DEF Read
<1>7. (l + a) * K <= N /\ N < ((l + a) + w) * K
  BY <1>3, <1>4, Zenon
<1> HIDE DEF a, w, D, N, m, K, l
<1>8. a <= D /\ D < a + w
  <2>1. (l + a) \in Nat /\ (l + D) \in Nat /\ ((l + a) + w) \in Nat
    BY <1>1, <1>3, <1>5
  <2> DEFINE A == l + a
             B == l + D
             C == (l + a) + w
  <2>2. A \in Nat /\ B \in Nat /\ C \in Nat
    BY <2>1
  <2>3. B * K + m = N /\ A * K <= N /\ N < C * K
    BY <1>6, <1>7
  <2> HIDE DEF A, B, C
  <2>4. B * K \in Nat /\ A * K \in Nat /\ C * K \in Nat /\ (B + 1) * K = B * K + K
    BY <1>5, <2>2
  <2> DEFINE x == A * K
             z == B * K
             u == C * K
             v == (B + 1) * K
  <2>5. x \in Nat /\ z \in Nat /\ u \in Nat /\ v = z + K /\ z + m = N /\ x <= N /\ N < u
    BY <2>3, <2>4
  <2> HIDE DEF x, z, u, v
  <2>6. x < v /\ z < u
    BY <1>5, <2>5
  <2>7. A < B + 1
    BY <1>5, <2>2, <2>6, LessTimes DEF x, v
  <2>8. B < C
    BY <1>5, <2>2, <2>6, LessTimes DEF z, u
  <2> QED BY <1>1, <1>3, <1>5, <2>7, <2>8 DEF A, B, C
<1> DEFINE x == [cdf |-> cdf, sym |-> k]
<1>9. /\ f.buf = d.buf /\ f.rem = d.rem
      /\ Low(y) = Low(x) /\ High(y) = High(x) => f.rng = w /\ G = D - a
      /\ k = y.sym
  <2>1. y.cdf \in Cdfs
    BY SymbolPart
  <2>2. cdf \in Cdfs
    BY <2>1
  <2>3. /\ x \in Symbols
        /\ f.buf = d.buf /\ f.rem = d.rem
        /\ f.rng = Span(d.rng, Low(x), High(x), ft)
        /\ G = D - From(d.rng, Low(x), ft)
        /\ \A z \in Symbols :
                 /\ z.cdf = cdf
                 /\ From(d.rng, Low(z), Width(cdf)) <= D
                 /\ D < From(d.rng, Low(z), Width(cdf)) + Span(d.rng, Low(z), High(z), Width(cdf))
                 => k = z.sym
    BY <2>2, DecodeIs DEF D
  <2>4. k = y.sym
    BY <1>8, <2>3, Zenon DEF a, w
  <2> QED BY <2>3, <2>4, Zenon DEF a, w
<1>10. Low(y) = Low(x) /\ High(y) = High(x)
  BY <1>9 DEF Low, High
<1>11. f.rng = j.rng /\ G = D - a
  BY <1>3, <1>9, <1>10
<1> HIDE DEF G
<1>12. (j.low + G) * Kept + (f.rem % Kept) = Number(s)[t]
  <2>1. j.low + G = l + D
    BY <1>1, <1>3, <1>5, <1>8, <1>11
  <2>2. (l + D) * Kept + (d.rem % Kept) = Number(s)[t]
    BY <1>6 DEF K, m, N
  <2> QED BY <1>9, <2>1, <2>2, Zenon
<1>13. At(j, f, s, t)
  BY <1>4, <1>11, <1>12, Zenon DEF At, Read, G
<1> QED BY <1>9, <1>13

\* A decoded symbol is appended.
LEMMA OneMoreGot ==
  ASSUME NEW g \in Seq(Nat), NEW k \in Nat
  PROVE  /\ Len(g) \in Nat /\ Len(Append(g, k)) = Len(g) + 1
         /\ Append(g, k)[Len(g) + 1] = k
         /\ \A i \in 1 .. Len(g) : Append(g, k)[i] = g[i]
OBVIOUS

\* The decoder follows at the start ...
LEMMA FollowsStarts ==
  ASSUME StreamInit
  PROVE  Follows
BY DEF StreamInit, Follows

\* ... when the written buffer is opened ...
LEMMA OpenFollows ==
  ASSUME StreamTyped, Follows, Open
  PROVE  Follows'
<1>1. /\ stage = "written" /\ stage' = "decode" /\ dec' = firstIn(enc.out) /\ taken' = 1
      /\ enc' = enc /\ sent' = sent /\ got' = got
  BY DEF Open
<1>2. enc.out \in Seq(Octets) /\ sent \in Seq(Symbols)
  BY DEF StreamTyped, Coder
<1>3. got' = <<>> /\ Len(got') = 0 /\ 1 .. Len(got') = {}
  BY <1>1 DEF Follows
<1>4. Len(got') <= Len(sent')
  BY <1>1, <1>2, <1>3
<1>5. /\ Filling(dec', enc'.out, taken')
      /\ \A n \in Nat : Byte(dec'.buf, n + 1) = Byte(enc'.out, taken' + n + 1)
  BY <1>1, <1>2, FirstFills
<1> QED BY <1>1, <1>3, <1>4, <1>5 DEF Follows

\* ... when a byte comes in ...
LEMMA DecNormalizeFollows ==
  ASSUME StreamTyped, Follows, DecNormalize, stage = "decode"
  PROVE  Follows'
<1>1. /\ stage' = "decode" /\ Narrow(dec) /\ dec' = shiftIn(dec) /\ taken' = taken + 1
      /\ enc' = enc /\ sent' = sent /\ got' = got /\ ideal' = ideal
  BY DEF DecNormalize
<1> DEFINE s == enc.out
           t == taken
           d == dec
<1>2. s \in Seq(Octets) /\ t \in Nat /\ Decoder(d)
  BY DEF StreamTyped, Coder
<1>3. /\ \A n \in Nat : Byte(d.buf, n + 1) = Byte(s, t + n + 1)
      /\ Len(got) <= Len(sent)
      /\ \A i \in 1 .. Len(got) : got[i] = sent[i].sym
      /\ \/ Filling(d, s, t) /\ got = <<>>
         \/ \E m \in 1 .. Len(ideal) - 1 :
              /\ Way(ideal, sent, m)
              /\ \E p \in 1 .. m : At(ideal[p], d, s, t) /\ Len(got) = ideal[p].coded
  BY DEF Follows
<1>4. Byte(d.buf, 1) = Byte(s, t + 1)
  <2>1. 0 \in Nat /\ 0 + 1 = 1 /\ t + 0 + 1 = t + 1
    BY <1>2
  <2>2. Byte(d.buf, 0 + 1) = Byte(s, t + 0 + 1)
    BY <1>3, <2>1, Zenon
  <2> QED BY <2>1, <2>2, Zenon
<1>5. \A n \in Nat : Byte(dec'.buf, n + 1) = Byte(s, taken' + n + 1)
  <2> TAKE n \in Nat
  <2>1. Byte(shiftIn(d).buf, n + 1) = Byte(d.buf, n + 2)
    BY <1>1, <1>2, ShiftInIs
  <2>2. n + 1 \in Nat /\ (n + 1) + 1 = n + 2 /\ t + (n + 1) + 1 = (t + 1) + n + 1
    BY <1>2
  <2>3. Byte(d.buf, (n + 1) + 1) = Byte(s, t + (n + 1) + 1)
    BY <1>3, <2>2, Zenon
  <2> QED BY <1>1, <2>1, <2>2, <2>3, Zenon
<1>6. CASE Filling(d, s, t) /\ got = <<>>
  <2>1. Filling(shiftIn(d), s, t + 1)
    BY <1>1, <1>2, <1>4, <1>6, FillingOn
  <2>2. Filling(dec', enc'.out, taken') /\ got' = <<>>
    BY <1>1, <1>6, <2>1, Zenon
  <2> QED BY <1>1, <1>3, <1>5, <2>2, Zenon DEF Follows
<1>7. CASE \E m \in 1 .. Len(ideal) - 1 :
              /\ Way(ideal, sent, m)
              /\ \E p \in 1 .. m : At(ideal[p], d, s, t) /\ Len(got) = ideal[p].coded
  <2>1. PICK m \in 1 .. Len(ideal) - 1 : 
              /\ Way(ideal, sent, m)
              /\ \E p \in 1 .. m : At(ideal[p], d, s, t) /\ Len(got) = ideal[p].coded
    BY <1>7
  <2>2. PICK p \in 1 .. m : At(ideal[p], d, s, t) /\ Len(got) = ideal[p].coded
    BY <2>1
  <2>3. Len(ideal) \in Nat \ {0} /\ \A q \in 1 .. Len(ideal) : ideal[q] \in Intervals
    BY Turns
  <2>4. ideal[p] \in Intervals
    BY <2>3
  <2>5. Narrow(ideal[p]) /\ At(Scaled(ideal[p]), shiftIn(d), s, t + 1)
    BY <1>1, <1>2, <1>4, <2>2, <2>4, AtOn
  <2>6. p # m
    <3> SUFFICES ASSUME p = m PROVE FALSE
      OBVIOUS
    <3>1. m < Len(ideal)
      BY <2>3
    <3>2. Ended(ideal[m], ideal[m + 1], sent)
      BY <2>1, <3>1 DEF Way
    <3> QED BY <2>5, <3>2 DEF Ended
  <2>7. p \in 1 .. m - 1 /\ p + 1 \in 1 .. m
    BY <2>6
  <2>8. ideal[p + 1] = Scaled(ideal[p])
    <3>1. OneTurn(ideal[p], ideal[p + 1], sent)
      BY <2>1, <2>7 DEF Way
    <3> QED BY <2>5, <3>1 DEF OneTurn
  <2>9. At(ideal'[p + 1], dec', enc'.out, taken') /\ Len(got') = ideal'[p + 1].coded
    <3>1. ideal[p + 1].coded = ideal[p].coded
      BY <2>4, <2>8, ScaledIs
    <3> QED BY <1>1, <2>2, <2>5, <2>8, <3>1, Zenon
  <2>10. \E m1 \in 1 .. Len(ideal') - 1 :
              /\ Way(ideal', sent', m1)
              /\ \E q \in 1 .. m1 : At(ideal'[q], dec', enc'.out, taken') /\ Len(got') = ideal'[q].coded
    BY <1>1, <2>1, <2>7, <2>9, Zenon
  <2> QED BY <1>1, <1>3, <1>5, <2>10, Zenon DEF Follows
<1> QED BY <1>3, <1>6, <1>7

\* Where the decoder stands when its interval is wide.
LEMMA Stands ==
  ASSUME StreamTyped, OnItsWay, Follows, stage = "decode", ~Narrow(dec)
  PROVE  \E m \in 1 .. Len(ideal) - 1 :
           /\ Way(ideal, sent, m)
           /\ \E p \in 1 .. m : At(ideal[p], dec, enc.out, taken) /\ Len(got) = ideal[p].coded
<1>1. CASE Filling(dec, enc.out, taken) /\ got = <<>>
  <2>1. PICK m \in 1 .. Len(ideal) - 1 : Way(ideal, sent, m)
    BY DEF OnItsWay
  <2>2. ideal[1] = Whole
    BY DEF OnItsWay
  <2>3. enc.out \in Seq(Octets) /\ taken \in Nat /\ Decoder(dec)
    BY DEF StreamTyped, Coder
  <2>4. At(Whole, dec, enc.out, taken)
    BY <1>1, <2>3, Filled
  <2>5. Len(got) = 0 /\ Whole.coded = 0
    BY <1>1 DEF Whole
  <2>6. 1 \in 1 .. m
    OBVIOUS
  <2> QED BY <2>1, <2>2, <2>4, <2>5, <2>6, Zenon
<1> QED BY <1>1 DEF Follows

\* ... when a symbol is decoded ...
LEMMA DecodeFollows ==
  ASSUME StreamTyped, InStep, OnItsWay, Follows, NEW cdf \in Cdfs, DecodeCDF(cdf), stage = "decode"
  PROVE  Follows'
<1> DEFINE k == symbolAt(dec, cdf)
           f == remove(dec, cdf[k + 1] - cdf[1], cdf[k + 2] - cdf[1], Width(cdf))
           s == enc.out
           n == Len(got)
<1>1. /\ stage' = "decode" /\ ~Narrow(dec) /\ n < Len(sent) /\ cdf = sent[n + 1].cdf
      /\ got' = Append(got, k) /\ dec' = f
      /\ enc' = enc /\ sent' = sent /\ taken' = taken /\ ideal' = ideal
  BY DEF DecodeCDF
<1>2. /\ s \in Seq(Octets) /\ taken \in Nat /\ Decoder(dec) /\ got \in Seq(Nat)
  BY DEF StreamTyped, Coder
<1>3. /\ \A i \in Nat : Byte(dec.buf, i + 1) = Byte(s, taken + i + 1)
      /\ \A i \in 1 .. n : got[i] = sent[i].sym
  BY DEF Follows
<1>4. PICK m \in 1 .. Len(ideal) - 1 :
           /\ Way(ideal, sent, m)
           /\ \E p \in 1 .. m : At(ideal[p], dec, s, taken) /\ n = ideal[p].coded
  BY <1>1, Stands
<1>5. PICK p \in 1 .. m : At(ideal[p], dec, s, taken) /\ n = ideal[p].coded
  BY <1>4
<1>6. /\ Len(ideal) \in Nat \ {0} /\ \A q \in 1 .. Len(ideal) : ideal[q] \in Intervals
      /\ Len(sent) \in Nat /\ \A i \in 1 .. Len(sent) : sent[i] \in Symbols
  BY Turns
<1>7. ideal[p] \in Intervals /\ ideal[p].rng = dec.rng /\ ~Narrow(ideal[p])
  <2>1. ideal[p] \in Intervals
    BY <1>6
  <2>2. ideal[p].rng = dec.rng
    BY <1>5 DEF At
  <2> QED BY <1>1, <2>1, <2>2 DEF Narrow
<1>8. p # m
  <2> SUFFICES ASSUME p = m PROVE FALSE
    OBVIOUS
  <2>1. m < Len(ideal)
    BY <1>6
  <2>2. Ended(ideal[m], ideal[m + 1], sent)
    BY <1>4, <2>1 DEF Way
  <2>3. ideal[m].coded = Len(sent)
    BY <2>2 DEF Ended
  <2> QED BY <1>1, <1>5, <1>6, <2>3
<1>9. p \in 1 .. m - 1 /\ p + 1 \in 1 .. m /\ p + 1 \in 1 .. Len(ideal)
  BY <1>6, <1>8
<1> DEFINE i == ideal[p]
           j == ideal[p + 1]
           y == sent[n + 1]
<1>10. n \in Nat /\ n + 1 \in 1 .. Len(sent) /\ y \in Symbols
  <2>1. n \in Nat
    BY <1>2
  <2>2. n + 1 \in 1 .. Len(sent)
    BY <1>1, <1>6, <2>1
  <2> QED BY <1>6, <2>1, <2>2
<1>11. j = Coded(i, y)
  <2>1. OneTurn(ideal[p], ideal[p + 1], sent)
    BY <1>4, <1>9 DEF Way
  <2> QED BY <1>5, <1>7, <2>1 DEF OneTurn
<1>12. Holds(j)
  BY <1>9, WrittenHolds
<1>13. k = y.sym /\ f.buf = dec.buf /\ At(j, f, s, taken)
  <2>1. /\ j.low * Kept <= Number(s)[Lead + j.bytes]
        /\ Number(s)[Lead + j.bytes] < (j.low + j.rng) * Kept
    BY <1>12 DEF Holds
  <2>2. /\ cdf = y.cdf /\ i \in Intervals /\ At(i, dec, s, taken) /\ ~Narrow(dec) /\ Decoder(dec)
        /\ s \in Seq(Octets) /\ taken \in Nat /\ y \in Symbols /\ j = Coded(i, y)
    BY <1>1, <1>2, <1>5, <1>7, <1>10, <1>11
  <2> HIDE DEF j, y, i, s
  <2> HIDE DEF f
  <2>4. f = remove(dec, cdf[k + 1] - cdf[1], cdf[k + 2] - cdf[1], Width(cdf))
    BY Zenon DEF f
  <2> HIDE DEF k
  <2>5. k = symbolAt(dec, cdf)
    BY Zenon DEF k
  <2> QED BY <2>1, <2>2, <2>4, <2>5, DecodeOn
<1>14. j.coded = n + 1
  <2>1. Coded(i, y).coded = i.coded + 1
    BY <1>7, <1>10, CodedIs
  <2> QED BY <1>5, <1>11, <2>1
<1>15. k \in Nat
  <2>1. y.sym \in Nat
    BY <1>10 DEF Symbols
  <2> QED BY <1>13, <2>1
<1> HIDE DEF k, f
<1>16. /\ Len(got') = n + 1 /\ got'[n + 1] = k
       /\ \A q \in 1 .. n : got'[q] = got[q]
  BY <1>1, <1>2, <1>15, OneMoreGot
<1>17. Len(got') <= Len(sent')
  BY <1>1, <1>6, <1>10, <1>16
<1>18. \A q \in 1 .. Len(got') : got'[q] = sent'[q].sym
  <2> TAKE q \in 1 .. Len(got')
  <2>1. q \in 1 .. n \/ q = n + 1
    BY <1>10, <1>16
  <2>2. CASE q \in 1 .. n
    BY <1>1, <1>3, <1>16, <2>2
  <2>3. CASE q = n + 1
    BY <1>1, <1>13, <1>16, <2>3
  <2> QED BY <2>1, <2>2, <2>3
<1>19. At(ideal'[p + 1], dec', enc'.out, taken') /\ Len(got') = ideal'[p + 1].coded
  BY <1>1, <1>13, <1>14, <1>16, Zenon
<1>20. \E m1 \in 1 .. Len(ideal') - 1 :
         /\ Way(ideal', sent', m1)
         /\ \E q \in 1 .. m1 : At(ideal'[q], dec', enc'.out, taken') /\ Len(got') = ideal'[q].coded
  BY <1>1, <1>4, <1>9, <1>19, Zenon
<1>21. \A q \in Nat : Byte(dec'.buf, q + 1) = Byte(enc'.out, taken' + q + 1)
  BY <1>1, <1>3, <1>13, Zenon
<1> QED BY <1>1, <1>17, <1>18, <1>20, <1>21, Zenon DEF Follows

\* ... and so always.
LEMMA FollowsSteps ==
  ASSUME StreamTyped, InStep, OnItsWay, Follows, [StreamNext]_streamVars
  PROVE  Follows'
<1>1. ASSUME NEW cdf \in Cdfs, NEW s \in 0 .. Len(cdf) - 2, EncodeCDF(cdf, s) PROVE Follows'
  BY <1>1 DEF EncodeCDF, Follows
<1>2. ASSUME Normalize \/ Done \/ Flush \/ Release PROVE Follows'
  BY <1>2 DEF Normalize, Done, Flush, Release, Follows
<1>3. ASSUME NEW buf \in Foreign, OpenForeign(buf) PROVE Follows'
  BY <1>3 DEF OpenForeign, Follows
<1>4. ASSUME DecNormalize PROVE Follows'
  <2>1. CASE stage = "decode"
    BY <1>4, <2>1, DecNormalizeFollows
  <2>2. CASE stage = "foreign"
    BY <1>4, <2>2 DEF DecNormalize, Follows
  <2> QED BY <1>4, <2>1, <2>2 DEF DecNormalize
<1>5. ASSUME NEW cdf \in Cdfs, DecodeCDF(cdf) PROVE Follows'
  <2>1. CASE stage = "decode"
    BY <1>5, <2>1, DecodeFollows
  <2>2. CASE stage = "foreign"
    <3>1. stage' = "foreign"
      BY <1>5, <2>2 DEF DecodeCDF
    <3> QED BY <3>1 DEF Follows
  <2> QED BY <1>5, <2>1, <2>2 DEF DecodeCDF
<1>6. ASSUME UNCHANGED streamVars PROVE Follows'
  BY <1>6 DEF streamVars, Follows
<1> QED BY <1>1, <1>2, <1>3, <1>4, <1>5, <1>6, OpenFollows, Zenon DEF StreamNext

-----------------------------------------------------------------------------
(* The theorems. *)

\* The first invariant of every behaviour.
LEMMA StreamContained == StreamSpec => [](StreamTyped /\ Contained)
<1>1. StreamInit => StreamTyped /\ Contained
  BY StreamStarts
<1>2. StreamTyped /\ Contained /\ [StreamNext]_streamVars => (StreamTyped /\ Contained)'
  BY StreamSteps
<1> QED BY <1>1, <1>2, PTL DEF StreamSpec

\* carryOut writes rem + carry as one byte: no carry is lost there, whatever the tables.
THEOREM CarryFindsPlace == StreamSpec => []CarryHasPlace
<1>1. StreamTyped /\ Contained => CarryHasPlace
  <2> SUFFICES ASSUME StreamTyped, Contained, stage \in {"encode", "flush"},
                      Register >= CodeTop
               PROVE  enc.rem \in 0 .. SymMax - 1
    BY DEF CarryHasPlace
  <2>1. CASE stage = "encode"
    <3>1. InWhole(enc.rem, enc.val, enc.rng) /\ Register = enc.val
      BY <2>1 DEF Contained, Register
    <3> QED BY <3>1, Sizes DEF InWhole
  <2>2. CASE stage = "flush"
    <3>1. InWhole(enc.rem, tail.end, 1) /\ Register = tail.end
      BY <2>2 DEF Contained, Register
    <3> QED BY <3>1, Sizes DEF InWhole
  <2> QED BY <2>1, <2>2
<1> QED BY <1>1, StreamContained, PTL

\* The decoder's interval never vanishes, and its value stays in it, for any bytes: Decode
\* divides by no zero, Update does not wrap around, normalize ends.
THEOREM AnyBytesInRange == StreamSpec => []DecoderInRange
<1>1. StreamTyped /\ Contained => DecoderInRange
  BY DEF StreamTyped, Decoder, DecoderInRange
<1> QED BY <1>1, StreamContained, PTL

\* The second and the third one.
LEMMA StreamExact == StreamSpec => [](Accurate /\ OnItsWay)
<1> DEFINE I == StreamTyped /\ Contained /\ Accurate /\ OnItsWay
<1>1. StreamInit => I
  BY StreamStarts, AccurateStarts, OnItsWayStarts
<1>2. I /\ [StreamNext]_streamVars => I'
  BY StreamSteps, AccurateSteps, OnItsWaySteps
<1>3. I => Accurate /\ OnItsWay
  OBVIOUS
<1> HIDE DEF I
<1> QED BY <1>1, <1>2, <1>3, PTL DEF StreamSpec

\* Bytes held and released, carries through them, the register cut at the end: the encoder
\* writes the number that an encoder without bounds would have (carryOut, normalize, Done).
THEOREM EncodedExactly == StreamSpec => []Exact
<1>1. Accurate /\ OnItsWay => Exact
  BY DEF Accurate
<1> QED BY <1>1, StreamExact, PTL

\* What was encoded is decoded: normalize of both, held bytes, carries, Done's end and the
\* zeros past the buffer together.
THEOREM WhatWasCodedIsRead == StreamSpec => []ReadsBack
<1>1. StreamInit => Follows
  BY FollowsStarts
<1>2. StreamTyped /\ Contained /\ Accurate /\ OnItsWay /\ Follows /\ [StreamNext]_streamVars
        => Follows'
  BY FollowsSteps DEF Accurate
<1>3. Follows => ReadsBack
  BY DEF Follows, ReadsBack
<1> QED BY <1>1, <1>2, <1>3, StreamContained, StreamExact, PTL DEF StreamSpec
=============================================================================
