---------------------------- MODULE MachineProofs ----------------------------
(***************************************************************************)
(* What the text of a function does when a core executes it, for every     *)
(* program and every width: the proof of CallingConvention and, where AND  *)
(* and OR are what the back end makes of them, of SlotsHoldValues.         *)
(*                                                                         *)
(* The core executes a sequence of lines, and what a lowering emits is     *)
(* known only as it goes.  So a lowering under way is executed along with  *)
(* it: Ran says what the lines so far have done to the core, each step of  *)
(* the lowering adds a line to it, and at its end the lowering has left    *)
(* in the instruction's slot what the opcode computes (Computed).  Outside *)
(* of what the function may touch nothing has changed (CpuInv), and the    *)
(* frame holds what the Koopa machine holds (BesideInv).                   *)
(***************************************************************************)
EXTENDS CompilerProofs

-----------------------------------------------------------------------------
(* Induction and functions defined by it.                                  *)

\* Induction up to N, about a set: the provers take no operator as a parameter.
LEMMA UpTo ==
  ASSUME NEW N \in Nat, NEW S, 0 \in S, \A n \in 0 .. N - 1 : n \in S => n + 1 \in S
  PROVE  \A n \in 0 .. N : n \in S
<1> DEFINE T == {n \in 0 .. N : n \notin S}
           R == {ss \in Nat \X Nat : ss[1] < ss[2]}
<1>1. SUFFICES ASSUME T # {} PROVE FALSE
  OBVIOUS
<1>2. IsWellFoundedOn(R, Nat)
  BY NatLessThanWellFounded DEF OpToRel
<1>3. PICK t \in T : \A u \in T : ~ (<<u, t>> \in R)
  <2>1. T \subseteq Nat
    OBVIOUS
  <2> HIDE DEF T, R
  <2> QED BY <1>1, <1>2, <2>1, WFMin
<1>4. t \in 0 .. N /\ t # 0
  OBVIOUS
<1>5. t - 1 \in 0 .. N - 1 /\ t - 1 + 1 = t /\ t - 1 \in 0 .. N
  BY <1>4
<1>6. t - 1 \notin T
  <2>1. <<t - 1, t>> \in R
    BY <1>4
  <2> QED BY <1>3, <2>1
<1>7. t - 1 \in S
  BY <1>5, <1>6
<1> QED BY <1>3, <1>5, <1>7

\* The core after each of the first n instructions of s.
Runs(f, c, s, n) ==
  f = [k \in 0 .. n |-> IF k = 0 THEN c ELSE Step(f[k - 1], Gen!AsmLine(s[k]))]

LEMMA RunsFacts ==
  ASSUME NEW f, NEW c, NEW s, NEW n \in Nat, Runs(f, c, s, n)
  PROVE  /\ f[0] = c
         /\ \A k \in 0 .. n - 1 : f[k + 1] = Step(f[k], Gen!AsmLine(s[k + 1]))
<1>1. f[0] = c
  BY DEF Runs
<1>2. ASSUME NEW k \in 0 .. n - 1
      PROVE  f[k + 1] = Step(f[k], Gen!AsmLine(s[k + 1]))
  <2> DEFINE m == k + 1
  <2>1. m \in 0 .. n /\ m # 0 /\ m - 1 = k
    OBVIOUS
  <2> HIDE DEF m
  <2>2. f[m] = Step(f[m - 1], Gen!AsmLine(s[m]))
    BY <2>1 DEF Runs
  <2> QED BY <2>1, <2>2 DEF m
<1> QED BY <1>1, <1>2

LEMMA RunsExists ==
  ASSUME NEW c, NEW s, NEW N \in Nat
  PROVE  \E f : Runs(f, c, s, N)
<1> DEFINE S == {n \in 0 .. N : \E f : Runs(f, c, s, n)}
<1>1. 0 \in S
  <2> DEFINE f == [k \in 0 .. 0 |-> c]
  <2>1. Runs(f, c, s, 0)
    BY DEF Runs
  <2> QED BY <2>1
<1>2. ASSUME NEW n \in 0 .. N - 1, n \in S PROVE n + 1 \in S
  <2>1. PICK f : Runs(f, c, s, n)
    BY <1>2
  <2> DEFINE next == Step(f[n], Gen!AsmLine(s[n + 1]))
             g == [k \in 0 .. n + 1 |-> IF k = n + 1 THEN next ELSE f[k]]
  <2>2. \A k \in 0 .. n : g[k] = f[k]
    OBVIOUS
  <2>3. \A k \in 0 .. n + 1 :
           g[k] = IF k = 0 THEN c ELSE Step(g[k - 1], Gen!AsmLine(s[k]))
    <3> TAKE k \in 0 .. n + 1
    <3>1. CASE k = n + 1
      <4>1. k - 1 = n /\ g[k - 1] = f[n] /\ k # 0 /\ g[k] = next
        BY <2>2, <3>1
      <4> QED BY <3>1, <4>1
    <3>2. CASE k = 0
      <4>1. f[0] = c
        BY <2>1 DEF Runs
      <4> QED BY <2>2, <3>2, <4>1
    <3>3. CASE k # 0 /\ k # n + 1
      <4>1. k \in 0 .. n /\ k - 1 \in 0 .. n
        BY <3>3
      <4>2. f[k] = Step(f[k - 1], Gen!AsmLine(s[k]))
        BY <2>1, <3>3, <4>1 DEF Runs
      <4> QED BY <2>2, <3>3, <4>1, <4>2
    <3> QED BY <3>1, <3>2, <3>3
  <2>4. g = [k \in 0 .. n + 1 |-> IF k = 0 THEN c ELSE Step(g[k - 1], Gen!AsmLine(s[k]))]
    <3>1. g = [k \in 0 .. n + 1 |-> g[k]]
      OBVIOUS
    <3> HIDE DEF g
    <3> QED BY <2>3, <3>1
  <2>5. Runs(g, c, s, n + 1)
    <3> HIDE DEF g
    <3> QED BY <2>4 DEF Runs
  <2> QED BY <2>5
<1>3. N \in S
  <2> HIDE DEF S
  <2> QED BY <1>1, <1>2, UpTo
<1> QED BY <1>3

LEMMA RunIs ==
  ASSUME NEW c, NEW s, Len(s) \in Nat
  PROVE  \E f : Runs(f, c, s, Len(s)) /\ Run(c, s) = f[Len(s)]
<1> DEFINE after == CHOOSE f : f = [k \in 0 .. Len(s) |->
                      IF k = 0 THEN c ELSE Step(f[k - 1], Gen!AsmLine(s[k]))]
<1>1. Run(c, s) = after[Len(s)]
  BY DEF Run
<1>2. \E f : f = [k \in 0 .. Len(s) |->
                    IF k = 0 THEN c ELSE Step(f[k - 1], Gen!AsmLine(s[k]))]
  <2>1. PICK f : Runs(f, c, s, Len(s))
    BY RunsExists
  <2>2. f = [k \in 0 .. Len(s) |->
               IF k = 0 THEN c ELSE Step(f[k - 1], Gen!AsmLine(s[k]))]
    BY <2>1 DEF Runs
  <2> QED BY ONLY <2>2, Zenon
<1>3. after = [k \in 0 .. Len(s) |->
                 IF k = 0 THEN c ELSE Step(after[k - 1], Gen!AsmLine(s[k]))]
  BY <1>2
<1> HIDE DEF after
<1>4. Runs(after, c, s, Len(s))
  BY <1>3 DEF Runs
<1> QED BY <1>1, <1>4

\* Nothing to execute; one instruction more.
LEMMA RunEmpty == ASSUME NEW c PROVE Run(c, <<>>) = c
<1>1. PICK f : Runs(f, c, <<>>, Len(<<>>)) /\ Run(c, <<>>) = f[Len(<<>>)]
  BY RunIs
<1> QED BY <1>1 DEF Runs

LEMMA RunAppend ==
  ASSUME NEW c, NEW S, NEW s \in Seq(S), NEW inst \in S
  PROVE  Run(c, Append(s, inst)) = Step(Run(c, s), Gen!AsmLine(inst))
<1> DEFINE n == Len(s)
           t == Append(s, inst)
<1>1. n \in Nat /\ Len(t) = n + 1 /\ t[n + 1] = inst /\ \A i \in 1 .. n : t[i] = s[i]
  BY AppendProperties, LenProperties
<1> HIDE DEF n, t
<1>2. PICK f : Runs(f, c, s, n) /\ Run(c, s) = f[n]
  BY <1>1, RunIs DEF n
<1>3. PICK g : Runs(g, c, t, n + 1) /\ Run(c, t) = g[n + 1]
  BY <1>1, RunIs
<1>4. g[0] = c /\ \A k \in 0 .. n : g[k + 1] = Step(g[k], Gen!AsmLine(t[k + 1]))
  <2> DEFINE m == n + 1
  <2>1. m \in Nat /\ n = m - 1 /\ Runs(g, c, t, m)
    BY <1>1, <1>3
  <2> HIDE DEF m
  <2> QED BY <2>1, RunsFacts
<1> DEFINE T == {k \in 0 .. n : g[k] = f[k]}
<1>5. 0 \in T
  <2>1. f[0] = c /\ g[0] = c
    BY <1>1, <1>2, <1>4, RunsFacts
  <2> QED BY <1>1, <2>1
<1>6. ASSUME NEW k \in 0 .. n - 1, k \in T PROVE k + 1 \in T
  <2>1. k + 1 \in 0 .. n /\ k \in 0 .. n /\ k + 1 \in 1 .. n
    BY <1>1
  <2>2. f[k + 1] = Step(f[k], Gen!AsmLine(s[k + 1]))
    BY <1>1, <1>2, RunsFacts
  <2>3. g[k + 1] = Step(g[k], Gen!AsmLine(t[k + 1]))
    BY <1>4, <2>1
  <2>4. g[k] = f[k] /\ t[k + 1] = s[k + 1]
    BY <1>1, <1>6, <2>1
  <2>5. g[k + 1] = f[k + 1]
    BY <2>2, <2>3, <2>4
  <2> QED BY <2>1, <2>5
<1>7. n \in T
  <2> HIDE DEF T
  <2>1. \A k \in 0 .. n : k \in T
    BY <1>1, <1>5, <1>6, UpTo
  <2> QED BY <1>1, <2>1
<1>8. g[n + 1] = Step(g[n], Gen!AsmLine(t[n + 1]))
  BY <1>1, <1>4
<1> QED BY <1>1, <1>2, <1>3, <1>7, <1>8 DEF t

-----------------------------------------------------------------------------
(* Words by their bits.                                                    *)

\* Pairs of numbers between -n - 1 and n, all but the last bits of a pair, the
\* last bits, and the words op gives for such pairs.
PairsUpTo(n) == (-n - 1 .. n) \X (-n - 1 .. n)
Rest(p)      == <<p[1] \div 2, p[2] \div 2>>
LastBits(p)  == <<p[1] % 2, p[2] % 2>>
Words(f, op, D) ==
  f = [p \in D |-> IF Rest(p) = p THEN -op[LastBits(p)] ELSE 2 * f[Rest(p)] + op[LastBits(p)]]

LEMMA HalfIsSmaller ==
  ASSUME NEW n \in Nat, NEW x \in -n - 1 .. n, NEW h, h = x \div 2, NEW b, b = x % 2
  PROVE  /\ x \in Int /\ h \in Int /\ x = 2 * h + b /\ b \in {0, 1}
         /\ n > 0 => h \in -(n - 1) - 1 .. n - 1
         /\ h = x => x \in {0, -1}
<1>1. x \in Int /\ h \in Int /\ b \in 0 .. 1 /\ x = 2 * h + b
  OBVIOUS
<1>2. b = 0 \/ b = 1
  BY <1>1
<1>3. h = x => x \in {0, -1}
  BY ONLY <1>1, <1>2
<1>4. n > 0 => h \in -(n - 1) - 1 .. n - 1
  <2>1. n \in Nat /\ -n - 1 <= x /\ x <= n
    OBVIOUS
  <2> QED BY ONLY <1>1, <1>2, <2>1
<1> QED BY ONLY <1>1, <1>2, <1>3, <1>4

LEMMA RestIsSmaller ==
  ASSUME NEW n \in Nat, NEW p \in PairsUpTo(n)
  PROVE  /\ LastBits(p) \in BitPairs /\ p = <<p[1], p[2]>> /\ p[1] \in Int /\ p[2] \in Int
         /\ p[1] = p[2] <=> /\ Rest(p)[1] = Rest(p)[2]
                            /\ LastBits(p)[1] = LastBits(p)[2]
         /\ Rest(p) = p <=> p \in PairsUpTo(0)
         /\ Rest(p) = p => LastBits(p) = <<-p[1], -p[2]>>
         /\ n > 0 => Rest(p) \in PairsUpTo(n - 1)
<1>1. p[1] \in -n - 1 .. n /\ p[2] \in -n - 1 .. n /\ p = <<p[1], p[2]>>
  BY DEF PairsUpTo
<1> DEFINE x == p[1]
           y == p[2]
           hx == x \div 2
           hy == y \div 2
           bx == x % 2
           by == y % 2
<1>2. /\ x \in Int /\ hx \in Int /\ x = 2 * hx + bx /\ bx \in {0, 1}
      /\ n > 0 => hx \in -(n - 1) - 1 .. n - 1
      /\ hx = x => x \in {0, -1}
  <2>1. x \in -n - 1 .. n /\ hx = x \div 2 /\ bx = x % 2
    BY <1>1
  <2> HIDE DEF x, hx, bx
  <2> QED BY <2>1, HalfIsSmaller
<1>3. /\ y \in Int /\ hy \in Int /\ y = 2 * hy + by /\ by \in {0, 1}
      /\ n > 0 => hy \in -(n - 1) - 1 .. n - 1
      /\ hy = y => y \in {0, -1}
  <2>1. y \in -n - 1 .. n /\ hy = y \div 2 /\ by = y % 2
    BY <1>1
  <2> HIDE DEF y, hy, by
  <2> QED BY <2>1, HalfIsSmaller
<1>4. Rest(p) = <<hx, hy>> /\ LastBits(p) = <<bx, by>> /\ p = <<x, y>>
  BY <1>1 DEF Rest, LastBits
<1> HIDE DEF hx, hy, bx, by, x, y
<1>5. LastBits(p) \in BitPairs
  BY <1>2, <1>3, <1>4 DEF BitPairs
<1>6. x = y <=> hx = hy /\ bx = by
  BY <1>2, <1>3
<1>7. p \in PairsUpTo(0) <=> x \in {0, -1} /\ y \in {0, -1}
  <2>1. -0 - 1 = -1
    OBVIOUS
  <2>2. \A z \in Int : z \in -1 .. 0 <=> z \in {0, -1}
    OBVIOUS
  <2> QED BY <1>2, <1>3, <1>4, <2>1, <2>2 DEF PairsUpTo
<1>8. /\ x \in {0, -1} => hx = x /\ bx = -x
      /\ y \in {0, -1} => hy = y /\ by = -y
  BY <1>2, <1>3
<1>9. Rest(p) = p <=> hx = x /\ hy = y
  BY <1>4
<1>10. n > 0 => Rest(p) \in PairsUpTo(n - 1)
  BY <1>2, <1>3, <1>4 DEF PairsUpTo
<1>11. p[1] = x /\ p[2] = y /\ Rest(p)[1] = hx /\ Rest(p)[2] = hy
       /\ LastBits(p)[1] = bx /\ LastBits(p)[2] = by
  BY <1>4 DEF x, y
<1>12. Rest(p) = p => LastBits(p) = <<-x, -y>>
  BY <1>2, <1>3, <1>4, <1>8, <1>9
<1> QED BY <1>2, <1>3, <1>4, <1>5, <1>6, <1>7, <1>8, <1>9, <1>10, <1>11, <1>12

LEMMA WordsExist ==
  ASSUME NEW op, NEW N \in Nat
  PROVE  \E f : Words(f, op, PairsUpTo(N))
<1> DEFINE S == {n \in 0 .. N : \E f : Words(f, op, PairsUpTo(n))}
<1>1. 0 \in S
  <2> DEFINE D == PairsUpTo(0)
             f == [p \in D |-> -op[LastBits(p)]]
  <2>1. \A p \in D : Rest(p) = p
    BY RestIsSmaller
  <2>2. f = [p \in D |-> IF Rest(p) = p THEN -op[LastBits(p)]
                         ELSE 2 * f[Rest(p)] + op[LastBits(p)]]
    <3> HIDE DEF D
    <3> QED BY <2>1
  <2>3. Words(f, op, D)
    <3> HIDE DEF f, D
    <3> QED BY <2>2 DEF Words
  <2> QED BY <2>3
<1>2. ASSUME NEW n \in 0 .. N - 1, n \in S PROVE n + 1 \in S
  <2> DEFINE D == PairsUpTo(n)
             E == PairsUpTo(n + 1)
  <2>1. PICK f : Words(f, op, D)
    BY <1>2
  <2> DEFINE g == [p \in E |-> IF Rest(p) = p THEN -op[LastBits(p)]
                               ELSE 2 * f[Rest(p)] + op[LastBits(p)]]
  <2>2. D \subseteq E
    BY DEF PairsUpTo
  <2>3. \A p \in E : Rest(p) \in D
    <3>1. n + 1 \in Nat /\ n + 1 > 0 /\ n + 1 - 1 = n
      OBVIOUS
    <3> QED BY <3>1, RestIsSmaller
  <2> HIDE DEF D, E
  <2>4. \A p \in D : g[p] = f[p]
    BY <2>1, <2>2 DEF Words
  <2>5. g = [p \in E |-> IF Rest(p) = p THEN -op[LastBits(p)]
                         ELSE 2 * g[Rest(p)] + op[LastBits(p)]]
    BY <2>3, <2>4
  <2>6. Words(g, op, E)
    <3> HIDE DEF g
    <3> QED BY <2>5 DEF Words
  <2> QED BY <2>6 DEF E
<1>3. N \in S
  <2> HIDE DEF S
  <2> QED BY <1>1, <1>2, UpTo
<1> QED BY <1>3

\* The words OnBits finds.
LEMMA OnBitsIs ==
  ASSUME NEW op, NEW l \in Int32, NEW r \in Int32
  PROVE  \E f : Words(f, op, PairsUpTo(MaxInt)) /\ OnBits(op, l, r) = f[<<l, r>>]
<1> DEFINE D    == Int32 \X Int32
           word == CHOOSE f : f = [p \in D |->
                     LET rest == <<p[1] \div 2, p[2] \div 2>>
                         bit  == op[<<p[1] % 2, p[2] % 2>>]
                     IN IF rest = p THEN -bit ELSE 2 * f[rest] + bit]
<1>1. D = PairsUpTo(MaxInt) /\ MaxInt \in Nat
  BY I32Assumption DEF PairsUpTo, Int32, MinInt
<1>2. OnBits(op, l, r) = word[<<l, r>>]
  <2>1. Wrap(l) = l /\ Wrap(r) = r
    BY WrapSame
  <2> QED BY <2>1 DEF OnBits
<1>3. \E f : f = [p \in D |->
                     LET rest == <<p[1] \div 2, p[2] \div 2>>
                         bit  == op[<<p[1] % 2, p[2] % 2>>]
                     IN IF rest = p THEN -bit ELSE 2 * f[rest] + bit]
  <2>1. PICK f : Words(f, op, D)
    BY <1>1, WordsExist
  <2>2. f = [p \in D |->
               LET rest == <<p[1] \div 2, p[2] \div 2>>
                   bit  == op[<<p[1] % 2, p[2] % 2>>]
               IN IF rest = p THEN -bit ELSE 2 * f[rest] + bit]
    BY <2>1 DEF Words, Rest, LastBits
  <2> QED BY ONLY <2>2, Zenon
<1>4. word = [p \in D |->
                     LET rest == <<p[1] \div 2, p[2] \div 2>>
                         bit  == op[<<p[1] % 2, p[2] % 2>>]
                     IN IF rest = p THEN -bit ELSE 2 * word[rest] + bit]
  BY <1>3
<1> HIDE DEF word
<1>5. Words(word, op, D)
  BY <1>4 DEF Words, Rest, LastBits
<1> QED BY <1>1, <1>2, <1>5

\* The operands of a comparison are equal if their XOR is zero.
LEMMA XorTells ==
  ASSUME NEW l \in Int32, NEW r \in Int32
  PROVE  BitXor(l, r) = 0 <=> l = r
<1> DEFINE op == [p \in BitPairs |-> (p[1] + p[2]) % 2]
<1>1. \A p \in BitPairs : op[p] \in {0, 1} /\ (op[p] = 0 <=> p[1] = p[2])
  BY DEF BitPairs
<1> HIDE DEF op
<1>2. PICK f : Words(f, op, PairsUpTo(MaxInt)) /\ BitXor(l, r) = f[<<l, r>>]
  BY OnBitsIs DEF BitXor, op
<1>3. MaxInt \in Nat /\ <<l, r>> \in PairsUpTo(MaxInt)
  BY I32Assumption DEF PairsUpTo, Int32, MinInt
<1> DEFINE Tells(p) == f[p] \in Int /\ (f[p] = 0 <=> p[1] = p[2])
           S == {n \in 0 .. MaxInt : \A p \in PairsUpTo(n) : Tells(p)}
<1>4. ASSUME NEW n \in 0 .. MaxInt, NEW p \in PairsUpTo(n),
             n > 0 => \A q \in PairsUpTo(n - 1) : Tells(q)
      PROVE  Tells(p)
  <2>1. p \in PairsUpTo(MaxInt) /\ n \in Nat
    <3>1. n \in Nat /\ n <= MaxInt /\ MaxInt \in Nat
      BY <1>3
    <3>2. -n - 1 .. n \subseteq -MaxInt - 1 .. MaxInt
      BY <3>1
    <3> QED BY <3>1, <3>2 DEF PairsUpTo
  <2>2. f[p] = IF Rest(p) = p THEN -op[LastBits(p)] ELSE 2 * f[Rest(p)] + op[LastBits(p)]
    BY <1>2, <2>1 DEF Words
  <2>3. op[LastBits(p)] \in {0, 1}
        /\ (op[LastBits(p)] = 0 <=> LastBits(p)[1] = LastBits(p)[2])
    BY <1>1, <2>1, RestIsSmaller
  <2>4. CASE Rest(p) = p
    <3>1. LastBits(p) = <<-p[1], -p[2]>> /\ p[1] \in Int /\ p[2] \in Int
      BY <2>1, <2>4, RestIsSmaller
    <3> QED BY <2>2, <2>3, <2>4, <3>1
  <2>5. CASE Rest(p) # p
    <3>1. n > 0
      BY <2>1, <2>5, RestIsSmaller
    <3>2. Rest(p) \in PairsUpTo(n - 1)
      BY <2>1, <3>1, RestIsSmaller
    <3>3. f[Rest(p)] \in Int /\ (f[Rest(p)] = 0 <=> Rest(p)[1] = Rest(p)[2])
      BY <1>4, <3>1, <3>2
    <3>4. p[1] = p[2] <=> Rest(p)[1] = Rest(p)[2] /\ LastBits(p)[1] = LastBits(p)[2]
      BY <2>1, RestIsSmaller
    <3> QED BY <2>2, <2>3, <2>5, <3>3, <3>4
  <2> QED BY <2>4, <2>5
<1> HIDE DEF Tells
<1>5. 0 \in S
  BY <1>3, <1>4
<1>6. ASSUME NEW n \in 0 .. MaxInt - 1, n \in S PROVE n + 1 \in S
  <2>1. n + 1 \in 0 .. MaxInt /\ n + 1 - 1 = n
    BY <1>3
  <2> QED BY <1>4, <1>6, <2>1
<1>7. MaxInt \in S
  <2> HIDE DEF S
  <2> QED BY <1>3, <1>5, <1>6, UpTo
<1>8. Tells(<<l, r>>)
  BY <1>3, <1>7
<1> QED BY <1>2, <1>8 DEF Tells

\* An operation that gives 0 for two zeros, on single bits.
LEMMA SingleBits ==
  ASSUME NEW op \in [BitPairs -> {0, 1}], op[<<0, 0>>] = 0, NEW l \in {0, 1}, NEW r \in {0, 1}
  PROVE  OnBits(op, l, r) = op[<<l, r>>]
<1>1. l \in Int32 /\ r \in Int32 /\ MaxInt \in Nat /\ 0 \in Int32
  BY I32Assumption DEF Int32, MinInt
<1>2. PICK f : Words(f, op, PairsUpTo(MaxInt)) /\ OnBits(op, l, r) = f[<<l, r>>]
  BY <1>1, OnBitsIs
<1>3. \A p \in Int32 \X Int32 :
        f[p] = IF Rest(p) = p THEN -op[LastBits(p)] ELSE 2 * f[Rest(p)] + op[LastBits(p)]
  BY <1>2 DEF Words, PairsUpTo, Int32, MinInt
<1>4. Rest(<<0, 0>>) = <<0, 0>> /\ LastBits(<<0, 0>>) = <<0, 0>>
  BY DEF Rest, LastBits
<1>5. f[<<0, 0>>] = 0
  BY <1>1, <1>3, <1>4
<1>6. Rest(<<l, r>>) = <<0, 0>> /\ LastBits(<<l, r>>) = <<l, r>>
  BY DEF Rest, LastBits
<1>7. op[<<l, r>>] \in {0, 1}
  BY DEF BitPairs
<1> QED BY <1>1, <1>2, <1>3, <1>5, <1>6, <1>7

\* AND and OR of truth values.
LEMMA LogicOfTruths ==
  ASSUME NEW a \in BOOLEAN, NEW b \in BOOLEAN
  PROVE  /\ BitAnd(Truth(a), Truth(b)) = Truth(a /\ b)
         /\ BitOr(Truth(a), Truth(b)) = Truth(a \/ b)
<1>1. Truth(a) \in {0, 1} /\ Truth(b) \in {0, 1}
  BY DEF Truth
<1> DEFINE and == [p \in BitPairs |-> p[1] * p[2]]
           or  == [p \in BitPairs |-> p[1] + p[2] - p[1] * p[2]]
<1>2. and \in [BitPairs -> {0, 1}] /\ or \in [BitPairs -> {0, 1}]
  BY DEF BitPairs
<1>3. \A x, y \in {0, 1} : and[<<x, y>>] = x * y /\ or[<<x, y>>] = x + y - x * y
  BY DEF BitPairs
<1>4. and[<<0, 0>>] = 0 /\ or[<<0, 0>>] = 0
  BY <1>3
<1>5. BitAnd(Truth(a), Truth(b)) = OnBits(and, Truth(a), Truth(b))
      /\ BitOr(Truth(a), Truth(b)) = OnBits(or, Truth(a), Truth(b))
  BY DEF BitAnd, BitOr
<1> HIDE DEF and, or
<1>6. OnBits(and, Truth(a), Truth(b)) = and[<<Truth(a), Truth(b)>>]
      /\ OnBits(or, Truth(a), Truth(b)) = or[<<Truth(a), Truth(b)>>]
  BY <1>1, <1>2, <1>4, SingleBits
<1>7. and[<<Truth(a), Truth(b)>>] = Truth(a) * Truth(b)
      /\ or[<<Truth(a), Truth(b)>>] = Truth(a) + Truth(b) - Truth(a) * Truth(b)
  BY <1>1, <1>3
<1> QED BY <1>5, <1>6, <1>7 DEF Truth

-----------------------------------------------------------------------------
(* The core.                                                               *)

\* A core with all its registers, the zero register zero.
IsCpu(c) ==
  /\ c = [x |-> c.x, mem |-> c.mem, halted |-> c.halted]
  /\ c.x = [r \in Reg |-> c.x[r]] /\ c.x[ZERO] = 0

\* d is c but for register r, which holds v.
Wrote(c, d, r, v) ==
  /\ IsCpu(d) /\ d.mem = c.mem /\ d.halted = c.halted
  /\ \A q \in Reg : d.x[q] = IF q = r THEN v ELSE c.x[q]

LEMMA WrittenFacts ==
  ASSUME NEW c, IsCpu(c), NEW r \in Reg \ {ZERO}, NEW v
  PROVE  Wrote(c, Written(c, r, v), r, v)
<1> DEFINE y == [c.x EXCEPT ![r] = v]
           d == Written(c, r, v)
<1>1. d = [c EXCEPT !.x = y]
  BY DEF Written
<1>2. /\ y = [q \in Reg |-> y[q]] /\ \A q \in Reg : y[q] = IF q = r THEN v ELSE c.x[q]
  <2> DEFINE x == c.x
  <2>1. x = [q \in Reg |-> x[q]]
    BY DEF IsCpu
  <2> HIDE DEF x
  <2>2. LET z == [x EXCEPT ![r] = v]
        IN /\ z = [q \in Reg |-> z[q]]
           /\ \A q \in Reg : z[q] = IF q = r THEN v ELSE x[q]
    BY <2>1
  <2> QED BY <2>2 DEF x
<1> HIDE DEF y
<1>3. /\ d = [x |-> d.x, mem |-> d.mem, halted |-> d.halted]
      /\ d.x = y /\ d.mem = c.mem /\ d.halted = c.halted
  BY <1>1 DEF IsCpu
<1>4. d.x[ZERO] = 0
  <2>1. ZERO \in Reg
    BY DEF ZERO, Reg
  <2> QED BY <1>2, <1>3, <2>1 DEF IsCpu
<1> HIDE DEF d
<1>5. IsCpu(d)
  BY <1>2, <1>3, <1>4 DEF IsCpu
<1> QED BY <1>2, <1>3, <1>5 DEF Wrote, d

\* d is c but for the word at a, which is v.
Poked(c, d, a, v) ==
  /\ IsCpu(d) /\ d.x = c.x /\ d.halted = c.halted
  /\ DOMAIN d.mem = DOMAIN c.mem \cup {a}
  /\ \A b : Peek(d, b) = IF b = a THEN v ELSE Peek(c, b)

LEMMA PokeFacts ==
  ASSUME NEW c, IsCpu(c), NEW a, NEW v
  PROVE  Poked(c, Poke(c, a, v), a, v)
<1> DEFINE m == [b \in DOMAIN c.mem \cup {a} |-> IF b = a THEN v ELSE c.mem[b]]
           d == Poke(c, a, v)
<1>1. d = [c EXCEPT !.mem = m]
  BY DEF Poke
<1>2. DOMAIN m = DOMAIN c.mem \cup {a} /\ \A b \in DOMAIN m : m[b] = IF b = a THEN v ELSE c.mem[b]
  OBVIOUS
<1> HIDE DEF m
<1>3. /\ d = [x |-> d.x, mem |-> d.mem, halted |-> d.halted]
      /\ d.x = c.x /\ d.mem = m /\ d.halted = c.halted
  BY <1>1 DEF IsCpu
<1> HIDE DEF d
<1>4. IsCpu(d)
  BY <1>3 DEF IsCpu
<1>5. \A b : Peek(d, b) = IF b = a THEN v ELSE Peek(c, b)
  BY <1>2, <1>3 DEF Peek
<1> QED BY <1>2, <1>3, <1>4, <1>5 DEF Poked, d

\* Its lines, one by one.
LEMMA StepLi ==
  ASSUME NEW c, ~c.halted, NEW rd \in Targets, NEW n \in Int,
         NEW inst, inst = Gen!AsmInst("LI", rd, Absent, Absent, Imm(n))
  PROVE  Step(c, Gen!AsmLine(inst)) = Written(c, rd.reg, n)
<1>1. rd # Absent /\ Imm(n) # Absent /\ Imm(n).offset = n
  BY KindsOfField
<1>2. /\ inst.opcode = "LI" /\ inst.rd = rd /\ inst.rs1 = Absent
      /\ inst.rs2 = Absent /\ inst.imm = Imm(n)
  BY DEF Gen!AsmInst
<1>3. Gen!AsmWords(inst) = <<rd, Imm(n)>>
  BY <1>1, <1>2, JoinFields, SameNames DEF Gen!AsmWords, Gen!Field
<1> DEFINE line == Gen!AsmLine(inst)
<1>4. line.mnemonic = "li" /\ line.words[1] = rd /\ line.words[2] = Imm(n)
  BY <1>2, <1>3 DEF Gen!AsmLine, Gen!Mnemonic
<1> HIDE DEF line
<1>5. Step(c, line) = Written(c, rd.reg, n)
  BY <1>1, <1>4 DEF Step
<1> QED BY <1>5 DEF line

LEMMA StepLw ==
  ASSUME NEW c, ~c.halted, NEW rs1, NEW rd,
         NEW inst, inst = Gen!AsmInst("LW", rd, rs1, Absent, Absent)
  PROVE  Step(c, Gen!AsmLine(inst)) = Written(c, rs1.reg, Peek(c, c.x[rd.reg] + rd.offset))
<1>1. inst.opcode = "LW" /\ inst.rd = rd /\ inst.rs1 = rs1
  BY DEF Gen!AsmInst
<1> DEFINE line == Gen!AsmLine(inst)
<1>2. line.mnemonic = "lw" /\ line.words[1] = rs1 /\ line.words[2] = rd
  BY <1>1 DEF Gen!AsmLine, Gen!Mnemonic, Gen!AsmWords
<1> HIDE DEF line
<1>3. Step(c, line) = Written(c, rs1.reg, Peek(c, c.x[rd.reg] + rd.offset))
  BY <1>2 DEF Step, AddressOf
<1> QED BY <1>3 DEF line

LEMMA StepSw ==
  ASSUME NEW c, ~c.halted, NEW rs1, NEW rs2,
         NEW inst, inst = Gen!AsmInst("SW", Absent, rs1, rs2, Absent)
  PROVE  Step(c, Gen!AsmLine(inst)) = Poke(c, c.x[rs1.reg] + rs1.offset, c.x[rs2.reg])
<1>1. inst.opcode = "SW" /\ inst.rs1 = rs1 /\ inst.rs2 = rs2
  BY DEF Gen!AsmInst
<1> DEFINE line == Gen!AsmLine(inst)
<1>2. line.mnemonic = "sw" /\ line.words[1] = rs2 /\ line.words[2] = rs1
  BY <1>1 DEF Gen!AsmLine, Gen!Mnemonic, Gen!AsmWords
<1> HIDE DEF line
<1>3. Step(c, line) = Poke(c, c.x[rs1.reg] + rs1.offset, c.x[rs2.reg])
  BY <1>2 DEF Step, AddressOf
<1> QED BY <1>3 DEF line

LEMMA StepTest ==
  ASSUME NEW c, ~c.halted, NEW opcode \in {"SEQZ", "SNEZ"}, NEW rd \in Targets,
         NEW rs1 \in Sources,
         NEW inst, inst = Gen!AsmInst(opcode, rd, rs1, Absent, Absent)
  PROVE  Step(c, Gen!AsmLine(inst))
           = Written(c, rd.reg, Alu(Gen!Mnemonic[opcode], c.x[rs1.reg], 0))
<1>1. rd # Absent /\ rs1 # Absent
  BY KindsOfField
<1>2. /\ inst.opcode = opcode /\ inst.rd = rd /\ inst.rs1 = rs1
      /\ inst.rs2 = Absent /\ inst.imm = Absent
  BY DEF Gen!AsmInst
<1>3. Gen!AsmWords(inst) = <<rd, rs1>>
  BY <1>1, <1>2, JoinFields, SameNames DEF Gen!AsmWords, Gen!Field
<1> DEFINE line == Gen!AsmLine(inst)
<1>4. line.mnemonic = Gen!Mnemonic[opcode] /\ line.words[1] = rd /\ line.words[2] = rs1
  BY <1>2, <1>3 DEF Gen!AsmLine
<1>5. Gen!Mnemonic[opcode] \in {"seqz", "snez"}
  BY DEF Gen!Mnemonic
<1> HIDE DEF line
<1>6. Step(c, line) = Written(c, rd.reg, Alu(line.mnemonic, c.x[rs1.reg], 0))
  BY <1>4, <1>5 DEF Step
<1> QED BY <1>4, <1>6 DEF line

LEMMA StepOperation ==
  ASSUME NEW c, ~c.halted, NEW opcode \in Operations, NEW rd \in Targets,
         NEW rs1 \in Sources, NEW rs2 \in Sources,
         NEW inst, inst = Gen!AsmInst(opcode, rd, rs1, rs2, Absent)
  PROVE  Step(c, Gen!AsmLine(inst))
           = Written(c, rd.reg, Alu(Gen!Mnemonic[opcode], c.x[rs1.reg], c.x[rs2.reg]))
<1>1. rd # Absent /\ rs1 # Absent /\ rs2 # Absent
  BY KindsOfField
<1>2. /\ inst.opcode = opcode /\ inst.rd = rd /\ inst.rs1 = rs1
      /\ inst.rs2 = rs2 /\ inst.imm = Absent
  BY DEF Gen!AsmInst
<1>3. Gen!AsmWords(inst) = <<rd, rs1, rs2>>
  BY <1>1, <1>2, JoinFields, SameNames DEF Gen!AsmWords, Gen!Field, Operations
<1> DEFINE line == Gen!AsmLine(inst)
<1>4. /\ line.mnemonic = Gen!Mnemonic[opcode]
      /\ line.words[1] = rd /\ line.words[2] = rs1 /\ line.words[3] = rs2
  BY <1>2, <1>3 DEF Gen!AsmLine
<1>5. Gen!Mnemonic[opcode] \notin {"ret", "li", "addi", "lw", "sw", "seqz", "snez"}
  BY DEF Gen!Mnemonic, Operations
<1> HIDE DEF line
<1>6. Step(c, line) = Written(c, rd.reg, Alu(line.mnemonic, c.x[rs1.reg], c.x[rs2.reg]))
  BY <1>4, <1>5 DEF Step
<1> QED BY <1>4, <1>6 DEF line

LEMMA StepAddi ==
  ASSUME NEW c, ~c.halted, NEW n \in Int, NEW inst,
         inst = Gen!AsmInst("ADDI", Temp(SP), Temp(SP), Absent, Imm(n))
  PROVE  Step(c, Gen!AsmLine(inst)) = Written(c, SP, c.x[SP] + n)
<1>1. Temp(SP) # Absent /\ Imm(n) # Absent /\ Imm(n).offset = n
  BY KindsOfField
<1>2. /\ inst.opcode = "ADDI" /\ inst.rd = Temp(SP) /\ inst.rs1 = Temp(SP)
      /\ inst.rs2 = Absent /\ inst.imm = Imm(n)
  BY DEF Gen!AsmInst
<1>3. Gen!AsmWords(inst) = <<Temp(SP), Temp(SP), Imm(n)>>
  BY <1>1, <1>2, JoinFields, SameNames DEF Gen!AsmWords, Gen!Field
<1> DEFINE line == Gen!AsmLine(inst)
<1>4. /\ line.mnemonic = "addi" /\ line.words[1] = Temp(SP)
      /\ line.words[2] = Temp(SP) /\ line.words[3] = Imm(n)
  BY <1>2, <1>3 DEF Gen!AsmLine, Gen!Mnemonic
<1>5. Temp(SP).reg = SP
  BY DEF Temp
<1> HIDE DEF line
<1>6. Step(c, line) = Written(c, SP, c.x[SP] + n)
  BY <1>1, <1>4, <1>5 DEF Step
<1> QED BY <1>6 DEF line

LEMMA StepRet ==
  ASSUME NEW c, IsCpu(c), ~c.halted, NEW inst,
         inst = Gen!AsmInst("RET", Absent, Absent, Absent, Absent), NEW d,
         d = Step(c, Gen!AsmLine(inst))
  PROVE  IsCpu(d) /\ d.x = c.x /\ d.mem = c.mem /\ d.halted
<1>1. inst.opcode = "RET"
  BY DEF Gen!AsmInst
<1> DEFINE line == Gen!AsmLine(inst)
<1>2. line.mnemonic = "ret"
  BY <1>1 DEF Gen!AsmLine, Gen!Mnemonic
<1> HIDE DEF line
<1>3. d = [c EXCEPT !.halted = TRUE]
  BY <1>2 DEF Step, line
<1> QED BY <1>3 DEF IsCpu

\* After "ret" nothing is reached.
LEMMA HaltedStays ==
  ASSUME NEW c, c.halted, NEW s, Len(s) \in Nat
  PROVE  Run(c, s) = c
<1>1. PICK f : Runs(f, c, s, Len(s)) /\ Run(c, s) = f[Len(s)]
  BY RunIs
<1>2. /\ f[0] = c
      /\ \A k \in 0 .. Len(s) - 1 : f[k + 1] = Step(f[k], Gen!AsmLine(s[k + 1]))
  BY <1>1, RunsFacts
<1> DEFINE T == {k \in 0 .. Len(s) : f[k] = c}
<1>3. 0 \in T
  BY <1>2
<1>4. ASSUME NEW k \in 0 .. Len(s) - 1, k \in T PROVE k + 1 \in T
  <2>1. f[k] = c /\ k + 1 \in 0 .. Len(s)
    BY <1>4
  <2>2. Step(c, Gen!AsmLine(s[k + 1])) = c
    BY DEF Step
  <2> QED BY <1>2, <2>1, <2>2
<1>5. Len(s) \in T
  <2> HIDE DEF T
  <2>1. \A k \in 0 .. Len(s) : k \in T
    BY <1>3, <1>4, UpTo
  <2> QED BY <2>1
<1> QED BY <1>1, <1>5

-----------------------------------------------------------------------------
(* A lowering under way, executed.                                         *)

\* The core after what the lowering g has emitted so far.
After(g) == Run(cpu, g.out)

\* Nothing but temporary registers has changed.
Quiet(g) ==
  /\ IsCpu(After(g)) /\ After(g).mem = cpu.mem /\ ~After(g).halted
  /\ \A r \in Reg \ TempRegs : After(g).x[r] = cpu.x[r]

\* The register w is taken, or the zero register, and holds v.
Holds(g, w, v) ==
  /\ w \in Sources /\ (w # Temp(ZERO) => g.regs[w.reg] # REG_IDLE)
  /\ After(g).x[w.reg] = v

\* From g to h nothing that a register was holding is lost.
StillHolds(g, h) == \A w, v : Holds(g, w, v) => Holds(h, w, v)

\* What o stands for: a constant, or what is in the slot of a name.
SlotOf(o)  == cpu.x[SP] + Gen!GetNamedVar(frames, o)
Denoted(o) == IF o.kind = "Const" THEN o.val ELSE Peek(cpu, SlotOf(o))

\* g and h have the same registers taken and the same code emitted.
LEMMA SameCodeQuiet ==
  ASSUME NEW g, NEW h, h.out = g.out, h.regs = g.regs, Quiet(g)
  PROVE  Quiet(h) /\ StillHolds(g, h)
  BY DEF Quiet, StillHolds, Holds, After

LEMMA TargetFacts ==
  ASSUME NEW w \in Targets
  PROVE  /\ w.reg \in TempRegs /\ w.reg \in Reg \ {ZERO} /\ w = Temp(w.reg) /\ w # Temp(ZERO)
         /\ w \in Sources /\ w.reg \in Int
  BY DEF Targets, Sources, Temp, TempRegs, Reg, ZERO

\* A register that was idle is taken for what an instruction computes.
LEMMA ComputeHolds ==
  ASSUME NEW size, NEW g, NEW k \in 0 .. 4, NEW T, Chain(g, k, T, size), Quiet(g),
         NEW id \in Nat, NEW d, d = Gen!Occupied(g, id),
         NEW inst \in BodyInsts(size), NEW v,
         Step(After(g), Gen!AsmLine(inst)) = Written(After(g), d.got.reg, v),
         NEW e, e.regs = d.regs, e.out = Append(d.out, inst)
  PROVE  Quiet(e) /\ Holds(e, d.got, v) /\ StillHolds(g, e)
<1> DEFINE r == d.got.reg
<1>1. Chain(d, k + 1, T \cup {d.got}, size) /\ d.got \in Targets
  BY OccupiedChain
<1>2. /\ r \in TempRegs /\ r \in Reg \ {ZERO} /\ d.got = Temp(r) /\ d.got # Temp(ZERO)
      /\ d.got \in Sources
  BY <1>1, TargetFacts
<1>3. PICK j \in 0 .. k : Gen!FreeRegs(g.regs) = FreeFrom(Nth[j + 1])
  BY DEF Chain
<1>4. /\ d.out = g.out /\ g.regs[r] = REG_IDLE /\ d.regs[r] # REG_IDLE
      /\ \A q \in Reg : q # r => d.regs[q] = g.regs[q]
  <2> DEFINE F == Gen!FreeRegs(g.regs)
             m == Gen!Min(F)
  <2>1. F # {} /\ m = Nth[j + 1] /\ m \in FreeFrom(Nth[j + 1])
    <3>1. j \in 0 .. 4
      OBVIOUS
    <3>2. FreeFrom(Nth[j + 1]) # {} /\ Gen!Min(FreeFrom(Nth[j + 1])) = Nth[j + 1]
          /\ Nth[j + 1] \in TempRegs
      BY <3>1, TakeNext
    <3>3. TempRegs \subseteq Int
      BY DEF TempRegs
    <3> DEFINE q == Nth[j + 1]
    <3> HIDE DEF q
    <3>4. q \in TempRegs /\ q \in Int /\ F = FreeFrom(q)
      BY <1>3, <3>2, <3>3 DEF q
    <3>5. q \in FreeFrom(q)
      BY <3>4 DEF FreeFrom
    <3> QED BY <3>2, <3>4, <3>5 DEF q
  <2>2. m \in F
    BY <1>3, <2>1
  <2> HIDE DEF m
  <2>3. m \in Reg /\ g.regs[m] = REG_IDLE
    <3>1. m \in TempRegs /\ g.regs[m] = REG_IDLE
      BY <2>2, SameNames DEF Gen!FreeRegs
    <3>2. TempRegs \subseteq Reg
      BY DEF TempRegs, Reg
    <3> QED BY <3>1, <3>2
  <2>4. /\ d.regs = [g.regs EXCEPT ![m] = id] /\ d.got = Temp(m) /\ d.out = g.out
    BY <2>1, SameNames DEF Chain, Gen!Occupied, Gen!OccupyReg, Gen!FindFreeReg, m
  <2>5. r = m
    BY <2>4 DEF Temp
  <2>6. g.regs \in [Reg -> Int] /\ id # REG_IDLE
    BY DEF Chain, REG_IDLE
  <2> QED BY <2>3, <2>4, <2>5, <2>6
<1>5. After(e) = Written(After(g), r, v)
  <2>1. g.out \in Seq(BodyInsts(size))
    BY DEF Chain
  <2>2. Run(cpu, Append(g.out, inst)) = Step(Run(cpu, g.out), Gen!AsmLine(inst))
    BY <2>1, RunAppend
  <2> QED BY <1>4, <2>2 DEF After
<1> HIDE DEF r
<1>6. Wrote(After(g), After(e), r, v)
  <2> DEFINE c == After(g)
  <2>1. IsCpu(c) /\ After(e) = Written(c, r, v)
    BY <1>5 DEF Quiet
  <2> HIDE DEF c
  <2>2. Wrote(c, After(e), r, v)
    BY <1>2, <2>1, WrittenFacts
  <2> QED BY <2>2 DEF c
<1>7. Quiet(e)
  BY <1>2, <1>6 DEF Wrote, Quiet
<1>8. Holds(e, d.got, v)
  BY <1>2, <1>4, <1>6 DEF Wrote, Holds, r
<1>9. StillHolds(g, e)
  <2> SUFFICES ASSUME NEW w, NEW u, Holds(g, w, u) PROVE Holds(e, w, u)
    BY DEF StillHolds
  <2>1. w \in Sources /\ w.reg \in Reg /\ (w = Temp(ZERO) => w.reg = ZERO)
    <3>1. CASE w = Temp(ZERO)
      BY <3>1 DEF Temp, Reg, ZERO, Holds
    <3>2. CASE w # Temp(ZERO)
      BY <3>2, TargetFacts DEF Holds, Sources
    <3> QED BY <3>1, <3>2
  <2>2. w.reg # r
    BY <1>2, <1>4, <2>1 DEF Holds
  <2> QED BY <1>4, <1>6, <2>1, <2>2 DEF Holds, Wrote
<1> QED BY <1>7, <1>8, <1>9

\* The steps of ComputeHolds, by what is emitted.
LEMMA LiHolds ==
  ASSUME NEW size, NEW g, NEW k \in 0 .. 4, NEW T, Chain(g, k, T, size), Quiet(g),
         NEW id \in Nat, NEW d, d = Gen!Occupied(g, id), NEW n \in Int32,
         NEW e, e = Gen!Emitted(d, "LI", d.got, Absent, Absent, Imm(n))
  PROVE  Quiet(e) /\ Holds(e, d.got, n) /\ StillHolds(g, e)
<1> DEFINE inst == Gen!AsmInst("LI", d.got, Absent, Absent, Imm(n))
<1>1. Chain(d, k + 1, T \cup {d.got}, size) /\ d.got \in Targets
  BY OccupiedChain
<1>2. inst \in BodyInsts(size)
  BY <1>1, GoodLi
<1>3. e.regs = d.regs /\ e.out = Append(d.out, inst)
  BY <1>1 DEF Chain, Gen!Emitted
<1>4. Step(After(g), Gen!AsmLine(inst)) = Written(After(g), d.got.reg, n)
  <2>1. n \in Int /\ ~After(g).halted
    BY I32Range DEF Quiet, Int32
  <2> QED BY <1>1, <2>1, StepLi
<1> HIDE DEF inst
<1> QED BY <1>2, <1>3, <1>4, ComputeHolds

LEMMA LwHolds ==
  ASSUME NEW size, NEW g, NEW k \in 0 .. 4, NEW T, Chain(g, k, T, size), Quiet(g),
         NEW id \in Nat, NEW d, d = Gen!Occupied(g, id), NEW o, Placed(o, size),
         NEW slot, slot = Mem(Gen!GetNamedVar(frames, o)),
         NEW e, e = Gen!Emitted(d, "LW", slot, d.got, Absent, Absent)
  PROVE  Quiet(e) /\ Holds(e, d.got, Peek(cpu, SlotOf(o))) /\ StillHolds(g, e)
<1> DEFINE inst == Gen!AsmInst("LW", slot, d.got, Absent, Absent)
           v    == Peek(cpu, SlotOf(o))
<1>1. Chain(d, k + 1, T \cup {d.got}, size) /\ d.got \in Targets
  BY OccupiedChain
<1>2. slot \in FrameSlots(size) /\ slot.reg = SP /\ slot.offset = Gen!GetNamedVar(frames, o)
  <2>1. SP \in Reg /\ Gen!GetNamedVar(frames, o) \in 0 .. size - 4
    BY DEF SP, Reg, Placed
  <2> QED BY <2>1 DEF FrameSlots, Mem, IsSlot, Fields
<1>3. inst \in BodyInsts(size)
  BY <1>1, <1>2, GoodLw
<1>4. e.regs = d.regs /\ e.out = Append(d.out, inst)
  BY <1>1 DEF Chain, Gen!Emitted
<1>5. Step(After(g), Gen!AsmLine(inst)) = Written(After(g), d.got.reg, v)
  <2>1. Step(After(g), Gen!AsmLine(inst))
          = Written(After(g), d.got.reg, Peek(After(g), After(g).x[slot.reg] + slot.offset))
    BY StepLw DEF Quiet
  <2>2. SP \in Reg \ TempRegs
    BY DEF SP, Reg, TempRegs
  <2>3. Peek(After(g), After(g).x[slot.reg] + slot.offset) = v
    BY <1>2, <2>2 DEF Quiet, Peek, SlotOf
  <2> QED BY <2>1, <2>3
<1> HIDE DEF inst, v
<1>6. Quiet(e) /\ Holds(e, d.got, v) /\ StillHolds(g, e)
  BY <1>3, <1>4, <1>5, ComputeHolds
<1> QED BY <1>6 DEF v

LEMMA TestHolds ==
  ASSUME NEW size, NEW g, NEW k \in 0 .. 4, NEW T, Chain(g, k, T, size), Quiet(g),
         NEW id \in Nat, NEW d, d = Gen!Occupied(g, id),
         NEW opcode \in {"SEQZ", "SNEZ"}, NEW rs1, NEW l, Holds(g, rs1, l),
         NEW e, e = Gen!Emitted(d, opcode, d.got, rs1, Gen!Absent, Gen!Absent)
  PROVE  /\ Quiet(e) /\ StillHolds(g, e)
         /\ Holds(e, d.got, Truth(IF opcode = "SEQZ" THEN l = 0 ELSE l # 0))
<1> DEFINE inst == Gen!AsmInst(opcode, d.got, rs1, Absent, Absent)
           v    == Truth(IF opcode = "SEQZ" THEN l = 0 ELSE l # 0)
<1>1. Chain(d, k + 1, T \cup {d.got}, size) /\ d.got \in Targets /\ rs1 \in Sources
  BY OccupiedChain DEF Holds
<1>2. inst \in BodyInsts(size)
  BY <1>1, GoodTest
<1>3. e.regs = d.regs /\ e.out = Append(d.out, inst)
  BY <1>1, SameNames DEF Chain, Gen!Emitted
<1>4. Step(After(g), Gen!AsmLine(inst)) = Written(After(g), d.got.reg, v)
  <2>1. Step(After(g), Gen!AsmLine(inst))
          = Written(After(g), d.got.reg, Alu(Gen!Mnemonic[opcode], After(g).x[rs1.reg], 0))
    BY <1>1, StepTest DEF Quiet
  <2>2. After(g).x[rs1.reg] = l
    BY DEF Holds
  <2>3. Alu(Gen!Mnemonic[opcode], l, 0) = v
    <3>1. CASE opcode = "SEQZ"
      BY <3>1 DEF Alu, Gen!Mnemonic
    <3>2. CASE opcode = "SNEZ"
      BY <3>2 DEF Alu, Gen!Mnemonic
    <3> QED BY <3>1, <3>2
  <2> QED BY <2>1, <2>2, <2>3
<1> HIDE DEF inst, v
<1>5. Quiet(e) /\ Holds(e, d.got, v) /\ StillHolds(g, e)
  BY <1>2, <1>3, <1>4, ComputeHolds
<1> QED BY <1>5 DEF v

LEMMA OperationHolds ==
  ASSUME NEW size, NEW g, NEW k \in 0 .. 4, NEW T, Chain(g, k, T, size), Quiet(g),
         NEW id \in Nat, NEW d, d = Gen!Occupied(g, id),
         NEW opcode \in Operations, NEW rs1, NEW l, Holds(g, rs1, l),
         NEW rs2, NEW r, Holds(g, rs2, r),
         NEW e, e = Gen!Emitted(d, opcode, d.got, rs1, rs2, Gen!Absent)
  PROVE  /\ Quiet(e) /\ StillHolds(g, e)
         /\ Holds(e, d.got, Alu(Gen!Mnemonic[opcode], l, r))
<1> DEFINE inst == Gen!AsmInst(opcode, d.got, rs1, rs2, Absent)
           v    == Alu(Gen!Mnemonic[opcode], l, r)
<1>1. /\ Chain(d, k + 1, T \cup {d.got}, size) /\ d.got \in Targets
      /\ rs1 \in Sources /\ rs2 \in Sources
  BY OccupiedChain DEF Holds
<1>2. inst \in BodyInsts(size)
  BY <1>1, GoodOperation
<1>3. e.regs = d.regs /\ e.out = Append(d.out, inst)
  BY <1>1, SameNames DEF Chain, Gen!Emitted
<1>4. Step(After(g), Gen!AsmLine(inst)) = Written(After(g), d.got.reg, v)
  <2>1. Step(After(g), Gen!AsmLine(inst))
          = Written(After(g), d.got.reg,
                    Alu(Gen!Mnemonic[opcode], After(g).x[rs1.reg], After(g).x[rs2.reg]))
    BY <1>1, StepOperation DEF Quiet
  <2>2. After(g).x[rs1.reg] = l /\ After(g).x[rs2.reg] = r
    BY DEF Holds
  <2> QED BY <2>1, <2>2
<1> HIDE DEF inst, v
<1>5. Quiet(e) /\ Holds(e, d.got, v) /\ StillHolds(g, e)
  BY <1>2, <1>3, <1>4, ComputeHolds
<1> QED BY <1>5 DEF v

\* The same for the register d of instruction Id.
Live(g) == Quiet(g) /\ Gen!Id \in Nat /\ \E k \in 0 .. 4 : \E T, size : Chain(g, k, T, size)

LEMMA TestApplied ==
  ASSUME NEW g, NEW d, NEW e, NEW opcode \in {"SEQZ", "SNEZ"}, NEW rs1,
         Live(g), d = Gen!Occupied(g, Gen!Id),
         e = Gen!Emitted(d, opcode, d.got, rs1, Gen!Absent, Gen!Absent),
         NEW l, Holds(g, rs1, l)
  PROVE  /\ Quiet(e) /\ StillHolds(g, e)
         /\ Holds(e, d.got, Truth(IF opcode = "SEQZ" THEN l = 0 ELSE l # 0))
<1>1. PICK k \in 0 .. 4 : \E T, size : Chain(g, k, T, size)
  BY DEF Live
<1>2. PICK T, size : Chain(g, k, T, size)
  BY <1>1
<1> DEFINE id == Gen!Id
<1>3. id \in Nat /\ Quiet(g) /\ d = Gen!Occupied(g, id)
  BY DEF Live
<1> HIDE DEF id
<1> QED BY <1>2, <1>3, TestHolds

LEMMA OperationApplied ==
  ASSUME NEW g, NEW d, NEW e, NEW opcode \in Operations, NEW rs1, NEW rs2,
         Live(g), d = Gen!Occupied(g, Gen!Id),
         e = Gen!Emitted(d, opcode, d.got, rs1, rs2, Gen!Absent),
         NEW l, Holds(g, rs1, l), NEW r, Holds(g, rs2, r)
  PROVE  /\ Quiet(e) /\ StillHolds(g, e)
         /\ Holds(e, d.got, Alu(Gen!Mnemonic[opcode], l, r))
<1>1. PICK k \in 0 .. 4 : \E T, size : Chain(g, k, T, size)
  BY DEF Live
<1>2. PICK T, size : Chain(g, k, T, size)
  BY <1>1
<1> DEFINE id == Gen!Id
<1>3. id \in Nat /\ Quiet(g) /\ d = Gen!Occupied(g, id)
  BY DEF Live
<1> HIDE DEF id
<1> QED BY <1>2, <1>3, OperationHolds

\* process_op of a value, where no return is lowered.
LEMMA ValueHolds ==
  ASSUME NEW size, NEW g, NEW k \in 0 .. 4, NEW T, Chain(g, k, T, size), Quiet(g),
         Gen!Data.opcode # "RET", Gen!Id \in Nat,
         NEW n, Readable(Gen!Data.operands[n], size), NEW h, h = Gen!ProcessOp(g, n)
  PROVE  Quiet(h) /\ Holds(h, h.got, Denoted(Gen!Data.operands[n])) /\ StillHolds(g, h)
<1> DEFINE o == Gen!Data.operands[n]
<1>1. CASE o.kind = "Const" /\ o.val = 0
  <2>1. h = [g EXCEPT !.got = Gen!Temp(Gen!ZERO)]
    BY <1>1 DEF Gen!ProcessOp
  <2>2. h.regs = g.regs /\ h.got = Temp(ZERO) /\ h.out = g.out
    BY <2>1, SameNames DEF Chain
  <2>3. Quiet(h) /\ StillHolds(g, h)
    BY <2>2, SameCodeQuiet
  <2>4. Temp(ZERO).reg = ZERO /\ Temp(ZERO) \in Sources
    BY DEF Temp, Sources
  <2>5. Holds(h, Temp(ZERO), 0)
    BY <2>3, <2>4 DEF Holds, Quiet, IsCpu
  <2> QED BY <1>1, <2>2, <2>3, <2>5 DEF Denoted
<1>2. CASE o.kind = "Const" /\ o.val # 0
  <2> DEFINE imm == Gen!Occupied(g, Gen!Id)
  <2>1. Chain(imm, k + 1, T \cup {imm.got}, size) /\ imm.got \in Targets
    BY OccupiedChain
  <2>2. o.val \in Int32 /\ imm.got # Gen!NoReg
    BY <1>2, <2>1, KindsOfField, SameNames DEF Readable
  <2>3. h = Gen!Emitted(imm, "LI", imm.got, Gen!Absent, Gen!Absent, Gen!Imm(o.val))
    BY <1>2, <2>2 DEF Gen!ProcessOp, Gen!TargetReg
  <2>4. imm = Gen!Occupied(g, Gen!Id)
    OBVIOUS
  <2> HIDE DEF imm
  <2>5. h = Gen!Emitted(imm, "LI", imm.got, Absent, Absent, Imm(o.val)) /\ h.got = imm.got
    BY <2>1, <2>3, SameNames DEF Chain, Gen!Emitted
  <2> DEFINE c == o.val
  <2>6. Quiet(h) /\ Holds(h, imm.got, c) /\ StillHolds(g, h)
    <3>1. c \in Int32 /\ h = Gen!Emitted(imm, "LI", imm.got, Absent, Absent, Imm(c))
      BY <2>2, <2>5
    <3> HIDE DEF c
    <3> QED BY <2>4, <3>1, LiHolds
  <2> QED BY <1>2, <2>5, <2>6 DEF Denoted
<1>3. CASE o.kind = "InstId"
  <2> DEFINE slot  == Gen!NamedVar(g, o)
             value == Gen!Occupied(slot, o.val)
             w     == Mem(Gen!GetNamedVar(frames, o))
  <2>1. o.val \in Nat /\ Placed(o, size)
    BY <1>3 DEF Readable
  <2>2. Chain(slot, k, T, size)
    BY <2>1, NamedVarChain
  <2>3. slot.regs = g.regs /\ slot.out = g.out /\ slot.got = w
    BY <2>1, SameNames DEF Chain, Gen!NamedVar, Placed
  <2>4. h = Gen!Emitted(value, "LW", slot.got, value.got, Gen!Absent, Gen!Absent)
    BY <1>3 DEF Gen!ProcessOp, Gen!TargetReg
  <2>5. value = Gen!Occupied(slot, o.val)
    OBVIOUS
  <2> HIDE DEF slot, value
  <2>6. Chain(value, k + 1, T \cup {value.got}, size)
    BY <2>1, <2>2, <2>5, OccupiedChain
  <2>7. h = Gen!Emitted(value, "LW", w, value.got, Absent, Absent) /\ h.got = value.got
    BY <2>3, <2>4, <2>6, SameNames DEF Chain, Gen!Emitted
  <2>8. Quiet(slot) /\ StillHolds(g, slot)
    BY <2>3, SameCodeQuiet
  <2> DEFINE m == o.val
  <2>9. Quiet(h) /\ Holds(h, value.got, Peek(cpu, SlotOf(o))) /\ StillHolds(slot, h)
    <3>1. m \in Nat /\ value = Gen!Occupied(slot, m) /\ w = Mem(Gen!GetNamedVar(frames, o))
      BY <2>1, <2>5
    <3> HIDE DEF m, w, o
    <3> QED BY <2>1, <2>2, <2>7, <2>8, <3>1, LwHolds
  <2>10. Denoted(o) = Peek(cpu, SlotOf(o))
    BY <1>3 DEF Denoted
  <2>11. StillHolds(g, h)
    BY <2>8, <2>9 DEF StillHolds
  <2> QED BY <2>7, <2>9, <2>10, <2>11
<1> QED BY <1>1, <1>2, <1>3 DEF Readable

-----------------------------------------------------------------------------
(* The code of an instruction, executed.                                   *)

\* What AsmBlock::from takes is what the core executes.
LEMMA ExtendsBlock ==
  ASSUME NEW out \in Seq(Insts), blocks' = [blocks EXCEPT ![Len(blocks)] = @ \o out],
         blocks \in Seq(Seq(Insts)), blocks # <<>>
  PROVE  NewCode = out
<1> DEFINE k   == Len(blocks)
           old == blocks[k]
           new == old \o out
           S   == Seq(Insts)
<1>1. k \in Nat /\ k \in 1 .. k /\ old \in S /\ Last(blocks) = old
  <2>1. k \in Nat
    BY LenProperties
  <2>2. k # 0
    BY EmptySeq
  <2>3. k \in 1 .. k
    BY <2>1, <2>2
  <2> QED BY <2>1, <2>3, ElementOfSeq DEF Last
<1>2. blocks' = [blocks EXCEPT ![k] = new]
  OBVIOUS
<1>3. new \in S /\ Len(new) = Len(old) + Len(out) /\ Len(old) \in Nat /\ Len(out) \in Nat
      /\ \A i \in 1 .. Len(old) + Len(out) :
           new[i] = IF i <= Len(old) THEN old[i] ELSE out[i - Len(old)]
  BY <1>1, ConcatProperties, LenProperties
<1>4. blocks' \in Seq(S) /\ Len(blocks') = k /\ blocks'[k] = new
  <2> HIDE DEF S, new
  <2>1. blocks \in Seq(S) /\ new \in S
    BY <1>3 DEF S
  <2>2. LET b == [blocks EXCEPT ![k] = new]
        IN b \in Seq(S) /\ Len(b) = Len(blocks) /\ b[k] = new
    BY <1>1, <2>1, ExceptSeq
  <2> QED BY <1>2, <2>2
<1>5. Last(blocks') = new
  BY <1>4 DEF Last
<1>6. NewCode = SubSeq(new, Len(old) + 1, Len(new))
  <2> HIDE DEF k, old, new
  <2>1. ~(k > k)
    BY <1>1
  <2> QED BY <1>1, <1>4, <1>5, <2>1 DEF NewCode, k
<1>7. SubSeq(new, Len(old) + 1, Len(new)) = out
  <2> HIDE DEF old, new, k
  <2> DEFINE a   == Len(old) + 1
             b   == Len(new)
             sub == SubSeq(new, a, b)
  <2>1. a \in Int /\ b \in Int /\ b - a + 1 = Len(out) /\ (a <= b <=> Len(out) # 0)
        /\ a .. b \subseteq 1 .. Len(new) /\ Len(out) \in Nat
    BY <1>3
  <2>2. \A i \in a .. b : new[i] \in Insts
    <3>1. \A i \in 1 .. Len(new) : new[i] \in Insts
      BY <1>3, ElementOfSeq
    <3> QED BY <2>1, <3>1
  <2>3. \A i \in 1 .. Len(out) : new[a + i - 1] = out[i]
    <3> TAKE i \in 1 .. Len(out)
    <3> DEFINE j == a + i - 1
    <3>1. j \in 1 .. Len(old) + Len(out) /\ ~(j <= Len(old)) /\ j - Len(old) = i
      BY <1>3
    <3> HIDE DEF j
    <3>2. new[j] = out[i]
      BY <1>3, <3>1
    <3> QED BY <3>2 DEF j
  <2> HIDE DEF a, b
  <2>4. /\ sub \in Seq(Insts) /\ Len(sub) = (IF a <= b THEN b - a + 1 ELSE 0)
        /\ \A i \in 1 .. b - a + 1 : sub[i] = new[a + i - 1]
    BY <2>1, <2>2, SubSeqProperties
  <2>5. Len(sub) = Len(out) /\ \A i \in 1 .. Len(out) : sub[i] = out[i]
    BY <2>1, <2>3, <2>4
  <2> HIDE DEF sub
  <2>7. sub = out
    BY <2>4, <2>5, SeqEqual
  <2> QED BY <2>7 DEF sub, a, b
<1> QED BY <1>6, <1>7

LEMMA CommitRuns ==
  ASSUME NEW g, Gen!Commit(g), blocks \in Seq(Seq(Insts)), blocks # <<>>, g.out \in Seq(Insts)
  PROVE  NewCode = g.out
  BY ExtendsBlock DEF Gen!Commit

\* d is the core but for temporary registers and the word at a, which is v.
Stores(d, a, v) ==
  /\ IsCpu(d) /\ ~d.halted /\ \A r \in Reg \ TempRegs : d.x[r] = cpu.x[r]
  /\ DOMAIN d.mem = DOMAIN cpu.mem \cup {a}
  /\ \A b : Peek(d, b) = IF b = a THEN v ELSE Peek(cpu, b)

LEMMA SwStores ==
  ASSUME NEW size, NEW g, g.out \in Seq(BodyInsts(size)), Quiet(g),
         NEW w, NEW v, Holds(g, w, v), NEW n \in 0 .. size - 4,
         NEW s, s.out = Append(g.out, Gen!AsmInst("SW", Absent, Mem(n), w, Absent))
  PROVE  Stores(After(s), cpu.x[SP] + n, v) /\ s.out \in Seq(BodyInsts(size))
<1> DEFINE slot == Mem(n)
           inst == Gen!AsmInst("SW", Absent, slot, w, Absent)
           c    == After(g)
           a    == cpu.x[SP] + n
<1>1. slot \in FrameSlots(size) /\ slot.reg = SP /\ slot.offset = n
  <2>1. SP \in Reg
    BY DEF SP, Reg
  <2> QED BY <2>1 DEF FrameSlots, Mem, IsSlot, Fields
<1> HIDE DEF slot
<1>2. inst \in BodyInsts(size)
  BY <1>1, GoodSw DEF Holds
<1>3. IsCpu(c) /\ c.mem = cpu.mem /\ ~c.halted /\ (\A r \in Reg \ TempRegs : c.x[r] = cpu.x[r])
      /\ c.x[w.reg] = v
  BY DEF Quiet, Holds
<1>4. After(s) = Step(c, Gen!AsmLine(inst)) /\ s.out = Append(g.out, inst)
  <2>1. s.out = Append(g.out, inst)
    BY DEF slot
  <2> HIDE DEF inst
  <2>2. Run(cpu, Append(g.out, inst)) = Step(Run(cpu, g.out), Gen!AsmLine(inst))
    BY <1>2, RunAppend
  <2> QED BY <2>1, <2>2 DEF After
<1> HIDE DEF c
<1>5. Step(c, Gen!AsmLine(inst)) = Poke(c, c.x[slot.reg] + slot.offset, c.x[w.reg])
  BY <1>3, StepSw
<1>6. c.x[slot.reg] + slot.offset = a
  <2>1. SP \in Reg \ TempRegs
    BY DEF SP, Reg, TempRegs
  <2> QED BY <1>1, <1>3, <2>1
<1>7. Poked(c, After(s), a, v)
  <2> HIDE DEF a, inst
  <2>1. After(s) = Poke(c, a, v)
    BY <1>3, <1>4, <1>5, <1>6
  <2> QED BY <1>3, <2>1, PokeFacts
<1>8. \A b : Peek(c, b) = Peek(cpu, b)
  BY <1>3 DEF Peek
<1>9. Stores(After(s), a, v)
  <2> HIDE DEF a
  <2> QED BY <1>3, <1>7, <1>8 DEF Poked, Stores
<1> QED BY <1>2, <1>4, <1>9, AppendProperties

\* The core before an instruction is lowered.
Going(size) == IsCpu(cpu) /\ ~cpu.halted /\ blocks \in Seq(Seq(Insts)) /\ blocks # <<>>
               /\ Ready(size)

LEMMA BodyIsInsts ==
  ASSUME NEW size, NEW out
  PROVE  /\ out \in Seq(BodyInsts(size)) => out \in Seq(GoodInsts(size))
         /\ out \in Seq(GoodInsts(size)) => out \in Seq(Insts)
<1>1. BodyInsts(size) \subseteq GoodInsts(size) /\ GoodInsts(size) \subseteq Insts
  BY DEF BodyInsts, GoodInsts
<1> QED BY <1>1, SeqMonotonic

LEMMA NewCodeLength ==
  ASSUME NEW size, Lowered(size), blocks \in Seq(Seq(Insts)), blocks # <<>>
  PROVE  Len(NewCode) \in Nat
<1>1. PICK out \in Seq(GoodInsts(size)) : blocks' = [blocks EXCEPT ![Len(blocks)] = @ \o out]
  BY DEF Lowered
<1>2. out \in Seq(Insts)
  BY BodyIsInsts
<1>3. NewCode = out
  BY <1>1, <1>2, ExtendsBlock
<1> QED BY <1>2, <1>3, LenProperties

\* A result goes to the next slot.
LEMMA SavedRuns ==
  ASSUME NEW size, Going(size), Gen!Data.opcode \in ValueOps,
         NEW g, NEW k, NEW T, Chain(g, k, T, size), Quiet(g),
         NEW r, NEW v, Holds(g, r, v), Gen!Commit(Gen!Saved(Gen!Freed(g, T), r))
  PROVE  Stores(Run(cpu, NewCode), cpu.x[SP] + Gen!VarOffset(frames), v)
<1> DEFINE f    == Gen!Freed(g, T)
           slot == Gen!ResultVar(f)
           s    == Gen!Saved(f, r)
           n    == Gen!VarOffset(frames)
<1>1. /\ f.out = g.out /\ f.frames = frames
      /\ f = [regs |-> f.regs, frames |-> f.frames, out |-> f.out, got |-> f.got, ok |-> f.ok]
  BY FreedChain
<1>2. s = Gen!Emitted(slot, "SW", Gen!Absent, slot.got, r, Gen!Absent) /\ Gen!Commit(s)
  BY DEF Gen!Saved
<1> HIDE DEF f, s
<1>3. slot.out = g.out /\ slot.got = Mem(n)
  <2> DEFINE fs == Gen!AllocVar(f.frames, Gen!FromParseResult(Gen!Data.ir_obj), Gen!Data.typ)
             w  == Gen!Mem(Gen!VarOffset(f.frames))
  <2>1. slot = [f EXCEPT !.got = w, !.frames = fs]
    BY DEF Gen!ResultVar
  <2>2. w = Mem(n)
    BY <1>1, SameNames
  <2> HIDE DEF w, fs, n, slot
  <2> QED BY <1>1, <2>1, <2>2
<1>4. n \in 0 .. size - 4
  BY DEF Going, Ready
<1>5. s.out = Append(g.out, Gen!AsmInst("SW", Absent, Mem(n), r, Absent))
  <2>1. "out" \in DOMAIN slot
    <3> DEFINE fs == Gen!AllocVar(f.frames, Gen!FromParseResult(Gen!Data.ir_obj), Gen!Data.typ)
               w  == Gen!Mem(Gen!VarOffset(f.frames))
    <3>1. slot = [f EXCEPT !.got = w, !.frames = fs]
      BY DEF Gen!ResultVar
    <3> HIDE DEF w, fs, slot
    <3> QED BY <1>1, <3>1
  <2> HIDE DEF slot, n
  <2> QED BY <1>2, <1>3, <2>1, SameNames DEF Gen!Emitted
<1> HIDE DEF n
<1>6. Stores(After(s), cpu.x[SP] + n, v) /\ s.out \in Seq(BodyInsts(size))
  BY <1>4, <1>5, SwStores DEF Chain
<1>7. NewCode = s.out
  BY <1>2, <1>6, BodyIsInsts, CommitRuns DEF Going
<1> QED BY <1>6, <1>7 DEF After, n

-----------------------------------------------------------------------------
(* By opcode: what the code of an instruction leaves in the core.          *)

LEMMA NowQuiet == ASSUME NEW size, Going(size) PROVE Quiet(Gen!Now)
<1>1. Gen!Now.out = <<>>
  BY DEF Gen!Now
<1>2. After(Gen!Now) = cpu
  BY <1>1, RunEmpty DEF After
<1> QED BY <1>2 DEF Quiet, Going

\* The operands of an operation are in registers.
LEMMA OperandsHold ==
  ASSUME NEW size, Going(size), Gen!Data.opcode \in Builder!Binary,
         NEW a, a = Gen!ProcessOp(Gen!Now, 1), NEW b, b = Gen!ProcessOp(a, 2)
  PROVE  /\ Quiet(b) /\ Holds(b, a.got, Denoted(Gen!Data.operands[1]))
         /\ Holds(b, b.got, Denoted(Gen!Data.operands[2]))
<1> DEFINE l == Denoted(Gen!Data.operands[1])
           r == Denoted(Gen!Data.operands[2])
<1>1. /\ Readable(Gen!Data.operands[1], size) /\ Readable(Gen!Data.operands[2], size)
      /\ regs = AllIdle /\ Gen!Id \in Nat /\ Gen!Data.opcode # "RET"
  BY DEF Going, Ready, Builder!Binary, Builder!ValueOps
<1>2. Chain(Gen!Now, 0, {}, size) /\ Quiet(Gen!Now) /\ 0 \in 0 .. 4
  BY <1>1, NowChain, NowQuiet
<1>3. Chain(a, 0 + 1, {} \cup {a.got}, size)
  <2> DEFINE g == Gen!Now
  <2>1. Chain(g, 0, {}, size) /\ a = Gen!ProcessOp(g, 1)
    BY <1>2
  <2> HIDE DEF g
  <2> QED BY <1>1, <1>2, <2>1, ValueChain
<1>4. Quiet(a) /\ Holds(a, a.got, l)
  <2> DEFINE g == Gen!Now
  <2>1. Chain(g, 0, {}, size) /\ Quiet(g) /\ a = Gen!ProcessOp(g, 1)
    BY <1>2
  <2> HIDE DEF g
  <2> QED BY <1>1, <1>2, <2>1, ValueHolds
<1>5. 0 + 1 \in 0 .. 4
  OBVIOUS
<1> HIDE DEF l, r
<1>6. Quiet(b) /\ Holds(b, b.got, r) /\ StillHolds(a, b)
  BY <1>1, <1>3, <1>4, <1>5, ValueHolds DEF r
<1>7. Holds(b, a.got, l)
  BY <1>4, <1>6 DEF StillHolds
<1> QED BY <1>6, <1>7 DEF l, r

\* What the lines of an operation make of l and r.
Computed(op, l, r) ==
  CASE op = "EQ"  -> Truth(BitXor(l, r) = 0)
    [] op = "NE"  -> Truth(BitXor(l, r) # 0)
    [] op = "AND" -> BitAnd(Truth(l # 0), Truth(r # 0))
    [] op = "OR"  -> BitOr(Truth(l # 0), Truth(r # 0))
    [] OTHER      -> Alu(Gen!Mnemonic[Gen!RVOpCode[op]], l, r)

\* The core has stored v in the slot of the instruction's result.
Result(v) == Stores(Run(cpu, NewCode), cpu.x[SP] + Gen!VarOffset(frames), v)

LEMMA LowerBinaryRuns ==
  ASSUME NEW size, Going(size), Gen!LowerBinary
  PROVE  Result(Computed(Gen!Data.opcode, Denoted(Gen!Data.operands[1]),
                         Denoted(Gen!Data.operands[2])))
<1> DEFINE a == Gen!ProcessOp(Gen!Now, 1)
           b == Gen!ProcessOp(a, 2)
           c == Gen!RVOpCode[Gen!Data.opcode]
           d == Gen!Occupied(b, Gen!Id)
           e == Gen!Emitted(d, c, d.got, a.got, b.got, Gen!Absent)
           l == Denoted(Gen!Data.operands[1])
           r == Denoted(Gen!Data.operands[2])
           v == Alu(Gen!Mnemonic[c], l, r)
<1>1. Gen!Data.opcode \in Gen!ValueOps \cap DOMAIN Gen!RVOpCode
      /\ Gen!Commit(Gen!Saved(Gen!Freed(e, {a.got, b.got, d.got}), d.got))
  BY DEF Gen!LowerBinary, Gen!Lowering, Gen!RVOpCode, Gen!ValueOps
<1>2. /\ Gen!Data.opcode \in ValueOps /\ Gen!Data.opcode \in Builder!Binary
      /\ c \in Operations /\ Gen!Id \in Nat /\ Ready(size)
  BY <1>1 DEF Gen!RVOpCode, ValueOps, Builder!Binary, Builder!ValueOps, Operations, Ready, Going
<1>3. Gen!Data.opcode \notin {"EQ", "NE", "AND", "OR"}
  BY <1>1 DEF Gen!RVOpCode
<1>4. Computed(Gen!Data.opcode, l, r) = v
  BY <1>3 DEF Computed
<1>5. Chain(b, 2, {a.got, b.got}, size) /\ Quiet(b) /\ Holds(b, a.got, l) /\ Holds(b, b.got, r)
      /\ a.got \in Sources /\ b.got \in Sources
  BY <1>2, OperandsChain, OperandsHold
<1> HIDE DEF a, b, c, d, l, r
<1>6. d = Gen!Occupied(b, Gen!Id) /\ e = Gen!Emitted(d, c, d.got, a.got, b.got, Gen!Absent)
  BY DEF d
<1> HIDE DEF e
<1>7. /\ 3 = 2 + 1 /\ 2 \in 0 .. 4
      /\ {a.got, b.got, d.got} = {a.got, b.got} \cup {d.got}
  OBVIOUS
<1>8. Chain(e, 3, {a.got, b.got, d.got}, size)
  BY <1>2, <1>5, <1>6, <1>7, ComputeChain
<1>9. Quiet(e) /\ Holds(e, d.got, v)
  <2>1. Live(b)
    BY <1>2, <1>5, <1>7 DEF Live
  <2>2. Quiet(e) /\ Holds(e, d.got, Alu(Gen!Mnemonic[c], l, r))
    BY <1>2, <1>5, <1>6, <2>1, OperationApplied
  <2> QED BY <2>2
<1> HIDE DEF v
<1>10. Result(v)
  BY <1>1, <1>2, <1>8, <1>9, SavedRuns DEF Result
<1> QED BY <1>4, <1>10 DEF l, r

LEMMA LowerEqRuns ==
  ASSUME NEW size, Going(size), Gen!LowerEq
  PROVE  Result(Computed(Gen!Data.opcode, Denoted(Gen!Data.operands[1]),
                         Denoted(Gen!Data.operands[2])))
<1> DEFINE a == Gen!ProcessOp(Gen!Now, 1)
           b == Gen!ProcessOp(a, 2)
           x == Gen!Occupied(b, Gen!Id)
           y == Gen!Emitted(x, "XOR", x.got, a.got, b.got, Gen!Absent)
           d == Gen!Occupied(y, Gen!Id)
           c == IF Gen!Data.opcode = "EQ" THEN "SEQZ" ELSE "SNEZ"
           e == Gen!Emitted(d, c, d.got, x.got, Gen!Absent, Gen!Absent)
           l == Denoted(Gen!Data.operands[1])
           r == Denoted(Gen!Data.operands[2])
           m == BitXor(l, r)
           v == Truth(IF c = "SEQZ" THEN m = 0 ELSE m # 0)
<1>1. Gen!Data.opcode \in {"EQ", "NE"}
      /\ Gen!Commit(Gen!Saved(Gen!Freed(e, {a.got, b.got, x.got, d.got}), d.got))
  BY DEF Gen!LowerEq, Gen!Lowering
<1>2. Gen!Data.opcode \in ValueOps /\ Gen!Data.opcode \in Builder!Binary /\ Gen!Id \in Nat
      /\ c \in {"SEQZ", "SNEZ"} /\ "XOR" \in Operations /\ Ready(size)
  BY <1>1 DEF ValueOps, Builder!Binary, Builder!ValueOps, Ready, Operations, Going
<1>3. Computed(Gen!Data.opcode, l, r) = v
  BY <1>1 DEF Computed
<1>4. Alu(Gen!Mnemonic["XOR"], l, r) = m
  BY DEF Alu, Gen!Mnemonic
<1>5. Chain(b, 2, {a.got, b.got}, size) /\ Quiet(b) /\ Holds(b, a.got, l) /\ Holds(b, b.got, r)
      /\ a.got \in Sources /\ b.got \in Sources
  BY <1>2, OperandsChain, OperandsHold
<1> HIDE DEF a, b, c, x, d, l, r, m
<1>6. /\ x = Gen!Occupied(b, Gen!Id) /\ d = Gen!Occupied(y, Gen!Id)
      /\ y = Gen!Emitted(x, "XOR", x.got, a.got, b.got, Gen!Absent)
      /\ e = Gen!Emitted(d, c, d.got, x.got, Gen!Absent, Gen!Absent)
  BY DEF d, x
<1> HIDE DEF y, e
<1>7. /\ 3 = 2 + 1 /\ 4 = 3 + 1 /\ 2 \in 0 .. 4 /\ 3 \in 0 .. 4
      /\ {a.got, b.got, x.got} = {a.got, b.got} \cup {x.got}
      /\ {a.got, b.got, x.got, d.got} = {a.got, b.got, x.got} \cup {d.got}
  OBVIOUS
<1>8. Chain(y, 3, {a.got, b.got, x.got}, size) /\ Quiet(y) /\ Holds(y, x.got, m)
  <2>1. Chain(y, 3, {a.got, b.got, x.got}, size)
    BY <1>2, <1>5, <1>6, <1>7, ComputeChain
  <2>2. Live(b)
    BY <1>2, <1>5, <1>7 DEF Live
  <2>3. Quiet(y) /\ Holds(y, x.got, Alu(Gen!Mnemonic["XOR"], l, r))
    BY <1>2, <1>5, <1>6, <2>2, OperationApplied
  <2> QED BY <1>4, <2>1, <2>3
<1>9. Chain(e, 4, {a.got, b.got, x.got, d.got}, size)
  <2>1. x.got \in Sources
    BY <1>8 DEF Holds
  <2> QED BY <1>2, <1>6, <1>7, <1>8, <2>1, TestChain
<1>10. Quiet(e) /\ Holds(e, d.got, v)
  <2>1. Live(y)
    BY <1>2, <1>7, <1>8 DEF Live
  <2>2. Quiet(e) /\ Holds(e, d.got, Truth(IF c = "SEQZ" THEN m = 0 ELSE m # 0))
    BY <1>2, <1>6, <1>8, <2>1, TestApplied
  <2> QED BY <2>2
<1> HIDE DEF v
<1>11. Result(v)
  BY <1>1, <1>2, <1>9, <1>10, SavedRuns DEF Result
<1> QED BY <1>3, <1>11 DEF l, r

LEMMA LowerLogicRuns ==
  ASSUME NEW size, Going(size), Gen!LowerLogic
  PROVE  Result(Computed(Gen!Data.opcode, Denoted(Gen!Data.operands[1]),
                         Denoted(Gen!Data.operands[2])))
<1> DEFINE a == Gen!ProcessOp(Gen!Now, 1)
           b == Gen!ProcessOp(a, 2)
           x == Gen!Occupied(b, Gen!Id)
           p == Gen!Emitted(x, "SNEZ", x.got, a.got, Gen!Absent, Gen!Absent)
           y == Gen!Occupied(p, Gen!Id)
           q == Gen!Emitted(y, "SNEZ", y.got, b.got, Gen!Absent, Gen!Absent)
           d == Gen!Occupied(q, Gen!Id)
           c == Gen!Data.opcode
           e == Gen!Emitted(d, c, d.got, x.got, y.got, Gen!Absent)
           l == Denoted(Gen!Data.operands[1])
           r == Denoted(Gen!Data.operands[2])
           m == Truth(l # 0)
           n == Truth(r # 0)
           v == Alu(Gen!Mnemonic[c], m, n)
           z == "SNEZ"
           T == {a.got, b.got}
           U == {a.got, b.got, x.got}
           V == {a.got, b.got, x.got, y.got}
           W == {a.got, b.got, x.got, y.got, d.got}
<1>1. Gen!Data.opcode \in {"AND", "OR"} /\ Gen!Commit(Gen!Saved(Gen!Freed(e, W), d.got))
  BY DEF Gen!LowerLogic, Gen!Lowering
<1>2. Gen!Data.opcode \in ValueOps /\ Gen!Data.opcode \in Builder!Binary /\ Gen!Id \in Nat
      /\ c \in Operations /\ z \in {"SEQZ", "SNEZ"} /\ Ready(size)
  BY <1>1 DEF ValueOps, Builder!Binary, Builder!ValueOps, Ready, Operations, Going
<1>3. Computed(Gen!Data.opcode, l, r) = v
  BY <1>1 DEF Computed, Alu, Gen!Mnemonic
<1>4. m = Truth(IF z = "SEQZ" THEN l = 0 ELSE l # 0)
      /\ n = Truth(IF z = "SEQZ" THEN r = 0 ELSE r # 0)
  OBVIOUS
<1>5. Chain(b, 2, T, size) /\ Quiet(b) /\ Holds(b, a.got, l) /\ Holds(b, b.got, r)
      /\ a.got \in Sources /\ b.got \in Sources
  BY <1>2, OperandsChain, OperandsHold
<1>6. /\ p = Gen!Emitted(x, z, x.got, a.got, Gen!Absent, Gen!Absent)
      /\ q = Gen!Emitted(y, z, y.got, b.got, Gen!Absent, Gen!Absent)
      /\ e = Gen!Emitted(d, c, d.got, x.got, y.got, Gen!Absent)
  OBVIOUS
<1> HIDE DEF a, b, c, x, y, d, l, r, m, n, z
<1>7. x = Gen!Occupied(b, Gen!Id) /\ y = Gen!Occupied(p, Gen!Id) /\ d = Gen!Occupied(q, Gen!Id)
  BY DEF x, y, d
<1> HIDE DEF p, q, e
<1>8. U = T \cup {x.got} /\ V = U \cup {y.got} /\ W = V \cup {d.got}
  OBVIOUS
<1> HIDE DEF T, U, V, W
<1>9. 3 = 2 + 1 /\ 4 = 3 + 1 /\ 5 = 4 + 1 /\ 2 \in 0 .. 4 /\ 3 \in 0 .. 4 /\ 4 \in 0 .. 4
  OBVIOUS
<1>10. Chain(p, 3, U, size) /\ Quiet(p) /\ Holds(p, x.got, m) /\ Holds(p, b.got, r)
  <2>1. Chain(p, 3, U, size)
    BY <1>2, <1>5, <1>6, <1>7, <1>8, <1>9, TestChain
  <2>2. Live(b)
    BY <1>2, <1>5, <1>9 DEF Live
  <2>3. Quiet(p) /\ StillHolds(b, p) /\ Holds(p, x.got, Truth(IF z = "SEQZ" THEN l = 0 ELSE l # 0))
    BY <1>2, <1>5, <1>6, <1>7, <2>2, TestApplied
  <2>4. Holds(p, b.got, r)
    BY <1>5, <2>3 DEF StillHolds
  <2> QED BY <1>4, <2>1, <2>3, <2>4
<1>11. Chain(q, 4, V, size) /\ Quiet(q) /\ Holds(q, x.got, m) /\ Holds(q, y.got, n)
  <2>1. Chain(q, 4, V, size)
    BY <1>2, <1>5, <1>6, <1>7, <1>8, <1>9, <1>10, TestChain
  <2>2. Live(p)
    BY <1>2, <1>9, <1>10 DEF Live
  <2>3. Quiet(q) /\ StillHolds(p, q) /\ Holds(q, y.got, Truth(IF z = "SEQZ" THEN r = 0 ELSE r # 0))
    BY <1>2, <1>6, <1>7, <1>10, <2>2, TestApplied
  <2>4. Holds(q, x.got, m)
    BY <1>10, <2>3 DEF StillHolds
  <2> QED BY <1>4, <2>1, <2>3, <2>4
<1>12. Chain(e, 5, W, size)
  <2>1. x.got \in Sources /\ y.got \in Sources
    BY <1>11 DEF Holds
  <2> QED BY <1>2, <1>6, <1>7, <1>8, <1>9, <1>11, <2>1, ComputeChain
<1>13. Quiet(e) /\ Holds(e, d.got, v)
  <2>1. Live(q)
    BY <1>2, <1>9, <1>11 DEF Live
  <2>2. Quiet(e) /\ Holds(e, d.got, Alu(Gen!Mnemonic[c], m, n))
    BY <1>2, <1>6, <1>7, <1>11, <2>1, OperationApplied
  <2> QED BY <2>2
<1> HIDE DEF v
<1>14. Result(v)
  BY <1>1, <1>2, <1>12, <1>13, SavedRuns DEF Result
<1> QED BY <1>3, <1>14 DEF l, r, c

LEMMA LowerLoadRuns ==
  ASSUME NEW size, Going(size), Gen!LowerLoad
  PROVE  Result(Peek(cpu, SlotOf(Gen!Data.operands[1])))
<1> DEFINE o == Gen!Data.operands[1]
           p == Gen!ProcessOp(Gen!Now, 1)
           r == Gen!Occupied(p, Gen!Id)
           w == Mem(Gen!GetNamedVar(frames, o))
           e == Gen!Emitted(r, "LW", p.got, r.got, Gen!Absent, Gen!Absent)
<1>1. Gen!Data.opcode = "LOAD" /\ Gen!Commit(Gen!Saved(Gen!Freed(e, {r.got, p.got}), r.got))
  BY DEF Gen!LowerLoad, Gen!Lowering
<1>2. /\ Gen!Data.opcode \in ValueOps /\ regs = AllIdle /\ Gen!Id \in Nat
      /\ o.kind = "Pointer" /\ Placed(o, size)
  BY <1>1 DEF Ready, ValueOps, Going
<1>3. Chain(p, 0, {}, size) /\ p.got \in FrameSlots(size) /\ p.got = w /\ Quiet(p)
  <2> DEFINE g == Gen!Now
  <2>1. Chain(g, 0, {}, size) /\ p = Gen!ProcessOp(g, 1) /\ Quiet(g)
    BY <1>2, NowChain, NowQuiet
  <2>2. p = Gen!NamedVar(g, o)
    BY <1>2 DEF Gen!ProcessOp
  <2> HIDE DEF g, p
  <2>3. Chain(p, 0, {}, size) /\ p.got \in FrameSlots(size)
    BY <1>2, <2>1, PointerChain
  <2>4. p.got = w /\ p.regs = g.regs /\ p.out = g.out
    BY <1>2, <2>1, <2>2, SameNames DEF Chain, Gen!NamedVar, Placed
  <2>5. Quiet(p)
    BY <2>1, <2>4, SameCodeQuiet
  <2> QED BY <2>3, <2>4, <2>5
<1>4. r = Gen!Occupied(p, Gen!Id) /\ e = Gen!Emitted(r, "LW", w, r.got, Absent, Absent)
  BY <1>3, SameNames
<1> HIDE DEF p, r, e, w
<1>5. Chain(r, 0 + 1, {} \cup {r.got}, size) /\ r.got \in Targets /\ 0 \in 0 .. 4
  <2>1. 0 \in 0 .. 4
    OBVIOUS
  <2>2. Chain(r, 0 + 1, {} \cup {r.got}, size) /\ r.got \in Targets
    BY <1>2, <1>3, <1>4, <2>1, OccupiedChain
  <2> QED BY <2>1, <2>2
<1>6. Gen!AsmInst("LW", w, r.got, Absent, Absent) \in BodyInsts(size)
  BY <1>3, <1>5, GoodLw
<1>7. Chain(e, 0 + 1, {} \cup {r.got}, size)
  BY <1>4, <1>5, <1>6, EmittedChain
<1>8. Chain(e, 1, {r.got, p.got}, size)
  BY <1>7 DEF Chain
<1>9. Quiet(e) /\ Holds(e, r.got, Peek(cpu, SlotOf(o)))
  <2>1. w = Mem(Gen!GetNamedVar(frames, o)) /\ Placed(o, size) /\ Gen!Id \in Nat
    BY <1>2 DEF w
  <2> HIDE DEF o
  <2> QED BY ONLY <1>3, <1>4, <1>5, <2>1, LwHolds, SMTT(30)
<1> HIDE DEF o
<1> QED BY <1>1, <1>2, <1>8, <1>9, SavedRuns DEF Result, o

\* The slot is reserved; the core does nothing.
LEMMA LowerAllocRuns ==
  ASSUME NEW size, Going(size), Gen!LowerAlloc
  PROVE  Run(cpu, NewCode) = cpu
<1> DEFINE g  == Gen!Now
           s  == Gen!ResultVar(g)
           w  == Gen!Mem(Gen!VarOffset(g.frames))
           fs == Gen!AllocVar(g.frames, Gen!FromParseResult(Gen!Data.ir_obj), Gen!Data.typ)
<1>1. Gen!Commit(s)
  BY DEF Gen!LowerAlloc
<1>2. g.out = <<>> /\ "out" \in DOMAIN g
  BY DEF Gen!Now
<1>3. s = [g EXCEPT !.got = w, !.frames = fs]
  BY DEF Gen!ResultVar
<1> HIDE DEF g, s, w, fs
<1>4. s.out = <<>>
  BY <1>2, <1>3
<1>5. s.out \in Seq(Insts)
  BY <1>4
<1>6. NewCode = <<>>
  BY <1>1, <1>4, <1>5, CommitRuns DEF Going
<1> QED BY <1>6, RunEmpty

LEMMA LowerStoreRuns ==
  ASSUME NEW size, Going(size), Gen!LowerStore
  PROVE  Stores(Run(cpu, NewCode), SlotOf(Gen!Data.operands[2]), Denoted(Gen!Data.operands[1]))
<1> DEFINE o == Gen!Data.operands[2]
           n == Gen!GetNamedVar(frames, o)
           u == Denoted(Gen!Data.operands[1])
           p == Gen!ProcessOp(Gen!Now, 2)
           v == Gen!ProcessOp(p, 1)
           e == Gen!Emitted(v, "SW", Gen!Absent, p.got, v.got, Gen!Absent)
           f == Gen!Freed(e, {p.got, v.got})
<1>1. Gen!Data.opcode = "STORE" /\ Gen!Commit(f)
  BY DEF Gen!LowerStore, Gen!Lowering
<1>2. /\ regs = AllIdle /\ Gen!Id \in Nat /\ Gen!Data.opcode # "RET"
      /\ Readable(Gen!Data.operands[1], size) /\ o.kind = "Pointer" /\ Placed(o, size)
      /\ n \in 0 .. size - 4
  BY <1>1 DEF Ready, Going, Placed
<1>3. Chain(p, 0, {}, size) /\ p.got = Mem(n) /\ Quiet(p)
  <2> DEFINE g == Gen!Now
  <2>1. Chain(g, 0, {}, size) /\ p = Gen!ProcessOp(g, 2) /\ Quiet(g)
    BY <1>2, NowChain, NowQuiet
  <2>2. p = Gen!NamedVar(g, o)
    BY <1>2 DEF Gen!ProcessOp
  <2> HIDE DEF g, p
  <2>3. Chain(p, 0, {}, size)
    BY <1>2, <2>1, PointerChain
  <2>4. p.got = Mem(n) /\ p.regs = g.regs /\ p.out = g.out
    BY <1>2, <2>1, <2>2, SameNames DEF Chain, Gen!NamedVar, Placed
  <2>5. Quiet(p)
    BY <2>1, <2>4, SameCodeQuiet
  <2> QED BY <2>3, <2>4, <2>5
<1>4. v = Gen!ProcessOp(p, 1)
  OBVIOUS
<1> HIDE DEF p, u
<1>5. Chain(v, 0 + 1, {} \cup {v.got}, size) /\ Quiet(v) /\ Holds(v, v.got, u)
  <2>1. 0 \in 0 .. 4
    OBVIOUS
  <2> HIDE DEF v
  <2>2. Chain(v, 0 + 1, {} \cup {v.got}, size)
    BY <1>2, <1>3, <1>4, <2>1, ValueChain
  <2>3. Quiet(v) /\ Holds(v, v.got, u)
    BY <1>2, <1>3, <1>4, <2>1, ValueHolds DEF u
  <2> QED BY <2>2, <2>3
<1> HIDE DEF v
<1>6. v.out \in Seq(BodyInsts(size))
  BY <1>5 DEF Chain
<1>7. f.out = Append(v.out, Gen!AsmInst("SW", Absent, Mem(n), v.got, Absent))
  <2>1. e = Gen!Emitted(v, "SW", Absent, Mem(n), v.got, Absent)
    BY <1>3, SameNames
  <2> DEFINE inst == Gen!AsmInst("SW", Absent, Mem(n), v.got, Absent)
  <2> HIDE DEF e
  <2>2. e = [v EXCEPT !.out = Append(@, inst)]
    BY <2>1 DEF Gen!Emitted
  <2> HIDE DEF inst, n
  <2>3. "out" \in DOMAIN v
    BY <1>5 DEF Chain
  <2>4. e.out = Append(v.out, inst) /\ DOMAIN e = DOMAIN v
    BY <2>2, <2>3
  <2>5. f.out = e.out
    BY <2>3, <2>4 DEF Gen!Freed
  <2> QED BY <2>4, <2>5 DEF inst
<1> HIDE DEF f, n
<1>8. Stores(After(f), cpu.x[SP] + n, u) /\ f.out \in Seq(BodyInsts(size))
  BY <1>2, <1>5, <1>6, <1>7, SwStores
<1>9. NewCode = f.out
  BY <1>1, <1>8, BodyIsInsts, CommitRuns DEF Going
<1> QED BY <1>8, <1>9 DEF After, n, u, SlotOf

\* A temporary register is written without being taken: a0, for a return.
LEMMA WriteQuiet ==
  ASSUME NEW S, NEW g, g.out \in Seq(S), Quiet(g), NEW inst \in S, NEW r \in TempRegs, NEW v,
         Step(After(g), Gen!AsmLine(inst)) = Written(After(g), r, v),
         NEW e, e.out = Append(g.out, inst)
  PROVE  Quiet(e) /\ After(e).x[r] = v
<1> DEFINE c == After(g)
<1>1. After(e) = Written(c, r, v)
  <2>1. Run(cpu, Append(g.out, inst)) = Step(Run(cpu, g.out), Gen!AsmLine(inst))
    BY RunAppend
  <2> QED BY <2>1 DEF After
<1>2. r \in Reg \ {ZERO}
  BY DEF TempRegs, Reg, ZERO
<1>3. IsCpu(c)
  BY DEF Quiet
<1> HIDE DEF c
<1>4. Wrote(c, After(e), r, v)
  BY <1>1, <1>2, <1>3, WrittenFacts
<1> QED BY <1>2, <1>4 DEF Wrote, Quiet, c

\* The operand of a return is in a0, unless it is the constant 0.
IsZero(o) == o.kind = "Const" /\ o.val = 0

LEMMA ReturnValueHolds ==
  ASSUME NEW size, NEW g, NEW T, Chain(g, 0, T, size), Quiet(g),
         Gen!Data.opcode = "RET", NEW n, Readable(Gen!Data.operands[n], size),
         NEW h, h = Gen!ProcessOp(g, n)
  PROVE  /\ Quiet(h)
         /\ ~IsZero(Gen!Data.operands[n]) => After(h).x[A0] = Denoted(Gen!Data.operands[n])
<1> DEFINE o == Gen!Data.operands[n]
<1>1. CASE IsZero(o)
  <2>1. h = [g EXCEPT !.got = Gen!Temp(Gen!ZERO)]
    BY <1>1 DEF Gen!ProcessOp, IsZero
  <2>2. h.regs = g.regs /\ h.out = g.out
    BY <2>1 DEF Chain
  <2> QED BY <1>1, <2>2, SameCodeQuiet
<1>2. g.out \in Seq(BodyInsts(size)) /\ ~After(g).halted /\ "out" \in DOMAIN g
  BY DEF Chain, Quiet
<1>3. A0 \in TempRegs /\ Temp(A0) \in Targets /\ Temp(A0).reg = A0
  BY DEF A0, TempRegs, Targets, Temp
<1>4. CASE o.kind = "Const" /\ o.val # 0
  <2> DEFINE inst == Gen!AsmInst("LI", Temp(A0), Absent, Absent, Imm(o.val))
             imm  == Gen!TargetReg(g, Gen!Id)
  <2>1. o.val \in Int32 /\ o.val \in Int
    BY <1>4, I32Range DEF Readable, Int32
  <2>2. imm = [g EXCEPT !.got = Temp(A0)]
    BY SameNames DEF Gen!TargetReg
  <2>3. imm.got = Temp(A0) /\ imm.out = g.out /\ "out" \in DOMAIN imm /\ imm.got # Gen!NoReg
    BY <1>2, <1>3, <2>2, KindsOfField, SameNames DEF Chain
  <2>4. h = Gen!Emitted(imm, "LI", imm.got, Gen!Absent, Gen!Absent, Gen!Imm(o.val))
    BY <1>4, <2>3 DEF Gen!ProcessOp
  <2> HIDE DEF imm
  <2>5. h.out = Append(g.out, inst)
    BY <2>3, <2>4, SameNames DEF Gen!Emitted
  <2>6. inst \in BodyInsts(size)
    BY <1>3, <2>1, GoodLi
  <2>7. Step(After(g), Gen!AsmLine(inst)) = Written(After(g), A0, o.val)
    BY <1>2, <1>3, <2>1, StepLi
  <2> HIDE DEF inst
  <2>8. Quiet(h) /\ After(h).x[A0] = o.val
    BY <1>2, <1>3, <2>5, <2>6, <2>7, WriteQuiet
  <2> QED BY <1>4, <2>8 DEF Denoted
<1>5. CASE o.kind = "InstId"
  <2> DEFINE w     == Mem(Gen!GetNamedVar(frames, o))
             inst  == Gen!AsmInst("LW", w, Temp(A0), Absent, Absent)
             slot  == Gen!NamedVar(g, o)
             value == Gen!TargetReg(slot, o.val)
             v     == Peek(cpu, SlotOf(o))
  <2>1. Placed(o, size)
    BY <1>5 DEF Readable
  <2>2. slot.out = g.out /\ slot.got = w /\ DOMAIN slot = DOMAIN g
    BY <2>1, SameNames DEF Chain, Gen!NamedVar, Placed
  <2>3. value = [slot EXCEPT !.got = Temp(A0)]
    BY SameNames DEF Gen!TargetReg
  <2>4. h = Gen!Emitted(value, "LW", slot.got, value.got, Gen!Absent, Gen!Absent)
    BY <1>5 DEF Gen!ProcessOp
  <2> HIDE DEF slot, value
  <2>5. value.out = g.out /\ value.got = Temp(A0) /\ "out" \in DOMAIN value
    BY <1>2, <2>2, <2>3 DEF Chain
  <2>6. h.out = Append(g.out, inst)
    BY <2>2, <2>4, <2>5, SameNames DEF Gen!Emitted
  <2>7. w \in FrameSlots(size) /\ w.reg = SP /\ w.offset = Gen!GetNamedVar(frames, o)
    <3>1. SP \in Reg /\ Gen!GetNamedVar(frames, o) \in 0 .. size - 4
      BY <2>1 DEF SP, Reg, Placed
    <3> QED BY <3>1 DEF FrameSlots, Mem, IsSlot, Fields
  <2>8. inst \in BodyInsts(size)
    BY <1>3, <2>7, GoodLw
  <2>9. Step(After(g), Gen!AsmLine(inst)) = Written(After(g), A0, v)
    <3>1. Step(After(g), Gen!AsmLine(inst))
            = Written(After(g), A0, Peek(After(g), After(g).x[w.reg] + w.offset))
      BY <1>2, <1>3, StepLw
    <3>2. SP \in Reg \ TempRegs
      BY DEF SP, Reg, TempRegs
    <3>3. Peek(After(g), After(g).x[w.reg] + w.offset) = v
      BY <2>7, <3>2 DEF Quiet, Peek, SlotOf
    <3> QED BY <3>1, <3>3
  <2> HIDE DEF inst, v
  <2>10. Quiet(h) /\ After(h).x[A0] = v
    BY <1>2, <1>3, <2>6, <2>8, <2>9, WriteQuiet
  <2> QED BY <1>5, <2>10 DEF Denoted, v
<1> QED BY <1>1, <1>4, <1>5 DEF Readable, IsZero

\* The function is back at its caller, with o in a0.
Returned(d, size, o) ==
  /\ IsCpu(d) /\ d.halted /\ d.mem = cpu.mem /\ d.x[SP] = cpu.x[SP] + size
  /\ \A r \in Reg \ (TempRegs \cup {SP}) : d.x[r] = cpu.x[r]
  /\ ~IsZero(o) => d.x[A0] = Denoted(o)

LEMMA LowerRetRuns ==
  ASSUME NEW size \in Int, Going(size), Gen!GetSize(frames) = size, Gen!LowerRet
  PROVE  Returned(Run(cpu, NewCode), size, Gen!Data.operands[1])
<1> DEFINE r == Gen!ProcessOp(Gen!Now, 1)
           o == Gen!Data.operands[1]
           e == Gen!Emitted(r, "ADDI", Gen!Temp(Gen!SP), Gen!Temp(Gen!SP), Gen!Absent,
                            Gen!Imm(Gen!GetSize(frames)))
           t == Gen!Emitted(e, "RET", Gen!Absent, Gen!Absent, Gen!Absent, Gen!Absent)
           f == Gen!Freed(t, {r.got})
           back == Gen!AsmInst("ADDI", Temp(SP), Temp(SP), Absent, Imm(size))
           ret  == Gen!AsmInst("RET", Absent, Absent, Absent, Absent)
<1>1. Gen!Data.opcode = "RET" /\ Gen!Commit(f)
  BY DEF Gen!LowerRet, Gen!Lowering
<1>2. Ready(size) /\ regs = AllIdle /\ Gen!Id \in Nat /\ Readable(o, size)
  BY <1>1 DEF Ready, Going
<1>3. Chain(r, 0 + 1, {} \cup {r.got}, size) /\ Quiet(r)
      /\ (~IsZero(o) => After(r).x[A0] = Denoted(o))
  <2> DEFINE g == Gen!Now
  <2>1. Chain(g, 0, {}, size) /\ r = Gen!ProcessOp(g, 1) /\ 0 \in 0 .. 4 /\ Quiet(g)
    BY <1>2, NowChain, NowQuiet
  <2> HIDE DEF g, r
  <2>2. Chain(r, 0 + 1, {} \cup {r.got}, size)
    BY <1>2, <2>1, ValueChain
  <2>3. Quiet(r) /\ (~IsZero(o) => After(r).x[A0] = Denoted(o))
    BY <1>1, <1>2, <2>1, ReturnValueHolds
  <2> QED BY <2>2, <2>3
<1>4. back \in GoodInsts(size) /\ ret \in GoodInsts(size)
  <2>1. size \in {size, -size}
    OBVIOUS
  <2> QED BY <2>1, GoodAddi, GoodRet DEF BodyInsts, Gen!AdjustSp
<1>5. /\ e = Gen!Emitted(r, "ADDI", Temp(SP), Temp(SP), Absent, Imm(size))
      /\ t = Gen!Emitted(e, "RET", Absent, Absent, Absent, Absent)
  BY SameNames
<1> HIDE DEF r, e, t
<1>6. /\ r.out \in Seq(BodyInsts(size)) /\ "out" \in DOMAIN r
      /\ r.out \in Seq(GoodInsts(size))
  BY <1>3, BodyIsInsts DEF Chain
<1>7. e.out = Append(r.out, back) /\ t.out = Append(e.out, ret) /\ f.out = t.out
  <2> HIDE DEF back, ret
  <2>1. e = [r EXCEPT !.out = Append(@, back)] /\ t = [e EXCEPT !.out = Append(@, ret)]
    BY <1>5 DEF Gen!Emitted, back, ret
  <2>2. e.out = Append(r.out, back) /\ DOMAIN e = DOMAIN r
    BY <1>6, <2>1
  <2>3. t.out = Append(e.out, ret) /\ DOMAIN t = DOMAIN r
    BY <1>6, <2>1, <2>2
  <2>4. f.out = t.out
    BY <1>6, <2>3 DEF Gen!Freed
  <2> QED BY <2>2, <2>3, <2>4
<1> HIDE DEF f, o
<1>8. e.out \in Seq(GoodInsts(size)) /\ f.out \in Seq(GoodInsts(size))
  BY <1>4, <1>6, <1>7, AppendProperties
<1> DEFINE c == After(r)
           y == After(e)
           d == After(f)
<1>9. IsCpu(c) /\ ~c.halted /\ c.mem = cpu.mem /\ (\A q \in Reg \ TempRegs : c.x[q] = cpu.x[q])
      /\ SP \in Reg \ TempRegs /\ SP \in Reg \ {ZERO} /\ A0 \in Reg /\ A0 # SP
  BY <1>3 DEF Quiet, SP, Reg, TempRegs, ZERO, A0
<1>10. y = Step(c, Gen!AsmLine(back)) /\ d = Step(y, Gen!AsmLine(ret))
  <2> HIDE DEF back, ret
  <2>1. Run(cpu, Append(r.out, back)) = Step(Run(cpu, r.out), Gen!AsmLine(back))
    BY <1>4, <1>6, RunAppend
  <2>2. Run(cpu, Append(e.out, ret)) = Step(Run(cpu, e.out), Gen!AsmLine(ret))
    BY <1>4, <1>8, RunAppend
  <2> QED BY <1>7, <2>1, <2>2 DEF After
<1>11. NewCode = f.out
  BY <1>1, <1>8, BodyIsInsts, CommitRuns DEF Going
<1> HIDE DEF c, y, d
<1>12. y = Written(c, SP, c.x[SP] + size)
  BY <1>9, <1>10, StepAddi
<1> HIDE DEF back
<1>13. Wrote(c, y, SP, c.x[SP] + size)
  BY <1>9, <1>12, WrittenFacts
<1>14. IsCpu(y) /\ ~y.halted
  BY <1>9, <1>13 DEF Wrote
<1>15. IsCpu(d) /\ d.x = y.x /\ d.mem = y.mem /\ d.halted
  BY <1>10, <1>14, StepRet
<1> HIDE DEF ret
<1>16. Returned(d, size, o)
  <2>1. d.x[SP] = cpu.x[SP] + size /\ d.mem = cpu.mem
    BY <1>9, <1>13, <1>15 DEF Wrote
  <2>2. \A q \in Reg \ (TempRegs \cup {SP}) : d.x[q] = cpu.x[q]
    BY <1>9, <1>13, <1>15 DEF Wrote
  <2>3. ~IsZero(o) => d.x[A0] = Denoted(o)
    BY <1>3, <1>9, <1>13, <1>15 DEF Wrote, c
  <2> QED BY <1>15, <2>1, <2>2, <2>3 DEF Returned
<1> QED BY <1>11, <1>16 DEF d, After, o

-----------------------------------------------------------------------------
(* Every instruction that is lowered.                                      *)

\* What the code of an instruction does, by its opcode.
Ran(size) ==
  LET c == Gen!Data.opcode
      o == Gen!Data.operands
  IN \/ c \in Builder!Binary /\ Result(Computed(c, Denoted(o[1]), Denoted(o[2])))
     \/ c = "LOAD"  /\ Result(Peek(cpu, SlotOf(o[1])))
     \/ c = "ALLOC" /\ Run(cpu, NewCode) = cpu
     \/ c = "STORE" /\ Stores(Run(cpu, NewCode), SlotOf(o[2]), Denoted(o[1]))
     \/ c = "RET"   /\ Returned(Run(cpu, NewCode), size, o[1])

LEMMA LowerRuns ==
  ASSUME NEW size \in Int, Going(size), Gen!GetSize(frames) = size, Gen!Lower
  PROVE  Ran(size)
<1>1. CASE Gen!LowerEq
  <2>1. Gen!Data.opcode \in Builder!Binary
    BY <1>1 DEF Gen!LowerEq, Gen!Lowering, Builder!Binary, Builder!ValueOps
  <2> QED BY <1>1, <2>1, LowerEqRuns DEF Ran
<1>2. CASE Gen!LowerLogic
  <2>1. Gen!Data.opcode \in Builder!Binary
    BY <1>2 DEF Gen!LowerLogic, Gen!Lowering, Builder!Binary, Builder!ValueOps
  <2> QED BY <1>2, <2>1, LowerLogicRuns DEF Ran
<1>3. CASE Gen!LowerBinary
  <2>1. Gen!Data.opcode \in Builder!Binary
    BY <1>3 DEF Gen!LowerBinary, Gen!Lowering, Gen!RVOpCode, Builder!Binary, Builder!ValueOps
  <2> QED BY <1>3, <2>1, LowerBinaryRuns DEF Ran
<1>4. CASE Gen!LowerAlloc
  <2>1. Gen!Data.opcode = "ALLOC"
    BY <1>4 DEF Gen!LowerAlloc, Gen!Lowering
  <2> QED BY <1>4, <2>1, LowerAllocRuns DEF Ran
<1>5. CASE Gen!LowerLoad
  <2>1. Gen!Data.opcode = "LOAD"
    BY <1>5 DEF Gen!LowerLoad, Gen!Lowering
  <2> QED BY <1>5, <2>1, LowerLoadRuns DEF Ran
<1>6. CASE Gen!LowerStore
  <2>1. Gen!Data.opcode = "STORE"
    BY <1>6 DEF Gen!LowerStore, Gen!Lowering
  <2> QED BY <1>6, <2>1, LowerStoreRuns DEF Ran
<1>7. CASE Gen!LowerRet
  <2>1. Gen!Data.opcode = "RET"
    BY <1>7 DEF Gen!LowerRet, Gen!Lowering
  <2> QED BY <1>7, <2>1, LowerRetRuns DEF Ran
<1> QED BY <1>1, <1>2, <1>3, <1>4, <1>5, <1>6, <1>7 DEF Gen!Lower

\* Instruction n of f is being lowered, with the slots map gives.
AtInst(f, n, map) ==
  /\ f = funcs[fn] /\ f \in FuncSet /\ LegalFunc(f) /\ fn \in 1 .. Len(funcs)
  /\ n = pos - 1 /\ n \in Nat /\ n < f.next_inst_id /\ f.next_inst_id \in Nat
  /\ Gen!Data = f.inst_map[n] /\ Fits(f, n, f.inst_map[n]) /\ f.inst_map[n] \in InstData
  /\ frames = <<Frame(f, n, map)>> /\ SlotsFit(f, n, map)
  /\ Ready(Gen!FrameSize(f)) /\ Gen!GetSize(frames) = Gen!FrameSize(f)
  /\ Gen!FrameSize(f) \in Nat
  /\ blocks \in Seq(Seq(Insts)) /\ blocks # <<>>
  /\ Lowered(Gen!FrameSize(f))

LEMMA LowerFacts ==
  ASSUME CompilerInv, FrontDone, Gen!Lower
  PROVE  \E map : AtInst(funcs[fn], pos - 1, map)
<1> DEFINE f    == funcs[fn]
           size == Gen!FrameSize(f)
           n    == pos - 1
<1>1. status = "ok" /\ phase = "inst" /\ pos <= Len(Gen!Func.inst_list)
  BY DEF FrontDone, Gen!Lower, Gen!LowerEq, Gen!LowerLogic, Gen!LowerBinary, Gen!LowerAlloc,
         Gen!LowerLoad, Gen!LowerStore, Gen!LowerRet, Gen!Lowering
<1>2. /\ Inside /\ GoodBlocks /\ regs = AllIdle /\ fn \in 1 .. Len(funcs)
      /\ Gen!Func = f /\ f \in FuncSet /\ LegalFunc(f)
      /\ Len(f.inst_list) = f.next_inst_id /\ f.next_inst_id \in Nat /\ Len(funcs) \in Nat
  BY <1>1, InsideFacts
<1>3. pos \in 1 .. f.next_inst_id /\ n \in Nat /\ n < f.next_inst_id
  <2>1. pos \in 1 .. f.next_inst_id + 1
    BY <1>2 DEF Inside
  <2> QED BY <1>1, <1>2, <2>1
<1>4. PICK map : frames = <<Frame(f, n, map)>> /\ SlotsFit(f, n, map)
  BY <1>2 DEF Inside, Framed
<1>5. Ready(size) /\ Gen!Data = f.inst_map[n]
  BY <1>2, <1>3, <1>4, LowerIsReady
<1>6. size \in Nat /\ size \in Int /\ Gen!GetSize(frames) = size
  <2>1. size \in Nat
    BY <1>2, FrameHolds
  <2> QED BY <1>4, <2>1, FrameFacts
<1>7. Lowered(size)
  BY <1>5, <1>6, LowerLowers
<1>8. blocks \in Seq(Seq(Insts)) /\ blocks # <<>>
  <2>1. Len(blocks) = fn /\ fn # 0
    BY <1>2 DEF Inside
  <2> QED BY <1>2, <2>1 DEF GoodBlocks
<1>9. Fits(f, n, f.inst_map[n]) /\ f.inst_map[n] \in InstData
  BY <1>2, <1>3, LegalFacts
<1> HIDE DEF f, n, size
<1>10. AtInst(f, n, map)
  BY <1>2, <1>3, <1>4, <1>5, <1>6, <1>7, <1>8, <1>9 DEF AtInst, f, n, size
<1> QED BY <1>10 DEF f, n

-----------------------------------------------------------------------------
(* What a function does to the core.                                       *)

\* The core within f, after n instructions: it has written to slots only, the
\* registers that are not temporary are the caller's, and sp is below the
\* frame until the function returns.
CpuIn(c, f, n) ==
  /\ IsCpu(c)
  /\ \A r \in Reg \ (TempRegs \cup {SP}) : c.x[r] = NewCpu.x[r]
  /\ c.x[SP] = (IF c.halted THEN 0 ELSE -Gen!FrameSize(f))
  /\ \A a \in DOMAIN c.mem : \E k \in 0 .. Cardinality(ValuesUpTo(f, n)) - 1 :
       a = 4 * k - Gen!FrameSize(f)

CpuInv == phase = "inst" => CpuIn(cpu, funcs[fn], pos - 1)

\* Where a slot is.
LEMMA SlotAddress ==
  ASSUME NEW f, NEW n \in Nat, NEW map, frames = <<Frame(f, n, map)>>, SlotsFit(f, n, map),
         Gen!FrameSize(f) \in Nat, cpu.x[SP] = -Gen!FrameSize(f), NEW o \in DOMAIN map
  PROVE  /\ SlotOf(o) = map[o] - Gen!FrameSize(f) /\ map[o] \in Nat
         /\ \E k \in 0 .. Cardinality(ValuesUpTo(f, n)) - 1 : SlotOf(o) = 4 * k - Gen!FrameSize(f)
<1>1. Gen!GetNamedVar(frames, o) = map[o]
  BY FrameFacts
<1>2. PICK k \in 0 .. Cardinality(ValuesUpTo(f, n)) - 1 : map[o] = 4 * k
  BY DEF SlotsFit
<1>3. SlotOf(o) = -Gen!FrameSize(f) + map[o] /\ map[o] \in Nat
  BY <1>1, <1>2 DEF SlotOf
<1>4. SlotOf(o) = 4 * k - Gen!FrameSize(f) /\ SlotOf(o) = map[o] - Gen!FrameSize(f)
  BY <1>2, <1>3
<1> QED BY <1>2, <1>3, <1>4

\* A store to a slot that is there, or to the next one.
LEMMA StoresFits ==
  ASSUME NEW f, NEW n \in Nat, CpuIn(cpu, f, n), ~cpu.halted,
         NEW d, NEW a, NEW v, Stores(d, a, v),
         NEW m \in {n, n + 1},
         \E k \in 0 .. Cardinality(ValuesUpTo(f, m)) - 1 : a = 4 * k - Gen!FrameSize(f)
  PROVE  CpuIn(d, f, m)
<1>1. \A b \in DOMAIN cpu.mem : \E k \in 0 .. Cardinality(ValuesUpTo(f, m)) - 1 :
        b = 4 * k - Gen!FrameSize(f)
  <2> TAKE b \in DOMAIN cpu.mem
  <2>1. PICK k \in 0 .. Cardinality(ValuesUpTo(f, n)) - 1 : b = 4 * k - Gen!FrameSize(f)
    BY DEF CpuIn
  <2>2. m \in Nat /\ n \in 0 .. m
    OBVIOUS
  <2>3. Cardinality(ValuesUpTo(f, n)) <= Cardinality(ValuesUpTo(f, m))
        /\ Cardinality(ValuesUpTo(f, n)) \in Nat /\ Cardinality(ValuesUpTo(f, m)) \in Nat
    BY <2>2, ValuesCounted
  <2>4. k \in 0 .. Cardinality(ValuesUpTo(f, m)) - 1
    BY <2>3
  <2> QED BY <2>1, <2>4
<1>2. SP \in Reg \ TempRegs
  BY DEF SP, Reg, TempRegs
<1>3. d.x[SP] = -Gen!FrameSize(f) /\ \A r \in Reg \ (TempRegs \cup {SP}) : d.x[r] = NewCpu.x[r]
  BY <1>2 DEF CpuIn, Stores
<1>4. \A b \in DOMAIN d.mem : b \in DOMAIN cpu.mem \/ b = a
  BY DEF Stores
<1> QED BY <1>1, <1>3, <1>4 DEF CpuIn, Stores

LEMMA CpuInGrows ==
  ASSUME NEW c, NEW f, NEW n \in Nat, CpuIn(c, f, n)
  PROVE  CpuIn(c, f, n + 1)
<1>1. n \in 0 .. n + 1 /\ n + 1 \in Nat
  OBVIOUS
<1>2. /\ Cardinality(ValuesUpTo(f, n)) <= Cardinality(ValuesUpTo(f, n + 1))
      /\ Cardinality(ValuesUpTo(f, n)) \in Nat /\ Cardinality(ValuesUpTo(f, n + 1)) \in Nat
  BY <1>1, ValuesCounted
<1>3. 0 .. Cardinality(ValuesUpTo(f, n)) - 1 \subseteq 0 .. Cardinality(ValuesUpTo(f, n + 1)) - 1
  BY <1>2
<1> QED BY <1>3 DEF CpuIn

\* The slot of the result of instruction n.
LEMMA NextAddress ==
  ASSUME NEW f, NEW n \in Nat, NEW map, frames = <<Frame(f, n, map)>>, f.inst_map[n].typ = "Int",
         Gen!FrameSize(f) \in Nat, cpu.x[SP] = -Gen!FrameSize(f), NEW k,
         k = Cardinality(ValuesUpTo(f, n))
  PROVE  /\ cpu.x[SP] + Gen!VarOffset(frames) = 4 * k - Gen!FrameSize(f)
         /\ k \in Nat /\ Cardinality(ValuesUpTo(f, n + 1)) = k + 1
<1>1. Gen!VarOffset(frames) = 4 * k
  BY FrameFacts
<1>2. k \in Nat
  BY ValuesCounted
<1>3. Cardinality(ValuesUpTo(f, n + 1)) = k + 1
  BY NextValue
<1> QED BY <1>1, <1>2, <1>3

LEMMA ReturnedFits ==
  ASSUME NEW f, NEW n \in Nat, CpuIn(cpu, f, n), ~cpu.halted, Gen!FrameSize(f) \in Nat,
         NEW d, NEW o, Returned(d, Gen!FrameSize(f), o)
  PROVE  CpuIn(d, f, n)
<1>1. d.x[SP] = 0
  BY DEF Returned, CpuIn
<1> QED BY <1>1 DEF Returned, CpuIn

\* Lowering an instruction takes the core from what it is after n to what it
\* is after n + 1.
LEMMA LowerKeepsCpu ==
  ASSUME CompilerInv, FrontDone, Gen!Lower, NEW f, NEW n, NEW map, AtInst(f, n, map),
         CpuIn(cpu, f, n)
  PROVE  CpuIn(Run(cpu, NewCode), f, n + 1)
<1> DEFINE size == Gen!FrameSize(f)
           inst == f.inst_map[n]
           c    == inst.opcode
           o    == inst.operands
           d    == Run(cpu, NewCode)
<1>1. /\ n \in Nat /\ size \in Nat /\ size \in Int /\ Gen!GetSize(frames) = size
      /\ Gen!Data = inst /\ frames = <<Frame(f, n, map)>> /\ SlotsFit(f, n, map)
      /\ Ready(size)
  BY DEF AtInst
<1>2. CASE cpu.halted
  <2>1. Len(NewCode) \in Nat
    BY NewCodeLength DEF AtInst
  <2>2. d = cpu
    BY <1>2, <2>1, HaltedStays
  <2> QED BY <1>1, <2>2, CpuInGrows
<1>3. CASE ~cpu.halted
  <2>1. Going(size)
    BY <1>1, <1>3 DEF Going, AtInst, CpuIn
  <2>2. Ran(size)
    BY <1>1, <2>1, LowerRuns
  <2>3. cpu.x[SP] = -size
    BY <1>3 DEF CpuIn
  <2>4. ASSUME inst.typ = "Int", NEW v, Result(v)
        PROVE  CpuIn(d, f, n + 1)
    <3> DEFINE k == Cardinality(ValuesUpTo(f, n))
               a == cpu.x[SP] + Gen!VarOffset(frames)
    <3>1. a = 4 * k - size /\ k \in Nat /\ Cardinality(ValuesUpTo(f, n + 1)) = k + 1
      BY <1>1, <2>3, <2>4, NextAddress
    <3>2. Stores(d, a, v)
      BY <2>4 DEF Result
    <3> HIDE DEF a, d
    <3>3. n + 1 \in {n, n + 1} /\ k \in 0 .. Cardinality(ValuesUpTo(f, n + 1)) - 1
      BY <3>1
    <3> HIDE DEF k
    <3> QED BY <1>1, <1>3, <3>1, <3>2, <3>3, StoresFits
  <2>5. inst.typ = IF c \in ValueOps THEN "Int" ELSE "Void"
    BY DEF AtInst, Fits
  <2>6. CASE c \in Builder!Binary \cup {"LOAD"}
    <3>1. inst.typ = "Int"
      BY <2>5, <2>6 DEF Builder!Binary, Builder!ValueOps, ValueOps
    <3>2. \E v : Result(v)
      BY <1>1, <2>2, <2>6 DEF Ran, Builder!Binary, Builder!ValueOps
    <3> QED BY <2>4, <3>1, <3>2
  <2>7. CASE c = "ALLOC"
    <3>1. d = cpu
      BY <1>1, <2>2, <2>7 DEF Ran, Builder!Binary, Builder!ValueOps
    <3> QED BY <1>1, <3>1, CpuInGrows
  <2>8. CASE c = "STORE"
    <3>1. Stores(d, SlotOf(o[2]), Denoted(o[1]))
      BY <1>1, <2>2, <2>8 DEF Ran, Builder!Binary, Builder!ValueOps
    <3>2. o[2] \in DOMAIN map
      <4>1. Gen!HasVar(frames, o[2])
        BY <1>1, <2>8 DEF Ready, Placed
      <4> QED BY <1>1, <4>1, FrameFacts
    <3>3. \E k \in 0 .. Cardinality(ValuesUpTo(f, n)) - 1 : SlotOf(o[2]) = 4 * k - size
      BY <1>1, <2>3, <3>2, SlotAddress
    <3>4. CpuIn(d, f, n)
      <4> DEFINE a == SlotOf(o[2])
                 v == Denoted(o[1])
      <4>1. Stores(d, a, v) /\ \E k \in 0 .. Cardinality(ValuesUpTo(f, n)) - 1 : a = 4 * k - size
        BY <3>1, <3>3
      <4> HIDE DEF a, v, d
      <4>2. n \in {n, n + 1}
        OBVIOUS
      <4> QED BY <1>1, <1>3, <4>1, <4>2, StoresFits
    <3> QED BY <1>1, <3>4, CpuInGrows
  <2>9. CASE c = "RET"
    <3>1. Returned(d, size, o[1])
      BY <1>1, <2>2, <2>9 DEF Ran, Builder!Binary, Builder!ValueOps
    <3>2. CpuIn(d, f, n)
      <4> HIDE DEF d
      <4> QED BY <1>1, <1>3, <3>1, ReturnedFits
    <3> QED BY <1>1, <3>2, CpuInGrows
  <2> QED BY <1>1, <2>2, <2>6, <2>7, <2>8, <2>9 DEF Ran
<1> QED BY <1>2, <1>3

LEMMA NewCpuFacts ==
  IsCpu(NewCpu) /\ ~NewCpu.halted /\ NewCpu.x[SP] = 0 /\ NewCpu.mem = [a \in {} |-> 0]
<1>1. ZERO \in Reg /\ SP \in Reg /\ SP # ZERO
  BY DEF ZERO, SP, Reg
<1> DEFINE x == [r \in Reg |-> CASE r = ZERO -> 0 [] r = SP -> 0 [] OTHER -> CallerValue(r)]
           m == [a \in {} |-> 0]
<1>2. x = [r \in Reg |-> x[r]] /\ x[ZERO] = 0 /\ x[SP] = 0
  BY <1>1
<1> HIDE DEF x, m
<1>3. NewCpu = [x |-> x, mem |-> m, halted |-> FALSE]
  BY DEF NewCpu, x, m
<1>4. NewCpu.x = x /\ NewCpu.mem = m /\ ~NewCpu.halted
  BY <1>3
<1> QED BY <1>2, <1>3, <1>4 DEF IsCpu, m

\* The prologue makes room for the frame.
LEMMA BeginRuns ==
  ASSUME CompilerInv, FrontDone, Gen!BeginAsmBlock, NEW f, f = funcs[fn],
         NEW d, d = Run(NewCpu, NewCode)
  PROVE  CpuIn(d, f, 0) /\ ~d.halted /\ d.mem = [a \in {} |-> 0]
<1> DEFINE size == Gen!FrameSize(f)
           inst == Gen!AsmInst("ADDI", Temp(SP), Temp(SP), Absent, Imm(-size))
           code == <<inst>>
<1>1. /\ blocks' = Append(blocks, <<Gen!AdjustSp(-size)>>) /\ f \in FuncSet
      /\ blocks \in Seq(Seq(Insts))
  BY BeginAsmBlockFacts DEF GoodBlocks
<1>2. size \in Nat /\ size \in Int /\ -size \in Int /\ -size \in {size, -size}
  BY <1>1, FrameHolds
<1>3. inst \in Insts /\ blocks' = Append(blocks, code)
  <2>1. Gen!AdjustSp(-size) = inst /\ Gen!AdjustSp(-size) \in BodyInsts(size)
    BY <1>2, GoodAddi
  <2> QED BY <1>1, <2>1 DEF BodyInsts, GoodInsts
<1> HIDE DEF inst
<1>4. code \in Seq(Insts) /\ <<>> \in Seq(Insts) /\ Append(<<>>, inst) = code
  BY <1>3
<1> HIDE DEF code
<1>5. NewCode = code
  <2>1. /\ blocks' \in Seq(Seq(Insts)) /\ Len(blocks') = Len(blocks) + 1 /\ Len(blocks) \in Nat
        /\ blocks'[Len(blocks) + 1] = code
    BY <1>1, <1>3, <1>4, AppendProperties, LenProperties
  <2>2. Len(blocks') > Len(blocks)
    BY <2>1
  <2>3. Last(blocks') = code
    BY <2>1 DEF Last
  <2> QED BY <2>2, <2>3 DEF NewCode
<1>6. d = Step(NewCpu, Gen!AsmLine(inst))
  <2>1. Run(NewCpu, Append(<<>>, inst)) = Step(Run(NewCpu, <<>>), Gen!AsmLine(inst))
    BY <1>3, <1>4, RunAppend
  <2>2. Run(NewCpu, <<>>) = NewCpu
    BY RunEmpty
  <2> QED BY <1>4, <1>5, <2>1, <2>2
<1>7. /\ IsCpu(NewCpu) /\ ~NewCpu.halted /\ NewCpu.x[SP] = 0
      /\ NewCpu.mem = [a \in {} |-> 0] /\ SP \in Reg \ {ZERO}
  BY NewCpuFacts DEF SP, Reg, ZERO
<1>8. d = Written(NewCpu, SP, -size)
  <2>1. inst = Gen!AsmInst("ADDI", Temp(SP), Temp(SP), Absent, Imm(-size))
    BY DEF inst
  <2> DEFINE k == -size
  <2>2. k \in Int /\ inst = Gen!AsmInst("ADDI", Temp(SP), Temp(SP), Absent, Imm(k))
    BY <1>2, <2>1
  <2> HIDE DEF k
  <2>3. d = Written(NewCpu, SP, NewCpu.x[SP] + k)
    BY <1>6, <1>7, <2>2, StepAddi
  <2>4. NewCpu.x[SP] + k = k
    BY <1>7, <2>2
  <2> QED BY <2>3, <2>4 DEF k
<1>9. Wrote(NewCpu, d, SP, -size)
  <2> DEFINE k == -size
  <2>1. d = Written(NewCpu, SP, k)
    BY <1>8
  <2> HIDE DEF k
  <2>2. Wrote(NewCpu, d, SP, k)
    BY <1>7, <2>1, WrittenFacts
  <2> QED BY <2>2 DEF k
<1>10. d.mem = [a \in {} |-> 0] /\ ~d.halted /\ IsCpu(d) /\ d.x[SP] = -size
       /\ \A r \in Reg \ (TempRegs \cup {SP}) : d.x[r] = NewCpu.x[r]
  BY <1>7, <1>9 DEF Wrote
<1>11. DOMAIN d.mem = {}
  BY <1>10
<1> QED BY <1>10, <1>11 DEF CpuIn

LEMMA CpuInvInit == CompilerInit => CpuInv
  BY DEF CompilerInit, Gen!GenInit, CpuInv

\* What a step of the back end does to the two machines.
LEMMA BackEndBegins ==
  ASSUME BackEnd, Gen!BeginAsmBlock
  PROVE  FrontDone /\ machine' = NewMachine /\ cpu' = Run(NewCpu, NewCode)
<1>1. phase = "func" /\ fn <= Len(funcs) /\ phase' = "inst"
  BY DEF Gen!BeginAsmBlock
<1>2. ~Gen!EndAsmBlock /\ ~Gen!FinishAsm
  BY <1>1 DEF Gen!EndAsmBlock, Gen!FinishAsm
<1>3. ~Gen!Lower
  <2>1. Gen!Lower => phase = "inst"
    BY DEF Gen!Lower, Gen!LowerEq, Gen!LowerLogic, Gen!LowerBinary, Gen!LowerAlloc,
       Gen!LowerLoad, Gen!LowerStore, Gen!LowerRet, Gen!Lowering
  <2> QED BY <1>1, <2>1
<1> QED BY <1>2, <1>3 DEF BackEnd

LEMMA BackEndLowers ==
  ASSUME CompilerInv, BackEnd, Gen!Lower
  PROVE  /\ FrontDone /\ phase = "inst" /\ pos <= Len(Gen!Func.inst_list)
         /\ machine' = Execute(machine, Gen!Data, BitwiseLogic) /\ cpu' = Run(cpu, NewCode)
<1>1. phase = "inst" /\ pos <= Len(Gen!Func.inst_list)
  BY DEF Gen!Lower, Gen!LowerEq, Gen!LowerLogic, Gen!LowerBinary, Gen!LowerAlloc,
     Gen!LowerLoad, Gen!LowerStore, Gen!LowerRet, Gen!Lowering
<1>2. ~Gen!BeginAsmBlock /\ ~Gen!FinishAsm
  BY <1>1 DEF Gen!BeginAsmBlock, Gen!FinishAsm
<1>3. phase' = "inst"
  BY LowerFacts DEF BackEnd, AtInst, Lowered
<1>4. ~Gen!EndAsmBlock
  BY <1>3 DEF Gen!EndAsmBlock
<1> QED BY <1>1, <1>2, <1>4 DEF BackEnd

LEMMA CpuInvStep ==
  ASSUME CompilerInv, CpuInv, [CompilerNext]_allvars
  PROVE  CpuInv'
<1>1. CASE FrontEnd
  <2>1. status # "ok" /\ UNCHANGED phase
    <3>1. Next /\ status = "run"
      BY <1>1, SimStepIsStep, NextRuns DEF FrontEnd, CompilerInv
    <3> QED BY <1>1, <3>1 DEF FrontEnd, backvars
  <2> QED BY <2>1 DEF CompilerInv, Fresh, CpuInv
<1>2. CASE BackEnd
  <2>1. CASE Gen!BeginAsmBlock
    <3>1. FrontDone /\ cpu' = Run(NewCpu, NewCode)
      BY <1>2, <2>1, BackEndBegins
    <3>2. pos' = 1 /\ UNCHANGED <<funcs, fn>> /\ 1 - 1 = 0
      BY <2>1 DEF Gen!BeginAsmBlock
    <3>3. CpuIn(cpu', funcs[fn], 0)
      BY <2>1, <3>1, BeginRuns
    <3> QED BY <3>2, <3>3 DEF CpuInv
  <2>2. CASE Gen!EndAsmBlock \/ Gen!FinishAsm
    BY <2>2 DEF Gen!EndAsmBlock, Gen!FinishAsm, CpuInv
  <2>3. CASE Gen!Lower
    <3>1. FrontDone /\ cpu' = Run(cpu, NewCode) /\ phase = "inst"
      BY <1>2, <2>3, BackEndLowers
    <3> DEFINE f == funcs[fn]
               n == pos - 1
    <3>2. PICK map : AtInst(f, n, map)
      BY <2>3, <3>1, LowerFacts
    <3>3. CpuIn(cpu, f, n)
      BY <3>1 DEF CpuInv
    <3>4. n \in Nat /\ n + 1 = pos' - 1 /\ UNCHANGED <<funcs, fn>>
      <4>1. pos' = pos + 1 /\ UNCHANGED <<funcs, fn>>
        BY <3>2 DEF AtInst, Lowered
      <4>2. n = pos - 1 /\ n \in Nat /\ pos \in Nat
        BY <1>2, <2>3, <3>1, InsideFacts DEF Inside, FrontDone
      <4> QED BY <4>1, <4>2
    <3> HIDE DEF f, n
    <3>5. CpuIn(Run(cpu, NewCode), f, n + 1)
      BY <2>3, <3>1, <3>2, <3>3, LowerKeepsCpu
    <3> QED BY <3>1, <3>4, <3>5 DEF CpuInv, f
  <2> QED BY <1>2, <2>1, <2>2, <2>3 DEF BackEnd
<1>3. CASE Printing
  BY <1>3 DEF Printing, Printer!PrinterNext, Printer!StartPrinting, Printer!PrintFunc,
     Printer!FinishPrinting, CpuInv
<1>4. CASE UNCHANGED allvars
  BY <1>4 DEF allvars, simvars, vars, backvars, CpuInv
<1> QED BY <1>1, <1>2, <1>3, <1>4 DEF CompilerNext

\* Along the code of a function (AsmBlock::from) the core writes to slots only
\* and keeps its caller's registers.
THEOREM CpuInvIsInvariant == CompilerSpec => [](CompilerInv /\ CpuInv)
<1>1. CompilerInv /\ CpuInv /\ [CompilerNext]_allvars => (CompilerInv /\ CpuInv)'
  BY CompilerStep, CpuInvStep
<1> QED BY <1>1, InitCompilerInv, CpuInvInit, PTL DEF CompilerSpec

\* When a function returns, sp and the registers it must not change are its
\* caller's, and all it has written to are words of its own frame
\* (AsmBlock::prologue, alloc_var, the epilogue of RET), for every program.
THEOREM CallingConventionKept == CompilerSpec => []CallingConvention
<1>1. ASSUME CompilerInv, CpuInv PROVE CallingConvention
  <2> SUFFICES ASSUME phase = "inst"
               PROVE  /\ \A a \in DOMAIN cpu.mem : a \in -Last(frames).size .. -4
                      /\ cpu.halted => /\ cpu.x[SP] = NewCpu.x[SP]
                                       /\ \A r \in CalleeSaved : cpu.x[r] = NewCpu.x[r]
    BY DEF CallingConvention
  <2> DEFINE f    == funcs[fn]
             n    == pos - 1
             size == Gen!FrameSize(f)
             v    == Cardinality(ValuesUpTo(f, n))
             t    == Cardinality(ValuesUpTo(f, f.next_inst_id))
  <2>1. CpuIn(cpu, f, n)
    BY <1>1 DEF CpuInv
  <2>2. /\ Inside /\ f \in FuncSet /\ f.next_inst_id \in Nat
    <3>1. status = "ok"
      BY <1>1 DEF CompilerInv, Fresh
    <3> QED BY <1>1, <3>1, InsideFacts
  <2>3. PICK map : frames = <<Frame(f, n, map)>>
    BY <2>2 DEF Inside, Framed
  <2>4. Last(frames).size = size
    BY <2>3, FrameFacts DEF Frame
  <2>5. v \in Nat /\ v <= t /\ t \in Nat /\ 4 * t <= size /\ size \in Nat
    <3>1. n \in 0 .. f.next_inst_id
      BY <2>2 DEF Inside
    <3> QED BY <2>2, <3>1, ValuesCounted, FrameHolds
  <2>6. ASSUME NEW a \in DOMAIN cpu.mem PROVE a \in -Last(frames).size .. -4
    <3>1. PICK k \in 0 .. v - 1 : a = 4 * k - size
      BY <2>1 DEF CpuIn
    <3> HIDE DEF v, t, size
    <3>2. a \in -size .. -4
      BY <2>5, <3>1
    <3> QED BY <2>4, <3>2
  <2>7. CalleeSaved \subseteq Reg \ (TempRegs \cup {SP})
    BY DEF CalleeSaved, Reg, TempRegs, SP
  <2>8. NewCpu.x[SP] = 0
    BY NewCpuFacts
  <2> QED BY <2>1, <2>6, <2>7, <2>8 DEF CpuIn
<1> QED BY <1>1, CpuInvIsInvariant, PTL

\* AND and OR are taken for what the back end lowers them to.
OnTruths == BitwiseLogic = FALSE

-----------------------------------------------------------------------------
(* The Koopa machine within a function.                                    *)

\* The machine after n instructions of f: results are words, and so is what a
\* pointer holds once it has been stored to.
ValuesFit(f, n, mc) ==
  /\ Len(mc.vals) = n
  /\ \A j \in 0 .. n - 1 :
       f.inst_map[j].opcode \in ValueOps \ {"ALLOC"} => mc.vals[j + 1] \in Int32

MachineFits(f, n, mc) ==
  /\ mc \in Machines /\ ValuesFit(f, n, mc)
  /\ \A p : AllocIn(f, n, p) => p \in DOMAIN mc.mem
  /\ \A p : StoreIn(f, n, p) => mc.mem[p] \in Int32

LEMMA UsableReads ==
  ASSUME NEW f, NEW n \in Nat, NEW mc, MachineFits(f, n, mc), NEW o, Usable(f, n, o)
  PROVE  Read(mc, o) \in Int32
<1>1. CASE o.kind = "Const"
  BY <1>1 DEF Usable, Read
<1>2. CASE o.kind = "InstId"
  <2>1. o.val \in 0 .. n - 1 /\ f.inst_map[o.val].opcode \in ValueOps \ {"ALLOC"}
    BY <1>2 DEF Usable
  <2>2. mc.vals[o.val + 1] \in Int32
    BY <2>1 DEF MachineFits, ValuesFit
  <2> QED BY <1>2, <2>2 DEF Read
<1> QED BY <1>1, <1>2 DEF Usable

LEMMA ComputeInt32 ==
  ASSUME NEW op \in Builder!Binary, FromSource(op), NEW l \in Int32, NEW r \in Int32
  PROVE  Compute(op, FALSE, l, r) \in Int32
<1>1. l \in Int /\ r \in Int /\ 0 \in Int32 /\ 1 \in Int32
  BY UndefFacts, I32Range DEF Int32
<1>2. CASE op \in {"NE", "EQ", "GT", "LT", "GE", "LE"}
  <2>1. Compute(op, FALSE, l, r) \in {Truth(l # r), Truth(l = r), Truth(l > r), Truth(l < r),
                                      Truth(l >= r), Truth(l <= r)}
    BY <1>2 DEF Compute
  <2>2. Compute(op, FALSE, l, r) \in {0, 1}
    BY <2>1 DEF Truth
  <2> QED BY <1>1, <2>2
<1>3. CASE op \in {"AND", "OR"}
  <2>1. Compute(op, FALSE, l, r) \in {Truth(l # 0 /\ r # 0), Truth(l # 0 \/ r # 0)}
    BY <1>3 DEF Compute
  <2>2. Compute(op, FALSE, l, r) \in {0, 1}
    BY <2>1 DEF Truth
  <2> QED BY <1>1, <2>2
<1>4. CASE op \in {"ADD", "SUB"}
  <2>1. l + r \in Int /\ l - r \in Int
    BY <1>1
  <2>2. Compute(op, FALSE, l, r) = Wrap(l + r) \/ Compute(op, FALSE, l, r) = Wrap(l - r)
    BY <1>4 DEF Compute
  <2> QED BY <2>1, <2>2, WrapInt32
<1>5. CASE op = "MUL"
  <2>1. l * r \in Int
    BY <1>1
  <2>2. Compute(op, FALSE, l, r) = Wrap(l * r)
    BY <1>5 DEF Compute
  <2> QED BY <2>1, <2>2, WrapInt32
<1>6. CASE op = "DIV" \/ op = "MOD"
  <2>1. Compute(op, FALSE, l, r) \in {Div(l, r), Rem(l, r)}
    BY <1>6 DEF Compute
  <2> QED BY <2>1, DivRemInt32
<1> QED BY <1>2, <1>3, <1>4, <1>5, <1>6
     DEF FromSource, KoopaOpCode, ValueOps, Builder!Binary, Builder!ValueOps

\* A pointer is allocated once in a function.
LEMMA AllocatedOnce ==
  ASSUME ProgInv, NEW i \in 1 .. Len(funcs), NEW f, f = funcs[i], f.next_inst_id \in Nat,
         NEW n \in 0 .. f.next_inst_id - 1, f.inst_map[n].opcode = "ALLOC",
         f.inst_map[n] \in InstData
  PROVE  f.inst_map[n].ir_obj.val \in Nat /\ ~AllocIn(f, n, f.inst_map[n].ir_obj.val)
<1> DEFINE p == f.inst_map[n].ir_obj.val
<1>1. IsAlloc(i, n) /\ PointerOf(i, n) = p
  BY DEF IsAlloc, PointerOf
<1>2. p \in 0 .. nextPtr - 1 /\ p \in Int
  BY <1>1 DEF ProgInv, PointersApart, InstData, IRObj
<1>3. ASSUME AllocIn(f, n, p) PROVE FALSE
  <2>1. PICK j \in 0 .. n - 1 : f.inst_map[j].opcode = "ALLOC" /\ f.inst_map[j].ir_obj.val = p
    BY <1>3 DEF AllocIn
  <2>2. j \in 0 .. f.next_inst_id - 1 /\ j # n
    OBVIOUS
  <2>3. IsAlloc(i, j) /\ PointerOf(i, j) = p
    BY <2>1, <2>2 DEF IsAlloc, PointerOf
  <2> QED BY <1>1, <2>2, <2>3 DEF ProgInv, PointersApart
<1> QED BY <1>2, <1>3

\* One more instruction allocates, or stores to, at most one pointer more.
LEMMA NextUses ==
  ASSUME NEW f, NEW n \in Nat, NEW p, NEW inst, inst = f.inst_map[n]
  PROVE  /\ AllocIn(f, n + 1, p)
              <=> (AllocIn(f, n, p) \/ (inst.opcode = "ALLOC" /\ inst.ir_obj.val = p))
         /\ StoreIn(f, n + 1, p)
              <=> (StoreIn(f, n, p) \/ (inst.opcode = "STORE" /\ inst.operands[2].val = p))
<1> DEFINE k == n + 1
<1>1. 0 .. k - 1 = (0 .. n - 1) \cup {n}
  OBVIOUS
<1> HIDE DEF k
<1>2. AllocIn(f, k, p)
        <=> (AllocIn(f, n, p) \/ (inst.opcode = "ALLOC" /\ inst.ir_obj.val = p))
  BY <1>1 DEF AllocIn
<1>3. StoreIn(f, k, p)
        <=> (StoreIn(f, n, p) \/ (inst.opcode = "STORE" /\ inst.operands[2].val = p))
  BY <1>1 DEF StoreIn
<1> QED BY <1>2, <1>3 DEF k

\* What is stored to has been allocated.
LEMMA StoredAllocated ==
  ASSUME NEW f, LegalFunc(f), f.next_inst_id \in Nat, NEW n \in 0 .. f.next_inst_id,
         NEW p, StoreIn(f, n, p)
  PROVE  AllocIn(f, n, p)
<1>1. PICK j \in 0 .. n - 1 : f.inst_map[j].opcode = "STORE" /\ f.inst_map[j].operands[2].val = p
  BY DEF StoreIn
<1>2. Fits(f, j, f.inst_map[j])
  BY DEF LegalFunc
<1>3. AllocIn(f, j, p)
  BY <1>1, <1>2 DEF Fits
<1> QED BY <1>3 DEF AllocIn

\* The first n results stay what they were.
OlderKept(n, mc, t) == \A j \in 0 .. n - 1 : t.vals[j + 1] = mc.vals[j + 1]

HasNext(f, n, mc, t, v) ==
  ValuesFit(f, n + 1, t) /\ t.vals[n + 1] = v /\ OlderKept(n, mc, t)

\* What t has computed when mc is n instructions of f further and v comes next.
LEMMA NextResult ==
  ASSUME NEW f, NEW n \in Nat, NEW mc, MachineFits(f, n, mc), NEW v \in Int,
         f.inst_map[n].opcode \in ValueOps \ {"ALLOC"} => v \in Int32,
         NEW t, t.vals = Append(mc.vals, v)
  PROVE  HasNext(f, n, mc, t, v)
<1>1. mc.vals \in Seq(Int) /\ Len(mc.vals) = n
  BY DEF MachineFits, ValuesFit, Machines
<1>2. Len(t.vals) = n + 1 /\ t.vals[n + 1] = v
  BY <1>1, AppendProperties
<1>3. \A j \in 0 .. n - 1 : t.vals[j + 1] = mc.vals[j + 1]
  <2> TAKE j \in 0 .. n - 1
  <2>1. j + 1 \in 1 .. Len(mc.vals)
    BY <1>1
  <2> QED BY <1>1, <2>1, AppendProperties
<1>4. ASSUME NEW j \in 0 .. n + 1 - 1, f.inst_map[j].opcode \in ValueOps \ {"ALLOC"}
      PROVE  t.vals[j + 1] \in Int32
  <2>1. CASE j = n
    BY <1>2, <1>4, <2>1
  <2>2. CASE j # n
    <3>1. j \in 0 .. n - 1
      BY <2>2
    <3> QED BY <1>3, <1>4, <3>1 DEF MachineFits, ValuesFit
  <2> QED BY <2>1, <2>2
<1> QED BY <1>2, <1>3, <1>4 DEF HasNext, ValuesFit, OlderKept

\* The machine goes on as it was, one instruction further.
LEMMA MachineSteps ==
  ASSUME OnTruths, NEW f, NEW n \in Nat, NEW inst, inst = f.inst_map[n],
         Fits(f, n, inst), NEW mc, MachineFits(f, n, mc),
         inst.opcode = "ALLOC" => inst.ir_obj.val \in Nat /\ ~AllocIn(f, n, inst.ir_obj.val),
         \A p : StoreIn(f, n, p) => AllocIn(f, n, p),
         NEW t, t = Execute(mc, inst, BitwiseLogic)
  PROVE  MachineFits(f, n + 1, t)
<1> DEFINE o == inst.operands
<1>1. mc \in Machines /\ Undef \in Int /\ Int32 \subseteq Int
  BY UndefFacts DEF MachineFits
<1>2. CASE inst.opcode \in Builder!Binary
  <2>1. Usable(f, n, o[1]) /\ Usable(f, n, o[2])
    <3>1. Len(o) = 2
      BY <1>2 DEF Fits, Builder!Arity, Builder!Binary
    <3>2. 1 \in 1 .. Len(o) /\ 2 \in 1 .. Len(o)
      BY <3>1
    <3> QED BY <1>2, <3>2 DEF Fits
  <2> DEFINE v == Compute(inst.opcode, BitwiseLogic, Read(mc, o[1]), Read(mc, o[2]))
  <2>2. v \in Int32
    <3>1. Read(mc, o[1]) \in Int32 /\ Read(mc, o[2]) \in Int32 /\ FromSource(inst.opcode)
      BY <2>1, UsableReads DEF Fits
    <3> QED BY <1>2, <3>1, ComputeInt32 DEF OnTruths
  <2>3. Gives(mc, t, v)
    BY <1>1, <1>2, <2>2, ExecuteValue
  <2> HIDE DEF v
  <2>4. inst.opcode \notin {"ALLOC", "STORE"}
    BY <1>2 DEF Builder!Binary, Builder!ValueOps
  <2>5. \A p : (AllocIn(f, n + 1, p) => AllocIn(f, n, p)) /\ (StoreIn(f, n + 1, p) => StoreIn(f, n, p))
    BY <2>4, NextUses
  <2>6. ValuesFit(f, n + 1, t)
    <3>1. v \in Int /\ t.vals = Append(mc.vals, v)
            /\ (f.inst_map[n].opcode \in ValueOps \ {"ALLOC"} => v \in Int32)
      BY <1>1, <2>2, <2>3 DEF Gives
    <3>2. HasNext(f, n, mc, t, v)
      BY <3>1, NextResult
    <3> QED BY <3>2 DEF HasNext
  <2> QED BY <2>3, <2>5, <2>6 DEF Gives, MachineFits
<1>3. CASE inst.opcode = "LOAD"
  <2> DEFINE v == Read(mc, o[1])
  <2>1. v = mc.mem[o[1].val] /\ StoreIn(f, n, o[1].val)
    BY <1>3 DEF Fits, Read
  <2>2. v \in Int32
    BY <2>1 DEF MachineFits
  <2>3. Gives(mc, t, v)
    BY <1>1, <1>3, <2>2, ExecuteValue
  <2> HIDE DEF v
  <2>5. \A p : (AllocIn(f, n + 1, p) => AllocIn(f, n, p)) /\ (StoreIn(f, n + 1, p) => StoreIn(f, n, p))
    BY <1>3, NextUses
  <2>6. ValuesFit(f, n + 1, t)
    <3>1. v \in Int /\ t.vals = Append(mc.vals, v)
            /\ (f.inst_map[n].opcode \in ValueOps \ {"ALLOC"} => v \in Int32)
      BY <1>1, <2>2, <2>3 DEF Gives
    <3>2. HasNext(f, n, mc, t, v)
      BY <3>1, NextResult
    <3> QED BY <3>2 DEF HasNext
  <2> QED BY <2>3, <2>5, <2>6 DEF Gives, MachineFits
<1>4. CASE inst.opcode = "ALLOC"
  <2> DEFINE q == inst.ir_obj.val
  <2>1. /\ t \in Machines /\ t.vals = Append(mc.vals, Undef) /\ t.ret = mc.ret
        /\ DOMAIN t.mem = DOMAIN mc.mem \cup {q}
        /\ \A p \in DOMAIN t.mem : t.mem[p] = IF p = q THEN Undef ELSE mc.mem[p]
    BY <1>1, <1>4, ExecuteAlloc
  <2>2. \A p : /\ AllocIn(f, n + 1, p) => AllocIn(f, n, p) \/ q = p
               /\ StoreIn(f, n + 1, p) => StoreIn(f, n, p)
    BY <1>4, NextUses
  <2>3. ~AllocIn(f, n, q)
    BY <1>4
  <2> HIDE DEF q
  <2>4. ValuesFit(f, n + 1, t)
    <3>1. Undef \in Int /\ t.vals = Append(mc.vals, Undef)
            /\ (f.inst_map[n].opcode \in ValueOps \ {"ALLOC"} => Undef \in Int32)
      BY <1>1, <1>4, <2>1
    <3>2. HasNext(f, n, mc, t, Undef)
      BY <3>1, NextResult
    <3> QED BY <3>2 DEF HasNext
  <2>5. ASSUME NEW p, AllocIn(f, n + 1, p) PROVE p \in DOMAIN t.mem
    BY <2>1, <2>2, <2>5 DEF MachineFits
  <2>6. ASSUME NEW p, StoreIn(f, n + 1, p) PROVE t.mem[p] \in Int32
    <3>1. StoreIn(f, n, p) /\ AllocIn(f, n, p)
      BY <2>2, <2>6
    <3>2. p # q /\ p \in DOMAIN t.mem /\ mc.mem[p] \in Int32
      BY <2>1, <2>3, <3>1 DEF MachineFits
    <3> QED BY <2>1, <3>2
  <2> QED BY <2>1, <2>4, <2>5, <2>6 DEF MachineFits
<1>5. CASE inst.opcode = "STORE"
  <2> DEFINE q == o[2].val
             v == Read(mc, o[1])
  <2>1. v \in Int32
    BY <1>5, UsableReads DEF Fits
  <2>2. /\ t \in Machines /\ t.vals = Append(mc.vals, Undef) /\ t.ret = mc.ret
        /\ DOMAIN t.mem = DOMAIN mc.mem
        /\ \A p \in DOMAIN mc.mem : t.mem[p] = IF p = q THEN v ELSE mc.mem[p]
    BY <1>1, <1>5, <2>1, ExecuteStore
  <2>3. \A p : /\ AllocIn(f, n + 1, p) => AllocIn(f, n, p)
               /\ StoreIn(f, n + 1, p) => StoreIn(f, n, p) \/ p = q
    BY <1>5, NextUses
  <2>4. AllocIn(f, n, q)
    BY <1>5 DEF Fits
  <2> HIDE DEF q, v
  <2>5. ValuesFit(f, n + 1, t)
    <3>1. inst.opcode \notin ValueOps
      BY <1>5 DEF ValueOps
    <3>2. Undef \in Int /\ t.vals = Append(mc.vals, Undef)
            /\ (f.inst_map[n].opcode \in ValueOps \ {"ALLOC"} => Undef \in Int32)
      BY <1>1, <2>2, <3>1
    <3>3. HasNext(f, n, mc, t, Undef)
      BY <3>2, NextResult
    <3> QED BY <3>3 DEF HasNext
  <2>6. ASSUME NEW p, StoreIn(f, n + 1, p) PROVE t.mem[p] \in Int32
    <3>1. p \in DOMAIN mc.mem
      BY <2>3, <2>4, <2>6 DEF MachineFits
    <3>2. CASE p = q
      BY <2>1, <2>2, <3>1, <3>2
    <3>3. CASE p # q
      BY <2>2, <2>3, <2>6, <3>1, <3>3 DEF MachineFits
    <3> QED BY <3>2, <3>3
  <2> QED BY <2>2, <2>3, <2>5, <2>6 DEF MachineFits
<1>6. CASE inst.opcode = "RET"
  <2> DEFINE v == Read(mc, o[1])
  <2>1. v \in Int32
    <3>1. Len(o) = 1
      BY <1>6 DEF Fits, Builder!Arity, Builder!Binary, Builder!ValueOps
    <3>2. Usable(f, n, o[1])
      BY <1>6, <3>1 DEF Fits
    <3> QED BY <3>2, UsableReads
  <2>2. t \in Machines /\ t.vals = Append(mc.vals, Undef) /\ t.mem = mc.mem
    <3>1. v \in Int /\ v = Read(mc, inst.operands[1])
      BY <1>1, <2>1
    <3> HIDE DEF v
    <3> QED BY <1>1, <1>6, <3>1, ExecuteRet
  <2> HIDE DEF v
  <2>3. \A p : (AllocIn(f, n + 1, p) => AllocIn(f, n, p)) /\ (StoreIn(f, n + 1, p) => StoreIn(f, n, p))
    BY <1>6, NextUses
  <2>4. ValuesFit(f, n + 1, t)
    <3>1. inst.opcode \notin ValueOps
      BY <1>6 DEF ValueOps
    <3>2. Undef \in Int /\ t.vals = Append(mc.vals, Undef)
            /\ (f.inst_map[n].opcode \in ValueOps \ {"ALLOC"} => Undef \in Int32)
      BY <1>1, <2>2, <3>1
    <3>3. HasNext(f, n, mc, t, Undef)
      BY <3>2, NextResult
    <3> QED BY <3>3 DEF HasNext
  <2> QED BY <2>2, <2>3, <2>4 DEF MachineFits
<1> QED BY <1>2, <1>3, <1>4, <1>5, <1>6
     DEF Fits, KoopaOpCode, ValueOps, Builder!Binary, Builder!ValueOps

-----------------------------------------------------------------------------
(* The frame mirrors the Koopa machine.                                    *)

\* Slots belong to results and pointers of the first n instructions.
NameOf(j) == [kind |-> "InstId", val |-> j]

Named(f, n, map) ==
  \A m \in DOMAIN map :
    \/ \E j \in 0 .. n - 1 : m = NameOf(j) /\ f.inst_map[j].opcode \in ValueOps \ {"ALLOC"}
    \/ \E p : m = PointerOperand(p) /\ AllocIn(f, n, p)

\* The core c has in each slot what the machine mc has for its name.
Mirrors(f, map, c, mc) ==
  \A m \in DOMAIN map : Peek(c, map[m] - Gen!FrameSize(f)) = Read(mc, m)

\* The lines of an operation mean what its opcode means.
LEMMA ComputedIs ==
  ASSUME NEW op \in Builder!Binary, FromSource(op), op \notin {"LE", "GE"},
         NEW l \in Int32, NEW r \in Int32
  PROVE  Computed(op, l, r) = Compute(op, FALSE, l, r)
<1>1. CASE op = "EQ"
  <2>1. Computed(op, l, r) = Truth(BitXor(l, r) = 0) /\ Compute(op, FALSE, l, r) = Truth(l = r)
    BY <1>1 DEF Computed, Compute
  <2> QED BY <2>1, XorTells DEF Truth
<1>2. CASE op = "NE"
  <2>1. Computed(op, l, r) = Truth(BitXor(l, r) # 0) /\ Compute(op, FALSE, l, r) = Truth(l # r)
    BY <1>2 DEF Computed, Compute
  <2> QED BY <2>1, XorTells DEF Truth
<1>3. CASE op = "AND"
  <2>1. /\ Computed(op, l, r) = BitAnd(Truth(l # 0), Truth(r # 0))
        /\ Compute(op, FALSE, l, r) = Truth(l # 0 /\ r # 0)
    BY <1>3 DEF Computed, Compute
  <2>2. \A a, b \in BOOLEAN : BitAnd(Truth(a), Truth(b)) = Truth(a /\ b)
    BY LogicOfTruths
  <2>3. (l # 0) \in BOOLEAN /\ (r # 0) \in BOOLEAN
    OBVIOUS
  <2>4. BitAnd(Truth(l # 0), Truth(r # 0)) = Truth(l # 0 /\ r # 0)
    BY <2>2, <2>3, Zenon
  <2> QED BY <2>1, <2>4
<1>4. CASE op = "OR"
  <2>1. /\ Computed(op, l, r) = BitOr(Truth(l # 0), Truth(r # 0))
        /\ Compute(op, FALSE, l, r) = Truth(l # 0 \/ r # 0)
    BY <1>4 DEF Computed, Compute
  <2>2. \A a, b \in BOOLEAN : BitOr(Truth(a), Truth(b)) = Truth(a \/ b)
    BY LogicOfTruths
  <2>3. (l # 0) \in BOOLEAN /\ (r # 0) \in BOOLEAN
    OBVIOUS
  <2>4. BitOr(Truth(l # 0), Truth(r # 0)) = Truth(l # 0 \/ r # 0)
    BY <2>2, <2>3, Zenon
  <2> QED BY <2>1, <2>4
<1>5. CASE op \in {"ADD", "SUB", "MUL", "DIV", "MOD", "LT", "GT"}
  <2>1. Computed(op, l, r) = Alu(Gen!Mnemonic[Gen!RVOpCode[op]], l, r)
    BY <1>5 DEF Computed
  <2>2. Alu(Gen!Mnemonic[Gen!RVOpCode[op]], l, r) = Compute(op, FALSE, l, r)
    BY <1>5 DEF Alu, Compute, Gen!Mnemonic, Gen!RVOpCode
  <2> QED BY <2>1, <2>2
<1> QED BY <1>1, <1>2, <1>3, <1>4, <1>5
     DEF FromSource, KoopaOpCode, ValueOps, Builder!Binary, Builder!ValueOps

\* What the core reads for an operand is what the machine reads.
LEMMA SlotReads ==
  ASSUME NEW f, NEW n \in Nat, NEW map, frames = <<Frame(f, n, map)>>, SlotsFit(f, n, map),
         Gen!FrameSize(f) \in Nat, cpu.x[SP] = -Gen!FrameSize(f), NEW o \in DOMAIN map,
         NEW mc, Mirrors(f, map, cpu, mc)
  PROVE  Peek(cpu, SlotOf(o)) = Read(mc, o)
<1>1. SlotOf(o) = map[o] - Gen!FrameSize(f)
  BY SlotAddress
<1> QED BY <1>1 DEF Mirrors

LEMMA OperandReads ==
  ASSUME NEW f, NEW n \in Nat, NEW map, frames = <<Frame(f, n, map)>>, SlotsFit(f, n, map),
         Gen!FrameSize(f) \in Nat, cpu.x[SP] = -Gen!FrameSize(f),
         NEW mc, Mirrors(f, map, cpu, mc), NEW o, NEW size, Readable(o, size)
  PROVE  Denoted(o) = Read(mc, o)
<1>1. CASE o.kind = "Const"
  BY <1>1 DEF Denoted, Read
<1>2. CASE o.kind = "InstId" /\ Placed(o, size)
  <2>1. o \in DOMAIN map
    BY <1>2, FrameFacts DEF Placed
  <2>2. Peek(cpu, SlotOf(o)) = Read(mc, o)
    BY <2>1, SlotReads
  <2> QED BY <1>2, <2>2 DEF Denoted
<1> QED BY <1>1, <1>2 DEF Readable

\* What has a name keeps it, and what it had stays unless it is stored to.
LEMMA NamedGrows ==
  ASSUME NEW f, NEW n \in Nat, NEW map, Named(f, n, map)
  PROVE  Named(f, n + 1, map)
<1> DEFINE k == n + 1
<1>1. 0 .. n - 1 \subseteq 0 .. k - 1
  OBVIOUS
<1> HIDE DEF k
<1>2. \A p : AllocIn(f, n, p) => AllocIn(f, k, p)
  BY <1>1 DEF AllocIn
<1>3. Named(f, k, map)
  BY <1>1, <1>2 DEF Named
<1> QED BY <1>3 DEF k

LEMMA NamedMore ==
  ASSUME NEW f, NEW n \in Nat, NEW map, Named(f, n, map), NEW inst, inst = f.inst_map[n],
         NEW name, NEW slot, NEW more, WithSlot(more, map, name, slot),
         \/ name = NameOf(n) /\ inst.opcode \in ValueOps \ {"ALLOC"}
         \/ inst.opcode = "ALLOC" /\ name = PointerOperand(inst.ir_obj.val)
  PROVE  Named(f, n + 1, more)
<1>1. Named(f, n + 1, map)
  BY NamedGrows
<1>2. n \in 0 .. n + 1 - 1
  OBVIOUS
<1>3. \/ \E j \in 0 .. n + 1 - 1 :
           name = NameOf(j) /\ f.inst_map[j].opcode \in ValueOps \ {"ALLOC"}
      \/ \E p : name = PointerOperand(p) /\ AllocIn(f, n + 1, p)
  <2>1. CASE name = NameOf(n) /\ inst.opcode \in ValueOps \ {"ALLOC"}
    BY <1>2, <2>1
  <2>2. CASE inst.opcode = "ALLOC" /\ name = PointerOperand(inst.ir_obj.val)
    <3>1. AllocIn(f, n + 1, inst.ir_obj.val)
      BY <2>2, NextUses
    <3> QED BY <2>2, <3>1
  <2> QED BY <2>1, <2>2
<1> QED BY <1>1, <1>3 DEF Named, WithSlot

LEMMA OldReads ==
  ASSUME NEW f, NEW n \in Nat, NEW map, Named(f, n, map), NEW mc, NEW t,
         OlderKept(n, mc, t), NEW m \in DOMAIN map,
         \A p : AllocIn(f, n, p) /\ m = PointerOperand(p) => t.mem[p] = mc.mem[p]
  PROVE  Read(t, m) = Read(mc, m)
<1>1. CASE \E j \in 0 .. n - 1 : m = NameOf(j)
  <2>1. PICK j \in 0 .. n - 1 : m = NameOf(j)
    BY <1>1
  <2>2. m.kind = "InstId" /\ m.val = j
    BY <2>1 DEF NameOf
  <2> QED BY <2>2 DEF Read, OlderKept
<1>2. CASE \E p : m = PointerOperand(p) /\ AllocIn(f, n, p)
  <2>1. PICK p : m = PointerOperand(p) /\ AllocIn(f, n, p)
    BY <1>2
  <2>2. m.kind = "Pointer" /\ m.val = p
    BY <2>1 DEF PointerOperand
  <2> QED BY <2>1, <2>2 DEF Read
<1> QED BY <1>1, <1>2 DEF Named

\* The slots that were there, after something has been stored at a.
LEMMA OldMirrored ==
  ASSUME NEW f, NEW map, NEW mc, Mirrors(f, map, cpu, mc), NEW a, NEW d, NEW v, Stores(d, a, v),
         NEW m \in DOMAIN map, map[m] - Gen!FrameSize(f) # a, NEW t, Read(t, m) = Read(mc, m)
  PROVE  Peek(d, map[m] - Gen!FrameSize(f)) = Read(t, m)
  BY DEF Mirrors, Stores

\* Another slot is another word.
LEMMA SlotsApart ==
  ASSUME NEW f, NEW n \in Nat, NEW map, SlotsFit(f, n, map), Gen!FrameSize(f) \in Nat,
         NEW k, k = Cardinality(ValuesUpTo(f, n)), k \in Nat, NEW l \in DOMAIN map
  PROVE  /\ map[l] \in Nat /\ map[l] - Gen!FrameSize(f) # 4 * k - Gen!FrameSize(f)
         /\ \A m \in DOMAIN map :
              m # l => map[m] - Gen!FrameSize(f) # map[l] - Gen!FrameSize(f)
<1> DEFINE size == Gen!FrameSize(f)
<1>1. \A m \in DOMAIN map : map[m] \in Nat /\ map[m] < 4 * k
  BY DEF SlotsFit
<1>2. \A m \in DOMAIN map : m # l => map[m] # map[l]
  BY DEF SlotsFit
<1>3. size \in Int /\ map[l] \in Int /\ 4 * k \in Int /\ map[l] # 4 * k
  BY <1>1
<1>4. map[l] - size # 4 * k - size
  <2> DEFINE x == map[l]
             y == 4 * k
  <2>1. x \in Int /\ y \in Int /\ size \in Int /\ x # y
    BY <1>3
  <2> HIDE DEF x, y, size
  <2>2. x - size # y - size
    BY <2>1
  <2> QED BY <2>2 DEF x, y
<1>5. ASSUME NEW m \in DOMAIN map, m # l PROVE map[m] - size # map[l] - size
  <2> DEFINE x == map[m]
             y == map[l]
  <2>1. x \in Int /\ y \in Int /\ size \in Int /\ x # y
    BY <1>1, <1>2, <1>3, <1>5
  <2> HIDE DEF x, y, size
  <2>2. x - size # y - size
    BY <2>1
  <2> QED BY <2>2 DEF x, y
<1> QED BY <1>1, <1>4, <1>5

\* The result of an operation or a load, and an allocated word.
LEMMA ResultMirrored ==
  ASSUME NEW f, NEW n \in Nat, NEW map, SlotsFit(f, n, map), Gen!FrameSize(f) \in Nat,
         NEW mc, Mirrors(f, map, cpu, mc), NEW k, k = Cardinality(ValuesUpTo(f, n)), k \in Nat,
         NEW name, NEW more, WithSlot(more, map, name, 4 * k), NEW t,
         \A m \in DOMAIN map : m # name => Read(t, m) = Read(mc, m),
         NEW d, \/ Stores(d, 4 * k - Gen!FrameSize(f), Read(t, name))
                \/ d = cpu /\ Peek(cpu, 4 * k - Gen!FrameSize(f)) = Read(t, name)
  PROVE  Mirrors(f, more, d, t)
<1> DEFINE size == Gen!FrameSize(f)
           a    == 4 * k - size
<1>1. ASSUME NEW m \in DOMAIN more PROVE Peek(d, more[m] - size) = Read(t, m)
  <2>1. CASE m = name
    <3>1. more[m] - size = a
      BY <2>1 DEF WithSlot
    <3> HIDE DEF a
    <3>2. Peek(d, a) = Read(t, name)
      BY DEF Stores, a
    <3> QED BY <2>1, <3>1, <3>2
  <2>2. CASE m # name
    <3>1. m \in DOMAIN map /\ more[m] = map[m] /\ Read(t, m) = Read(mc, m)
      BY <2>2 DEF WithSlot
    <3>2. map[m] - size # a
      BY <3>1, SlotsApart
    <3>3. CASE Stores(d, a, Read(t, name))
      <4> HIDE DEF a
      <4>1. Peek(d, map[m] - size) = Read(t, m)
        BY <3>1, <3>2, <3>3, OldMirrored
      <4> QED BY <3>1, <4>1
    <3>4. CASE d = cpu
      BY <3>1, <3>4 DEF Mirrors
    <3> QED BY <3>3, <3>4
  <2> QED BY <2>1, <2>2
<1> QED BY <1>1 DEF Mirrors

\* What is stored to a pointer is in its slot.
LEMMA StoreMirrored ==
  ASSUME NEW f, NEW n \in Nat, NEW map, SlotsFit(f, n, map), Gen!FrameSize(f) \in Nat,
         NEW mc, Mirrors(f, map, cpu, mc), NEW o \in DOMAIN map, NEW t,
         \A m \in DOMAIN map : m # o => Read(t, m) = Read(mc, m),
         NEW d, Stores(d, map[o] - Gen!FrameSize(f), Read(t, o))
  PROVE  Mirrors(f, map, d, t)
<1> DEFINE size == Gen!FrameSize(f)
           a    == map[o] - size
<1>1. ASSUME NEW m \in DOMAIN map PROVE Peek(d, map[m] - size) = Read(t, m)
  <2>1. CASE m = o
    BY <2>1 DEF Stores
  <2>2. CASE m # o
    <3>1. map[m] - size # a
      <4>1. Cardinality(ValuesUpTo(f, n)) \in Nat
        BY ValuesCounted
      <4> QED BY <2>2, <4>1, SlotsApart
    <3>2. Stores(d, a, Read(t, o)) /\ Read(t, m) = Read(mc, m)
      BY <2>2
    <3> HIDE DEF a
    <3> QED BY <3>1, <3>2, OldMirrored
  <2> QED BY <2>1, <2>2
<1> QED BY <1>1 DEF Mirrors

\* The frame after instruction n: what has a value has a slot of its own name.
Grows(f, n, map, more) ==
  IF f.inst_map[n].typ = "Int"
  THEN WithSlot(more, map, FromParseResult(f.inst_map[n].ir_obj), 4 * Cardinality(ValuesUpTo(f, n)))
  ELSE more = map

LEMMA ResultName ==
  ASSUME NEW f, NEW n \in Nat, NEW inst, inst = f.inst_map[n], Fits(f, n, inst),
         NEW name, name = FromParseResult(inst.ir_obj)
  PROVE  /\ inst.opcode \in Builder!Binary \cup {"LOAD"} =>
              name = NameOf(n) /\ inst.typ = "Int" /\ inst.opcode \in ValueOps \ {"ALLOC"}
         /\ inst.opcode = "ALLOC" => name = PointerOperand(inst.ir_obj.val) /\ inst.typ = "Int"
         /\ inst.opcode \in {"STORE", "RET"} => inst.typ = "Void"
<1>1. CASE inst.opcode \in Builder!Binary \cup {"LOAD"}
  <2>1. inst.ir_obj = InstIdObj(n) /\ inst.opcode \in ValueOps \ {"ALLOC"} /\ inst.typ = "Int"
    BY <1>1 DEF Fits, Builder!Binary, Builder!ValueOps, ValueOps
  <2>2. name = NameOf(n)
    BY <2>1 DEF FromParseResult, InstIdObj, Obj, NameOf
  <2>3. inst.opcode # "ALLOC" /\ inst.opcode \notin {"STORE", "RET"}
    BY <2>1 DEF ValueOps
  <2> QED BY <2>1, <2>2, <2>3
<1>2. CASE inst.opcode = "ALLOC"
  <2>1. inst.ir_obj.kind = "Pointer" /\ inst.typ = "Int"
    BY <1>2 DEF Fits, ValueOps
  <2>2. name = PointerOperand(inst.ir_obj.val)
    BY <2>1 DEF FromParseResult, PointerOperand
  <2> QED BY <1>2, <2>1, <2>2 DEF Builder!Binary
<1>3. CASE inst.opcode \in {"STORE", "RET"}
  BY <1>3 DEF Fits, ValueOps, Builder!Binary, Builder!ValueOps
<1> QED BY <1>1, <1>2, <1>3

LEMMA LowerGrows ==
  ASSUME NEW f, NEW n, NEW map, AtInst(f, n, map), Named(f, n, map)
  PROVE  \E more : /\ frames' = <<Frame(f, n + 1, more)>> /\ Grows(f, n, map, more)
                   /\ Named(f, n + 1, more)
<1> DEFINE inst == f.inst_map[n]
           name == FromParseResult(inst.ir_obj)
           slot == 4 * Cardinality(ValuesUpTo(f, n))
<1>1. /\ n \in Nat /\ f \in FuncSet /\ Gen!Data = inst /\ Fits(f, n, inst)
      /\ frames = <<Frame(f, n, map)>> /\ SlotsFit(f, n, map)
      /\ frames' = IF inst.typ = "Int" THEN Gen!AllocVar(frames, name, inst.typ) ELSE frames
  BY DEF AtInst, Lowered
<1>2. CASE inst.typ = "Int"
  <2>1. frames' = Gen!AllocVar(frames, name, "Int")
    BY <1>1, <1>2
  <2>2. PICK more : frames' = <<Frame(f, n + 1, more)>> /\ WithSlot(more, map, name, slot)
    BY <1>1, <1>2, <2>1, AllocFramed
  <2>3. \/ name = NameOf(n) /\ inst.opcode \in ValueOps \ {"ALLOC"}
        \/ inst.opcode = "ALLOC" /\ name = PointerOperand(inst.ir_obj.val)
    <3>1. inst.opcode \in Builder!Binary \cup {"LOAD"} \/ inst.opcode = "ALLOC"
      BY <1>1, <1>2 DEF Fits, ValueOps, Builder!Binary, Builder!ValueOps
    <3> QED BY <1>1, <3>1, ResultName
  <2> HIDE DEF name, slot
  <2>4. Named(f, n + 1, more)
    BY <1>1, <2>2, <2>3, NamedMore
  <2>5. Grows(f, n, map, more)
    BY <1>2, <2>2 DEF Grows, name, slot
  <2> QED BY <2>2, <2>4, <2>5
<1>3. CASE inst.typ # "Int"
  <2>1. frames' = <<Frame(f, n + 1, map)>>
    BY <1>1, <1>3, KeptFramed
  <2>2. Named(f, n + 1, map)
    BY <1>1, NamedGrows
  <2>3. Grows(f, n, map, map)
    BY <1>3 DEF Grows
  <2> QED BY <2>1, <2>2, <2>3
<1> QED BY <1>2, <1>3


\* What the machine reads after a step: a result under its own name, and
\* everything else as before.
ReadsOn(map, mc, t, changed) ==
  t.ret = mc.ret /\ \A m \in DOMAIN map : m # changed => Read(t, m) = Read(mc, m)

LEMMA GivesReads ==
  ASSUME NEW f, NEW n \in Nat, NEW map, Named(f, n, map), NEW mc, MachineFits(f, n, mc),
         NEW v \in Int32, NEW t, Gives(mc, t, v)
  PROVE  ReadsOn(map, mc, t, NameOf(n)) /\ Read(t, NameOf(n)) = v
<1>1. v \in Int /\ t.vals = Append(mc.vals, v) /\ t.mem = mc.mem /\ t.ret = mc.ret
  BY UndefFacts DEF Gives
<1>2. t.vals[n + 1] = v /\ OlderKept(n, mc, t)
  <2> DEFINE w == v
  <2>1. w \in Int /\ t.vals = Append(mc.vals, w)
          /\ (f.inst_map[n].opcode \in ValueOps \ {"ALLOC"} => w \in Int32)
    BY <1>1
  <2> HIDE DEF w
  <2>2. HasNext(f, n, mc, t, w)
    BY <2>1, NextResult
  <2> QED BY <2>2 DEF w, HasNext
<1>3. NameOf(n).kind = "InstId" /\ NameOf(n).val = n
  BY DEF NameOf
<1>4. Read(t, NameOf(n)) = v
  BY <1>2, <1>3 DEF Read
<1>5. ASSUME NEW m \in DOMAIN map PROVE Read(t, m) = Read(mc, m)
  <2>1. \A p : AllocIn(f, n, p) /\ m = PointerOperand(p) => t.mem[p] = mc.mem[p]
    BY <1>1
  <2> QED BY <1>2, <2>1, OldReads
<1> QED BY <1>1, <1>4, <1>5 DEF ReadsOn

LEMMA AllocReads ==
  ASSUME NEW f, NEW n \in Nat, NEW map, Named(f, n, map), NEW mc, MachineFits(f, n, mc),
         NEW inst, inst = f.inst_map[n], inst.opcode = "ALLOC", NEW p, p = inst.ir_obj.val,
         p \in Nat, ~AllocIn(f, n, p), NEW t, t = Execute(mc, inst, BitwiseLogic)
  PROVE  ReadsOn(map, mc, t, PointerOperand(p)) /\ Read(t, PointerOperand(p)) = Undef
<1>1. /\ mc \in Machines /\ Undef \in Int /\ Undef \notin Int32
      /\ t.vals = Append(mc.vals, Undef) /\ t.ret = mc.ret
      /\ DOMAIN t.mem = DOMAIN mc.mem \cup {p}
      /\ \A q \in DOMAIN t.mem : t.mem[q] = IF q = p THEN Undef ELSE mc.mem[q]
  BY ExecuteAlloc, UndefFacts DEF MachineFits
<1>2. OlderKept(n, mc, t)
  <2>1. Undef \in Int /\ t.vals = Append(mc.vals, Undef)
          /\ (f.inst_map[n].opcode \in ValueOps \ {"ALLOC"} => Undef \in Int32)
    BY <1>1
  <2>2. HasNext(f, n, mc, t, Undef)
    BY <2>1, NextResult
  <2> QED BY <2>2 DEF HasNext
<1>3. PointerOperand(p).kind = "Pointer" /\ PointerOperand(p).val = p
  BY DEF PointerOperand
<1>4. Read(t, PointerOperand(p)) = Undef
  BY <1>1, <1>3 DEF Read
<1>5. ASSUME NEW m \in DOMAIN map PROVE Read(t, m) = Read(mc, m)
  <2>1. ASSUME NEW q, AllocIn(f, n, q) PROVE t.mem[q] = mc.mem[q]
    <3>1. q # p /\ q \in DOMAIN mc.mem
      BY <2>1 DEF MachineFits
    <3> QED BY <1>1, <3>1
  <2> QED BY <1>2, <2>1, OldReads
<1> QED BY <1>1, <1>4, <1>5 DEF ReadsOn

LEMMA StoreReads ==
  ASSUME NEW f, NEW n \in Nat, NEW map, Named(f, n, map), NEW mc, MachineFits(f, n, mc),
         NEW inst, inst = f.inst_map[n], inst.opcode = "STORE", Fits(f, n, inst),
         NEW o, o = inst.operands[2], o \in Operand,
         NEW t, t = Execute(mc, inst, BitwiseLogic)
  PROVE  ReadsOn(map, mc, t, o) /\ Read(t, o) = Read(mc, inst.operands[1])
<1> DEFINE v == Read(mc, inst.operands[1])
           p == o.val
<1>1. v \in Int32 /\ AllocIn(f, n, p) /\ o.kind = "Pointer" /\ inst.opcode \notin ValueOps
  BY UsableReads DEF Fits, ValueOps
<1>2. /\ mc \in Machines /\ v \in Int /\ v = Read(mc, inst.operands[1])
      /\ p = inst.operands[2].val /\ Undef \in Int
  BY <1>1, UndefFacts DEF MachineFits
<1> HIDE DEF v, p
<1>3. /\ t.vals = Append(mc.vals, Undef) /\ t.ret = mc.ret /\ DOMAIN t.mem = DOMAIN mc.mem
      /\ \A q \in DOMAIN mc.mem : t.mem[q] = IF q = p THEN v ELSE mc.mem[q]
  BY <1>2, ExecuteStore
<1>4. OlderKept(n, mc, t)
  <2>1. Undef \in Int /\ t.vals = Append(mc.vals, Undef)
          /\ (f.inst_map[n].opcode \in ValueOps \ {"ALLOC"} => Undef \in Int32)
    BY <1>1, <1>2, <1>3
  <2>2. HasNext(f, n, mc, t, Undef)
    BY <2>1, NextResult
  <2> QED BY <2>2 DEF HasNext
<1>5. p \in DOMAIN mc.mem
  BY <1>1 DEF MachineFits
<1>6. Read(t, o) = v
  BY <1>1, <1>3, <1>5 DEF Read, p
<1>7. ASSUME NEW m \in DOMAIN map, m # o PROVE Read(t, m) = Read(mc, m)
  <2>1. o = PointerOperand(p)
    BY <1>1 DEF Operand, PointerOperand, p
  <2>2. ASSUME NEW q, AllocIn(f, n, q), m = PointerOperand(q) PROVE t.mem[q] = mc.mem[q]
    <3>1. q # p /\ q \in DOMAIN mc.mem
      BY <1>7, <2>1, <2>2 DEF MachineFits
    <3> QED BY <1>3, <3>1
  <2> QED BY <1>4, <2>2, OldReads
<1> QED BY <1>3, <1>6, <1>7 DEF ReadsOn, v

\* The first RET decides what is returned.
LEMMA RetReads ==
  ASSUME NEW f, NEW n \in Nat, NEW mc, MachineFits(f, n, mc),
         NEW inst, inst = f.inst_map[n], inst.opcode = "RET", Fits(f, n, inst),
         NEW t, t = Execute(mc, inst, BitwiseLogic)
  PROVE  /\ mc.ret # Undef => t.ret = mc.ret
         /\ mc.ret = Undef => t.ret = Read(mc, inst.operands[1]) /\ t.ret # Undef
<1> DEFINE v == Read(mc, inst.operands[1])
<1>1. v \in Int32
  <2>1. Len(inst.operands) = 1
    BY DEF Fits, Builder!Arity, Builder!Binary, Builder!ValueOps
  <2>2. 1 \in 1 .. Len(inst.operands)
    BY <2>1
  <2>3. Usable(f, n, inst.operands[1])
    BY <2>2 DEF Fits
  <2> QED BY <2>3, UsableReads
<1>2. mc \in Machines /\ v \in Int /\ v # Undef /\ v = Read(mc, inst.operands[1])
  BY <1>1, UndefFacts DEF MachineFits
<1> HIDE DEF v
<1>3. t.ret = IF mc.ret = Undef THEN v ELSE mc.ret
  BY <1>2, ExecuteRet
<1> QED BY <1>2, <1>3

\* Instruction n is lowered while the function runs, mc beside the core.
Standing(f, n, map, mc) ==
  /\ AtInst(f, n, map) /\ CpuIn(cpu, f, n) /\ ~cpu.halted
  /\ Named(f, n, map) /\ MachineFits(f, n, mc) /\ Ran(Gen!FrameSize(f))

LEMMA StandingFacts ==
  ASSUME NEW f, NEW n, NEW map, NEW mc, Standing(f, n, map, mc),
         NEW inst, inst = f.inst_map[n], NEW size, size = Gen!FrameSize(f)
  PROVE  /\ n \in Nat /\ size \in Nat /\ size \in Int /\ Gen!GetSize(frames) = size
         /\ Gen!Data = inst /\ frames = <<Frame(f, n, map)>> /\ SlotsFit(f, n, map)
         /\ Ready(size) /\ Fits(f, n, inst) /\ inst \in InstData /\ cpu.x[SP] = -size
         /\ Going(size) /\ inst.typ = (IF inst.opcode \in ValueOps THEN "Int" ELSE "Void")
<1>1. /\ n \in Nat /\ size \in Nat /\ size \in Int /\ Gen!GetSize(frames) = size
      /\ Gen!Data = inst /\ frames = <<Frame(f, n, map)>> /\ SlotsFit(f, n, map)
      /\ Ready(size) /\ Fits(f, n, inst) /\ inst \in InstData
  BY DEF Standing, AtInst
<1>2. cpu.x[SP] = -size
  BY DEF Standing, CpuIn
<1>3. Going(size)
  BY <1>1 DEF Going, Standing, AtInst, CpuIn
<1>4. inst.typ = (IF inst.opcode \in ValueOps THEN "Int" ELSE "Void")
  BY <1>1 DEF Fits
<1> QED BY <1>1, <1>2, <1>3, <1>4

\* What is denoted is what the machine reads.
LEMMA DenotedReads ==
  ASSUME NEW f, NEW n, NEW map, NEW mc, Standing(f, n, map, mc),
         Mirrors(f, map, cpu, mc),
         NEW o, Readable(o, Gen!FrameSize(f))
  PROVE  Denoted(o) = Read(mc, o)
<1> DEFINE size == Gen!FrameSize(f)
<1>1. /\ n \in Nat /\ size \in Nat /\ frames = <<Frame(f, n, map)>> /\ SlotsFit(f, n, map)
      /\ cpu.x[SP] = -size
  BY StandingFacts
<1>2. Mirrors(f, map, cpu, mc)
  OBVIOUS
<1> QED BY <1>1, <1>2, OperandReads

\* The result of an operation or a load is in its slot.
LEMMA ResultSteps ==
  ASSUME NEW f, NEW n, NEW map, NEW mc, Standing(f, n, map, mc),
         Mirrors(f, map, cpu, mc),
         f.inst_map[n].opcode \in Builder!Binary \cup {"LOAD"},
         NEW v \in Int32, Result(v), NEW t, Gives(mc, t, v), NEW more, Grows(f, n, map, more)
  PROVE  Mirrors(f, more, Run(cpu, NewCode), t) /\ t.ret = mc.ret
<1> DEFINE inst == f.inst_map[n]
           size == Gen!FrameSize(f)
           k    == Cardinality(ValuesUpTo(f, n))
           d    == Run(cpu, NewCode)
           name == NameOf(n)
<1>1. /\ n \in Nat /\ size \in Nat /\ frames = <<Frame(f, n, map)>> /\ SlotsFit(f, n, map)
      /\ Fits(f, n, inst) /\ cpu.x[SP] = -size
  BY StandingFacts
<1>2. FromParseResult(inst.ir_obj) = name /\ inst.typ = "Int"
  BY <1>1, ResultName
<1>3. WithSlot(more, map, name, 4 * k)
  BY <1>2 DEF Grows
<1>4. cpu.x[SP] + Gen!VarOffset(frames) = 4 * k - size /\ k \in Nat
  BY <1>1, <1>2, NextAddress
<1>5. ReadsOn(map, mc, t, name) /\ Read(t, name) = v
  BY <1>1, GivesReads DEF Standing
<1>6. Stores(d, 4 * k - size, Read(t, name))
  BY <1>4, <1>5 DEF Result
<1>7. Mirrors(f, map, cpu, mc) /\ \A m \in DOMAIN map : m # name => Read(t, m) = Read(mc, m)
  BY <1>5 DEF Standing, ReadsOn
<1> HIDE DEF d, name
<1>8. Mirrors(f, more, d, t)
  <2> DEFINE c == k
  <2>1. /\ c = Cardinality(ValuesUpTo(f, n)) /\ c \in Nat
        /\ Stores(d, 4 * c - Gen!FrameSize(f), Read(t, name)) /\ WithSlot(more, map, name, 4 * c)
    BY <1>3, <1>4, <1>6
  <2> HIDE DEF c, k
  <2> QED BY <1>1, <1>7, <2>1, ResultMirrored
<1> QED BY <1>5, <1>8 DEF ReadsOn, d

\* LE and GE are lowered to SLT and SGT, which leave equality out.
Strict(op) == op \notin {"LE", "GE"}

LEMMA BinarySteps ==
  ASSUME OnTruths, NEW f, NEW n, NEW map, NEW mc, Standing(f, n, map, mc),
         Mirrors(f, map, cpu, mc),
         f.inst_map[n].opcode \in Builder!Binary, Strict(f.inst_map[n].opcode),
         NEW t, t = Execute(mc, f.inst_map[n], BitwiseLogic), NEW more, Grows(f, n, map, more)
  PROVE  Mirrors(f, more, Run(cpu, NewCode), t) /\ t.ret = mc.ret
<1> DEFINE inst == f.inst_map[n]
           size == Gen!FrameSize(f)
           c    == inst.opcode
           o    == inst.operands
           l    == Read(mc, o[1])
           r    == Read(mc, o[2])
           v    == Compute(c, BitwiseLogic, l, r)
<1>1. /\ n \in Nat /\ size \in Nat /\ size \in Int /\ Gen!GetSize(frames) = size /\ Gen!Data = inst
      /\ Ready(size) /\ Fits(f, n, inst) /\ Going(size)
  BY StandingFacts
<1>2. mc \in Machines /\ MachineFits(f, n, mc)
  BY DEF Standing, MachineFits
<1>3. Usable(f, n, o[1]) /\ Usable(f, n, o[2]) /\ FromSource(c)
  <2>1. Len(o) = 2
    BY <1>1 DEF Fits, Builder!Arity, Builder!Binary
  <2>2. 1 \in 1 .. Len(o) /\ 2 \in 1 .. Len(o)
    BY <2>1
  <2> QED BY <1>1, <2>2 DEF Fits
<1>4. l \in Int32 /\ r \in Int32
  BY <1>1, <1>2, <1>3, UsableReads
<1>5. Denoted(o[1]) = l /\ Denoted(o[2]) = r
  <2>1. Readable(o[1], size) /\ Readable(o[2], size)
    BY <1>1 DEF Ready
  <2> QED BY <2>1, DenotedReads
<1>6. Computed(c, l, r) = v
  BY <1>3, <1>4, ComputedIs DEF Strict, OnTruths
<1>7. v \in Int32
  BY <1>3, <1>4, ComputeInt32 DEF OnTruths
<1>8. Result(v)
  <2>1. c \notin {"LOAD", "ALLOC", "STORE", "RET"}
    BY DEF Builder!Binary, Builder!ValueOps
  <2>2. Result(Computed(c, Denoted(o[1]), Denoted(o[2])))
    BY <1>1, <2>1 DEF Standing, Ran
  <2> QED BY <1>5, <1>6, <2>2
<1>9. Gives(mc, t, v)
  <2>1. v \in Int
    BY <1>7, UndefFacts
  <2> QED BY <1>2, <2>1, ExecuteValue
<1> HIDE DEF v
<1> QED BY <1>7, <1>8, <1>9, ResultSteps

LEMMA LoadSteps ==
  ASSUME NEW f, NEW n, NEW map, NEW mc, Standing(f, n, map, mc),
         Mirrors(f, map, cpu, mc), f.inst_map[n].opcode = "LOAD",
         NEW t, t = Execute(mc, f.inst_map[n], BitwiseLogic), NEW more, Grows(f, n, map, more)
  PROVE  Mirrors(f, more, Run(cpu, NewCode), t) /\ t.ret = mc.ret
<1> DEFINE inst == f.inst_map[n]
           size == Gen!FrameSize(f)
           o    == inst.operands
           v    == Read(mc, o[1])
<1>1. /\ n \in Nat /\ size \in Nat /\ Gen!Data = inst /\ Ready(size) /\ Fits(f, n, inst)
      /\ frames = <<Frame(f, n, map)>> /\ SlotsFit(f, n, map) /\ cpu.x[SP] = -size
  BY StandingFacts
<1>2. mc \in Machines /\ MachineFits(f, n, mc) /\ Mirrors(f, map, cpu, mc)
  BY DEF Standing, MachineFits
<1>3. v \in Int32
  <2>1. v = mc.mem[o[1].val] /\ StoreIn(f, n, o[1].val)
    BY <1>1 DEF Fits, Read
  <2> QED BY <1>2, <2>1 DEF MachineFits
<1>4. o[1] \in DOMAIN map
  <2>1. Gen!HasVar(frames, o[1])
    BY <1>1 DEF Ready, Placed
  <2> QED BY <1>1, <2>1, FrameFacts
<1>5. Peek(cpu, SlotOf(o[1])) = v
  BY <1>1, <1>2, <1>4, SlotReads
<1>6. Result(v)
  <2>1. Result(Peek(cpu, SlotOf(o[1])))
    BY <1>1 DEF Standing, Ran, Builder!Binary, Builder!ValueOps
  <2> QED BY <1>5, <2>1
<1>7. Gives(mc, t, v)
  <2>1. v \in Int
    BY <1>3, UndefFacts
  <2> QED BY <1>2, <2>1, ExecuteValue
<1> HIDE DEF v
<1> QED BY <1>3, <1>6, <1>7, ResultSteps

LEMMA AllocSteps ==
  ASSUME NEW f, NEW n, NEW map, NEW mc, Standing(f, n, map, mc),
         Mirrors(f, map, cpu, mc), f.inst_map[n].opcode = "ALLOC",
         f.inst_map[n].ir_obj.val \in Nat, ~AllocIn(f, n, f.inst_map[n].ir_obj.val),
         NEW t, t = Execute(mc, f.inst_map[n], BitwiseLogic), NEW more, Grows(f, n, map, more)
  PROVE  Mirrors(f, more, Run(cpu, NewCode), t) /\ t.ret = mc.ret
<1> DEFINE inst == f.inst_map[n]
           size == Gen!FrameSize(f)
           p    == inst.ir_obj.val
           k    == Cardinality(ValuesUpTo(f, n))
           d    == Run(cpu, NewCode)
           name == PointerOperand(p)
<1>1. /\ n \in Nat /\ size \in Nat /\ Gen!Data = inst /\ Fits(f, n, inst)
      /\ frames = <<Frame(f, n, map)>> /\ SlotsFit(f, n, map)
  BY StandingFacts
<1>2. FromParseResult(inst.ir_obj) = name /\ inst.typ = "Int"
  BY <1>1, ResultName
<1>3. WithSlot(more, map, name, 4 * k) /\ k \in Nat
  BY <1>1, <1>2, ValuesCounted DEF Grows
<1>4. ReadsOn(map, mc, t, name) /\ Read(t, name) = Undef
  BY <1>1, AllocReads DEF Standing
<1>5. d = cpu
  BY <1>1 DEF Standing, Ran, Builder!Binary, Builder!ValueOps
<1>6. Peek(cpu, 4 * k - size) = Undef
  <2>1. ASSUME NEW j \in 0 .. k - 1 PROVE 4 * k - size # 4 * j - size
    <3>1. j \in Int /\ j < k /\ k \in Int /\ size \in Int
      BY <1>1, <1>3
    <3> HIDE DEF k, size
    <3> QED BY <3>1
  <2>2. 4 * k - size \notin DOMAIN cpu.mem
    BY <2>1 DEF Standing, CpuIn
  <2> QED BY <2>2 DEF Peek
<1>7. Mirrors(f, map, cpu, mc) /\ \A m \in DOMAIN map : m # name => Read(t, m) = Read(mc, m)
  BY <1>4 DEF Standing, ReadsOn
<1> HIDE DEF d, name
<1>8. Mirrors(f, more, d, t)
  <2> DEFINE c == k
  <2>1. /\ c = Cardinality(ValuesUpTo(f, n)) /\ c \in Nat /\ d = cpu
        /\ Peek(cpu, 4 * c - Gen!FrameSize(f)) = Read(t, name) /\ WithSlot(more, map, name, 4 * c)
    BY <1>3, <1>4, <1>5, <1>6
  <2> HIDE DEF c, k
  <2> QED BY <1>1, <1>7, <2>1, ResultMirrored
<1> QED BY <1>4, <1>8 DEF ReadsOn, d

LEMMA StoreSteps ==
  ASSUME NEW f, NEW n, NEW map, NEW mc, Standing(f, n, map, mc),
         Mirrors(f, map, cpu, mc), f.inst_map[n].opcode = "STORE",
         NEW t, t = Execute(mc, f.inst_map[n], BitwiseLogic), NEW more, Grows(f, n, map, more)
  PROVE  Mirrors(f, more, Run(cpu, NewCode), t) /\ t.ret = mc.ret
<1> DEFINE inst == f.inst_map[n]
           size == Gen!FrameSize(f)
           o    == inst.operands
           d    == Run(cpu, NewCode)
<1>1. /\ n \in Nat /\ size \in Nat /\ Gen!Data = inst /\ Ready(size) /\ Fits(f, n, inst)
      /\ frames = <<Frame(f, n, map)>> /\ SlotsFit(f, n, map) /\ cpu.x[SP] = -size
      /\ inst \in InstData
  BY StandingFacts
<1>2. MachineFits(f, n, mc) /\ Mirrors(f, map, cpu, mc) /\ Named(f, n, map)
  BY DEF Standing
<1>3. more = map
  <2>1. inst.typ # "Int"
    BY <1>1, ResultName
  <2> QED BY <2>1 DEF Grows
<1>4. o[2] \in DOMAIN map /\ Readable(o[1], size)
  <2>1. Gen!HasVar(frames, o[2]) /\ Readable(o[1], size)
    BY <1>1 DEF Ready, Placed
  <2> QED BY <1>1, <2>1, FrameFacts
<1>5. o[2] \in Operand
  <2>1. Len(o) = 2
    BY <1>1 DEF Fits, Builder!Arity
  <2> QED BY <1>1, <2>1 DEF InstData
<1>6. ReadsOn(map, mc, t, o[2]) /\ Read(t, o[2]) = Read(mc, o[1])
  <2> DEFINE q == o[2]
  <2>1. q = inst.operands[2] /\ q \in Operand
    BY <1>5
  <2> HIDE DEF q
  <2>2. ReadsOn(map, mc, t, q) /\ Read(t, q) = Read(mc, inst.operands[1])
    BY <1>1, <1>2, <2>1, StoreReads
  <2> QED BY <2>2 DEF q
<1>7. Stores(d, map[o[2]] - size, Read(t, o[2]))
  <2>1. Stores(d, SlotOf(o[2]), Denoted(o[1]))
    BY <1>1 DEF Standing, Ran, Builder!Binary, Builder!ValueOps
  <2>2. SlotOf(o[2]) = map[o[2]] - size
    BY <1>1, <1>4, SlotAddress
  <2>3. Denoted(o[1]) = Read(mc, o[1])
    BY <1>4, DenotedReads
  <2> QED BY <1>6, <2>1, <2>2, <2>3
<1>8. \A m \in DOMAIN map : m # o[2] => Read(t, m) = Read(mc, m)
  BY <1>6 DEF ReadsOn
<1> HIDE DEF d
<1>9. Mirrors(f, map, d, t)
  <2> DEFINE q == o[2]
  <2>1. /\ q \in DOMAIN map /\ Stores(d, map[q] - Gen!FrameSize(f), Read(t, q))
        /\ \A m \in DOMAIN map : m # q => Read(t, m) = Read(mc, m)
    BY <1>4, <1>7, <1>8
  <2> HIDE DEF q
  <2> QED BY <1>1, <1>2, <2>1, StoreMirrored
<1> QED BY <1>3, <1>6, <1>9 DEF ReadsOn, d

\* The code of every other instruction goes on with the frame as its mirror.
LEMMA MirrorsStep ==
  ASSUME OnTruths, NEW f, NEW n, NEW map, NEW mc, Standing(f, n, map, mc),
         Mirrors(f, map, cpu, mc),
         Strict(f.inst_map[n].opcode), f.inst_map[n].opcode # "RET",
         f.inst_map[n].opcode = "ALLOC" =>
           f.inst_map[n].ir_obj.val \in Nat /\ ~AllocIn(f, n, f.inst_map[n].ir_obj.val),
         NEW t, t = Execute(mc, f.inst_map[n], BitwiseLogic), NEW more, Grows(f, n, map, more)
  PROVE  Mirrors(f, more, Run(cpu, NewCode), t) /\ t.ret = mc.ret
<1> DEFINE inst == f.inst_map[n]
<1>1. Fits(f, n, inst)
  BY StandingFacts
<1>2. CASE inst.opcode \in Builder!Binary
  BY <1>2, BinarySteps
<1>3. CASE inst.opcode = "LOAD"
  BY <1>3, LoadSteps
<1>4. CASE inst.opcode = "ALLOC"
  BY <1>4, AllocSteps
<1>5. CASE inst.opcode = "STORE"
  BY <1>5, StoreSteps
<1> QED BY <1>1, <1>2, <1>3, <1>4, <1>5
     DEF Fits, KoopaOpCode, ValueOps, Builder!Binary, Builder!ValueOps

\* A return leaves what is returned in a0, unless it is the constant 0.
LEMMA RetSteps ==
  ASSUME NEW f, NEW n, NEW map, NEW mc, Standing(f, n, map, mc), f.inst_map[n].opcode = "RET",
         mc.ret = Undef, NEW t, t = Execute(mc, f.inst_map[n], BitwiseLogic),
         NEW d, d = Run(cpu, NewCode)
  PROVE  /\ d.halted /\ t.ret # Undef
         /\ ~IsZero(f.inst_map[n].operands[1]) /\ Mirrors(f, map, cpu, mc) => d.x[A0] = t.ret
<1> DEFINE inst == f.inst_map[n]
           size == Gen!FrameSize(f)
           o    == inst.operands
<1>1. n \in Nat /\ Gen!Data = inst /\ Ready(size) /\ Fits(f, n, inst)
  BY StandingFacts
<1>2. MachineFits(f, n, mc)
  BY DEF Standing
<1>3. Returned(d, size, o[1])
  BY <1>1 DEF Standing, Ran, Builder!Binary, Builder!ValueOps
<1>4. Readable(o[1], size)
  BY <1>1 DEF Ready
<1>5. Mirrors(f, map, cpu, mc) => Denoted(o[1]) = Read(mc, o[1])
  BY <1>4, DenotedReads
<1>6. t.ret = Read(mc, o[1]) /\ t.ret # Undef
  BY <1>1, <1>2, RetReads
<1> QED BY <1>3, <1>5, <1>6 DEF Returned

StrictFunc(f) == \A j \in 0 .. f.next_inst_id - 1 : Strict(f.inst_map[j].opcode)

FirstRet(f, j) ==
  f.inst_map[j].opcode = "RET" /\ \A i \in 0 .. j - 1 : f.inst_map[i].opcode # "RET"

\* The core c beside the machine mc, both after n instructions of f: until the
\* function returns the frame mirrors the machine, afterwards a0 holds what
\* the machine has returned, unless that was the constant 0.
BesideRuns(f, n, map, c, mc) ==
  /\ mc.ret = Undef /\ \A j \in 0 .. n - 1 : f.inst_map[j].opcode # "RET"
  /\ StrictFunc(f) => Mirrors(f, map, c, mc)
BesideDone(f, n, c, mc) ==
  /\ mc.ret # Undef
  /\ \E j \in 0 .. n - 1 :
       FirstRet(f, j)
       /\ (StrictFunc(f) /\ ~IsZero(f.inst_map[j].operands[1]) => c.x[A0] = mc.ret)

Beside(f, n, map, c, mc) ==
  /\ MachineFits(f, n, mc) /\ Named(f, n, map)
  /\ ~c.halted => BesideRuns(f, n, map, c, mc)
  /\ c.halted => BesideDone(f, n, c, mc)

BesideInv == phase = "inst" => Beside(funcs[fn], pos - 1, Slots, cpu, machine)

\* Once something has been returned, that is what is returned; and it takes a
\* RET to return something.
LEMMA ReturnStays ==
  ASSUME NEW mc \in Machines, NEW inst, NEW bw, mc.ret # Undef \/ inst.opcode # "RET",
         NEW t, t = Execute(mc, inst, bw)
  PROVE  t.ret = mc.ret
<1> DEFINE result(v) == [mc EXCEPT !.vals = Append(mc.vals, v)]
<1>1. \A v : DOMAIN result(v) = {"vals", "mem", "ret"} /\ result(v).ret = mc.ret
  BY DEF Machines
<1>2. CASE inst.opcode = "ALLOC"
  <2> DEFINE m == result(Undef)
             p == inst.ir_obj.val
  <2>1. t = [m EXCEPT !.mem = [q \in DOMAIN m.mem \cup {p} |-> IF q = p THEN Undef ELSE m.mem[q]]]
    BY <1>2 DEF Execute
  <2>2. DOMAIN m = {"vals", "mem", "ret"} /\ m.ret = mc.ret
    BY <1>1
  <2> HIDE DEF m
  <2> QED BY <2>1, <2>2
<1>3. CASE inst.opcode = "STORE"
  <2> DEFINE m == result(Undef)
  <2>1. t = [m EXCEPT !.mem = [m.mem EXCEPT ![inst.operands[2].val] = Read(mc, inst.operands[1])]]
    BY <1>3 DEF Execute
  <2>2. DOMAIN m = {"vals", "mem", "ret"} /\ m.ret = mc.ret
    BY <1>1
  <2> HIDE DEF m
  <2> QED BY <2>1, <2>2
<1>4. CASE inst.opcode = "RET"
  <2> DEFINE m == result(Undef)
  <2>1. t = [m EXCEPT !.ret = IF m.ret = Undef THEN Read(mc, inst.operands[1]) ELSE m.ret]
    BY <1>4 DEF Execute
  <2>2. DOMAIN m = {"vals", "mem", "ret"} /\ m.ret = mc.ret /\ mc.ret # Undef
    BY <1>1, <1>4
  <2> HIDE DEF m
  <2> QED BY <2>1, <2>2
<1>5. CASE inst.opcode \notin {"ALLOC", "STORE", "RET"}
  <2>1. \E v : t = result(v)
    BY <1>5 DEF Execute
  <2> QED BY <1>1, <2>1
<1> QED BY <1>2, <1>3, <1>4, <1>5

LEMMA BesideBegins ==
  ASSUME CompilerInv, FrontDone, Gen!BeginAsmBlock, NEW f, f = funcs[fn],
         NEW c, ~c.halted
  PROVE  frames' = <<Frame(f, 0, Gen!NoVars)>> /\ Beside(f, 0, Gen!NoVars, c, NewMachine)
<1>1. frames' = <<Frame(f, 0, Gen!NoVars)>>
  BY BeginAsmBlockFacts
<1>2. NewMachine \in Machines /\ Len(NewMachine.vals) = 0 /\ NewMachine.ret = Undef
  BY NewMachineFacts
<1>3. DOMAIN Gen!NoVars = {}
  BY DEF Gen!NoVars
<1>4. 0 .. 0 - 1 = {}
  OBVIOUS
<1>5. MachineFits(f, 0, NewMachine)
  BY <1>2, <1>4 DEF MachineFits, ValuesFit, AllocIn, StoreIn
<1>6. Named(f, 0, Gen!NoVars) /\ Mirrors(f, Gen!NoVars, c, NewMachine)
  BY <1>3 DEF Named, Mirrors
<1> QED BY <1>1, <1>2, <1>4, <1>5, <1>6 DEF Beside, BesideRuns

\* Only a RET returns.
LEMMA NoReturn ==
  ASSUME NEW f, NEW n, NEW map, NEW mc, Standing(f, n, map, mc), f.inst_map[n].opcode # "RET"
  PROVE  ~cpu.halted /\ ~Run(cpu, NewCode).halted
<1> DEFINE d == Run(cpu, NewCode)
<1>1. Gen!Data = f.inst_map[n] /\ ~cpu.halted
  BY StandingFacts DEF Standing
<1>2. \/ \E v : Result(v)
      \/ d = cpu
      \/ \E a, v : Stores(d, a, v)
  BY <1>1 DEF Standing, Ran
<1>3. \/ \E a, v : Stores(d, a, v)
      \/ d = cpu
  BY <1>2 DEF Result
<1> HIDE DEF d
<1>4. ~d.halted
  BY <1>1, <1>3 DEF Stores
<1> QED BY <1>1, <1>4 DEF d

\* One more instruction, for each of the two.
LEMMA BesideStep ==
  ASSUME OnTruths, ProgInv, Gen!Lower,
         NEW f, NEW n, NEW map, AtInst(f, n, map), CpuIn(cpu, f, n),
         NEW mc, Beside(f, n, map, cpu, mc),
         NEW t, t = Execute(mc, f.inst_map[n], BitwiseLogic), NEW d, d = Run(cpu, NewCode)
  PROVE  \E more : frames' = <<Frame(f, n + 1, more)>> /\ Beside(f, n + 1, more, d, t)
<1> DEFINE inst == f.inst_map[n]
           size == Gen!FrameSize(f)
<1>1. /\ n \in Nat /\ f = funcs[fn] /\ fn \in 1 .. Len(funcs) /\ f.next_inst_id \in Nat
      /\ n < f.next_inst_id /\ LegalFunc(f) /\ Fits(f, n, inst) /\ inst \in InstData
  BY DEF AtInst
<1>2. MachineFits(f, n, mc) /\ Named(f, n, map)
  BY DEF Beside
<1>3. PICK more : /\ frames' = <<Frame(f, n + 1, more)>> /\ Grows(f, n, map, more)
                  /\ Named(f, n + 1, more)
  BY <1>2, LowerGrows
<1>4. inst.opcode = "ALLOC" => inst.ir_obj.val \in Nat /\ ~AllocIn(f, n, inst.ir_obj.val)
  <2>1. n \in 0 .. f.next_inst_id - 1
    BY <1>1
  <2> QED BY <1>1, <2>1, AllocatedOnce
<1>5. MachineFits(f, n + 1, t)
  <2>1. n \in 0 .. f.next_inst_id
    BY <1>1
  <2>2. \A p : StoreIn(f, n, p) => AllocIn(f, n, p)
    BY <1>1, <2>1, StoredAllocated
  <2> QED BY <1>1, <1>2, <1>4, <2>2, MachineSteps
<1>6. \A j \in 0 .. n + 1 - 1 : j = n \/ j \in 0 .. n - 1
  BY <1>1
<1>7. n \in 0 .. n + 1 - 1 /\ 0 .. n - 1 \subseteq 0 .. n + 1 - 1
  BY <1>1
<1>8. inst.opcode # "RET" => t.ret = mc.ret
  BY <1>2, ReturnStays DEF MachineFits
<1>9. mc.ret # Undef => t.ret = mc.ret
  BY <1>2, ReturnStays DEF MachineFits
<1>10. CASE cpu.halted
  <2>1. d = cpu
    <3>1. Len(NewCode) \in Nat
      BY NewCodeLength DEF AtInst
    <3> QED BY <1>10, <3>1, HaltedStays
  <2>2. BesideDone(f, n, cpu, mc)
    BY <1>10 DEF Beside
  <2>3. t.ret = mc.ret
    BY <1>9, <2>2 DEF BesideDone
  <2>4. BesideDone(f, n + 1, d, t)
    BY <1>7, <2>1, <2>2, <2>3 DEF BesideDone
  <2> QED BY <1>3, <1>5, <1>10, <2>1, <2>4 DEF Beside
<1>11. CASE ~cpu.halted
  <2>1. BesideRuns(f, n, map, cpu, mc)
    BY <1>11 DEF Beside
  <2>2. Standing(f, n, map, mc)
    <3>1. /\ size \in Int /\ Gen!GetSize(frames) = size /\ Gen!Lower
          /\ Going(size)
      BY <1>11 DEF AtInst, Lowered, Going, CpuIn
    <3>2. Ran(size)
      BY <3>1, LowerRuns
    <3> QED BY <1>2, <1>11, <3>2 DEF Standing
  <2>3. inst.opcode \in {"LE", "GE"} => ~StrictFunc(f)
    <3>1. n \in 0 .. f.next_inst_id - 1
      BY <1>1
    <3> QED BY <3>1 DEF StrictFunc, Strict
  <2>4. CASE inst.opcode = "RET"
    <3>1. d.halted /\ t.ret # Undef
          /\ (~IsZero(inst.operands[1]) /\ Mirrors(f, map, cpu, mc) => d.x[A0] = t.ret)
      BY <2>1, <2>2, <2>4, RetSteps DEF BesideRuns
    <3>2. FirstRet(f, n)
      BY <2>1, <2>4 DEF BesideRuns, FirstRet
    <3>3. BesideDone(f, n + 1, d, t)
      BY <1>7, <2>1, <3>1, <3>2 DEF BesideDone, BesideRuns
    <3> QED BY <1>3, <1>5, <3>1, <3>3 DEF Beside
  <2>5. CASE inst.opcode # "RET"
    <3>2. t.ret = Undef
      BY <1>8, <2>1, <2>5 DEF BesideRuns
    <3>3. ~d.halted
      <4>1. f.inst_map[n].opcode # "RET" /\ d = Run(cpu, NewCode)
        BY <2>5
      <4> QED BY <2>2, <4>1, NoReturn
    <3>4. ASSUME StrictFunc(f) PROVE Mirrors(f, more, d, t)
      <4>1. Strict(inst.opcode)
        BY <2>3, <3>4 DEF Strict
      <4>2. Mirrors(f, map, cpu, mc)
        BY <2>1, <3>4 DEF BesideRuns
      <4>3. Mirrors(f, more, d, t) /\ t.ret = mc.ret
        <5>1. \A x : x = Run(cpu, NewCode) => Mirrors(f, more, x, t) /\ t.ret = mc.ret
          BY <1>3, <1>4, <2>2, <2>5, <4>1, <4>2, MirrorsStep
        <5> QED BY <5>1
      <4> QED BY <4>3
    <3>5. BesideRuns(f, n + 1, more, d, t)
      <4> DEFINE k == n + 1
      <4>1. \A j \in 0 .. k - 1 : f.inst_map[j].opcode # "RET"
        <5> SUFFICES ASSUME NEW j \in 0 .. k - 1 PROVE f.inst_map[j].opcode # "RET"
          OBVIOUS
        <5>1. j = n \/ j \in 0 .. n - 1
          BY <1>1
        <5> QED BY <2>1, <2>5, <5>1 DEF BesideRuns
      <4> HIDE DEF k
      <4>2. BesideRuns(f, k, more, d, t)
        BY <3>2, <3>4, <4>1 DEF BesideRuns
      <4> QED BY <4>2 DEF k
    <3> QED BY <1>3, <1>5, <3>3, <3>5 DEF Beside
  <2> QED BY <2>4, <2>5
<1> QED BY <1>10, <1>11

\* What the two machines are beside each other stays so.
LEMMA BesideInvStep ==
  ASSUME OnTruths, CompilerInv, CpuInv, BesideInv, [CompilerNext]_allvars
  PROVE  BesideInv'
<1>1. CASE FrontEnd
  <2>1. status # "ok" /\ UNCHANGED phase
    <3>1. Next /\ status = "run"
      BY <1>1, SimStepIsStep, NextRuns DEF FrontEnd, CompilerInv
    <3> QED BY <1>1, <3>1 DEF FrontEnd, backvars
  <2> QED BY <2>1 DEF CompilerInv, Fresh, BesideInv
<1>2. CASE BackEnd
  <2>1. CASE Gen!BeginAsmBlock
    <3>1. FrontDone /\ machine' = NewMachine /\ cpu' = Run(NewCpu, NewCode)
      BY <1>2, <2>1, BackEndBegins
    <3> DEFINE f == funcs[fn]
               c == Run(NewCpu, NewCode)
    <3>2. pos' = 1 /\ UNCHANGED <<funcs, fn>> /\ 1 - 1 = 0
      BY <2>1 DEF Gen!BeginAsmBlock
    <3>3. ~c.halted
      BY <2>1, <3>1, BeginRuns
    <3> HIDE DEF c
    <3>4. frames' = <<Frame(f, 0, Gen!NoVars)>> /\ Beside(f, 0, Gen!NoVars, c, NewMachine)
      BY <2>1, <3>1, <3>3, BesideBegins
    <3> HIDE DEF f
    <3>5. Slots' = Gen!NoVars
      <4> DEFINE fr == Frame(f, 0, Gen!NoVars)
      <4>1. fr.var_map = Gen!NoVars
        BY DEF Frame
      <4> HIDE DEF fr
      <4>2. Last(<<fr>>) = fr
        BY SingleFacts
      <4> QED BY <3>4, <4>1, <4>2 DEF Slots, fr
    <3> QED BY <3>1, <3>2, <3>4, <3>5 DEF BesideInv, f, c
  <2>2. CASE Gen!EndAsmBlock \/ Gen!FinishAsm
    BY <2>2 DEF Gen!EndAsmBlock, Gen!FinishAsm, BesideInv
  <2>3. CASE Gen!Lower
    <3>1. FrontDone /\ cpu' = Run(cpu, NewCode) /\ phase = "inst"
          /\ machine' = Execute(machine, Gen!Data, BitwiseLogic)
      BY <1>2, <2>3, BackEndLowers
    <3> DEFINE f == funcs[fn]
               n == pos - 1
    <3>2. PICK map : AtInst(f, n, map)
      BY <2>3, <3>1, LowerFacts
    <3>3. CpuIn(cpu, f, n)
      BY <3>1 DEF CpuInv
    <3>4. n \in Nat /\ n + 1 = pos' - 1 /\ UNCHANGED <<funcs, fn>>
      <4>1. pos' = pos + 1 /\ UNCHANGED <<funcs, fn>>
        BY <3>2 DEF AtInst, Lowered
      <4>2. n = pos - 1 /\ n \in Nat /\ pos \in Nat
        BY <1>2, <2>3, <3>1, InsideFacts DEF Inside, FrontDone
      <4> QED BY <4>1, <4>2
    <3>5. Slots = map
      <4>1. frames = <<Frame(f, n, map)>>
        BY <3>2 DEF AtInst
      <4>2. Last(frames) = Frame(f, n, map)
        BY <4>1, FrameFacts
      <4> QED BY <4>2 DEF Slots, Frame
    <3>6. Beside(f, n, map, cpu, machine)
      BY <3>1, <3>5 DEF BesideInv
    <3>7. machine' = Execute(machine, f.inst_map[n], BitwiseLogic) /\ ProgInv
      BY <3>1, <3>2 DEF AtInst, CompilerInv, FrontDone
    <3> HIDE DEF f, n
    <3>8. PICK more : /\ frames' = <<Frame(f, n + 1, more)>>
                      /\ Beside(f, n + 1, more, cpu', machine')
      BY <2>3, <3>1, <3>2, <3>3, <3>6, <3>7, BesideStep
    <3>9. Slots' = more
      <4> DEFINE fr == Frame(f, n + 1, more)
      <4>1. fr.var_map = more
        BY DEF Frame
      <4> HIDE DEF fr
      <4>2. Last(<<fr>>) = fr
        BY SingleFacts
      <4> QED BY <3>8, <4>1, <4>2 DEF Slots, fr
    <3> QED BY <3>4, <3>8, <3>9 DEF BesideInv, f
  <2> QED BY <1>2, <2>1, <2>2, <2>3 DEF BackEnd
<1>3. CASE Printing
  BY <1>3 DEF Printing, Printer!PrinterNext, Printer!StartPrinting, Printer!PrintFunc,
     Printer!FinishPrinting, BesideInv, Slots
<1>4. CASE UNCHANGED allvars
  BY <1>4 DEF allvars, simvars, vars, backvars, BesideInv, Slots
<1> QED BY <1>1, <1>2, <1>3, <1>4 DEF CompilerNext

LEMMA BesideInvInit == CompilerInit => BesideInv
  BY DEF CompilerInit, Gen!GenInit, BesideInv

\* Along the code of a function (AsmBlock::from) the core and the Koopa machine
\* stay beside one another.
THEOREM BesideInvIsInvariant ==
  ASSUME OnTruths
  PROVE  CompilerSpec => [](CompilerInv /\ CpuInv /\ BesideInv)
<1>1. CompilerInv /\ CpuInv /\ BesideInv /\ [CompilerNext]_allvars
        => (CompilerInv /\ CpuInv /\ BesideInv)'
  BY CompilerStep, CpuInvStep, BesideInvStep
<1> QED BY <1>1, InitCompilerInv, CpuInvInit, BesideInvInit, PTL DEF CompilerSpec

\* The frame of a function without <= and >= mirrors its values.
LEMMA StrictMirrors ==
  ASSUME CompilerInv, CpuInv, BesideInv, StrictFunc(funcs[fn])
  PROVE  SlotsHoldValues
<1> SUFFICES ASSUME phase = "inst", ~cpu.halted, NEW n \in DOMAIN Slots
             PROVE  Peek(cpu, cpu.x[SP] + Slots[n]) = Read(machine, n)
  BY DEF SlotsHoldValues
<1> DEFINE f    == funcs[fn]
           k    == pos - 1
           size == Gen!FrameSize(f)
<1>1. /\ Inside /\ f \in FuncSet /\ f.next_inst_id \in Nat
  <2>1. status = "ok"
    BY DEF CompilerInv, Fresh
  <2> QED BY <2>1, InsideFacts
<1>2. k \in 0 .. f.next_inst_id /\ k \in Nat
  BY <1>1 DEF Inside
<1>3. size \in Nat
  BY <1>1, <1>2, ValuesCounted, FrameHolds
<1>4. PICK map : frames = <<Frame(f, k, map)>> /\ SlotsFit(f, k, map)
  BY <1>1 DEF Inside, Framed
<1>5. Slots = map
  <2>1. Last(frames) = Frame(f, k, map)
    BY <1>4, FrameFacts
  <2> QED BY <2>1 DEF Slots, Frame
<1>6. CpuIn(cpu, f, k)
  BY DEF CpuInv
<1>7. cpu.x[SP] = -size
  BY <1>6 DEF CpuIn
<1>8. PICK c \in 0 .. Cardinality(ValuesUpTo(f, k)) - 1 : map[n] = 4 * c
  BY <1>4, <1>5 DEF SlotsFit
<1>9. Beside(f, k, map, cpu, machine)
  BY <1>5 DEF BesideInv
<1>10. Mirrors(f, map, cpu, machine)
  BY <1>9 DEF Beside, BesideRuns
<1>11. Peek(cpu, map[n] - size) = Read(machine, n)
  BY <1>5, <1>10 DEF Mirrors
<1> HIDE DEF f, k, size
<1>12. cpu.x[SP] + map[n] = map[n] - size
  BY <1>3, <1>7, <1>8
<1> QED BY <1>5, <1>11, <1>12

\* Until a function without <= and >= returns, its frame mirrors the Koopa
\* machine: whatever the program, every slot holds the value it stands for
\* (AsmInst::from, StackFrameManager::alloc_var).
THEOREM SlotsHoldValuesOfStrict ==
  ASSUME OnTruths
  PROVE  CompilerSpec => [](StrictFunc(funcs[fn]) => SlotsHoldValues)
<1>1. CompilerInv /\ CpuInv /\ BesideInv => (StrictFunc(funcs[fn]) => SlotsHoldValues)
  BY StrictMirrors
<1> QED BY <1>1, BesideInvIsInvariant, PTL

\* Source without <= and >= becomes functions without them.
StrictSource == "Le" \notin Operators /\ "Ge" \notin Operators

LEMMA StrictCode ==
  ASSUME StrictSource, CompilerInv, phase = "inst"
  PROVE  StrictFunc(funcs[fn])
<1>1. LegalFunc(funcs[fn])
  <2>1. status = "ok"
    BY DEF CompilerInv, Fresh
  <2> QED BY <2>1, InsideFacts
<1>2. ASSUME NEW j \in 0 .. funcs[fn].next_inst_id - 1
      PROVE  Strict(funcs[fn].inst_map[j].opcode)
  <2>1. FromSource(funcs[fn].inst_map[j].opcode)
    BY <1>1 DEF LegalFunc, Fits
  <2> QED BY <2>1 DEF FromSource, StrictSource, Strict
<1> QED BY <1>2 DEF StrictFunc

\* So do all slots of all programs without these two operators.
THEOREM SlotsAlwaysHoldValues ==
  ASSUME OnTruths, StrictSource
  PROVE  CompilerSpec => []SlotsHoldValues
<1>1. CompilerInv /\ CpuInv /\ BesideInv => SlotsHoldValues
  <2> SUFFICES ASSUME CompilerInv, CpuInv, BesideInv PROVE SlotsHoldValues
    OBVIOUS
  <2>1. CASE phase = "inst"
    BY <2>1, StrictCode, StrictMirrors
  <2>2. CASE phase # "inst"
    BY <2>2 DEF SlotsHoldValues
  <2> QED BY <2>1, <2>2
<1> QED BY <1>1, BesideInvIsInvariant, PTL
=============================================================================
