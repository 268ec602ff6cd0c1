----------------------------- MODULE FramesProofs -----------------------------
(***************************************************************************)
(* Proofs about Frames, for every value of the counters, every time and    *)
(* every device number: what is sent is bytes, ends where its Length says, *)
(* and a data report decodes to the measurement; the response to a switch  *)
(* command carries a right checksum.                                       *)
(*                                                                         *)
(* The argument follows the bytes: what stands where in a frame (At), that *)
(* a receiver who walks over the quantities by their length bytes meets    *)
(* their starts, and that its folds undo the encoding (FrameFolds).        *)
(***************************************************************************)
EXTENDS FrameFolds, SequenceTheorems

-----------------------------------------------------------------------------
(* Sequences of bytes                                                      *)

Bytes(s) == s \in Seq(Byte)

\* Concatenation under a name: the provers then reason about it by the lemmas
\* only.
Cat(s, t) == s \o t

\* s stands in f from index p on.
At(f, p, s) == \A i \in 1 .. Len(s) : f[p - 1 + i] = s[i]

LEMMA CatIs ==
    ASSUME NEW s, NEW t, Bytes(s), Bytes(t)
    PROVE  /\ Bytes(Cat(s, t)) /\ Len(Cat(s, t)) = Len(s) + Len(t)
           /\ Len(s) \in Nat /\ Len(t) \in Nat
           /\ \A i \in 1 .. Len(s) : Cat(s, t)[i] = s[i]
           /\ \A i \in 1 .. Len(t) : Cat(s, t)[Len(s) + i] = t[i]
BY DEF Bytes, Cat

LEMMA AtCat ==
    ASSUME NEW s, NEW t, Bytes(s), Bytes(t), NEW p \in Int, NEW f, At(f, p, Cat(s, t))
    PROVE  At(f, p, s) /\ At(f, p + Len(s), t)
<1> DEFINE u == Cat(s, t)
           m == Len(s)
           n == Len(t)
<1>1. /\ m \in Nat /\ n \in Nat /\ Len(u) = m + n
      /\ \A i \in 1 .. m : u[i] = s[i]
      /\ \A i \in 1 .. n : u[m + i] = t[i]
  BY CatIs
<1>2. \A i \in 1 .. m + n : f[p - 1 + i] = u[i]
  BY <1>1 DEF At
<1> HIDE DEF u, m, n
<1>3. \A i \in 1 .. m : f[p - 1 + i] = s[i]
  BY <1>1, <1>2
<1>4. ASSUME NEW i \in 1 .. n PROVE f[p + m - 1 + i] = t[i]
  <2>1. m + i \in 1 .. m + n /\ p - 1 + (m + i) = p + m - 1 + i
    BY <1>1
  <2> QED
    BY <1>1, <1>2, <2>1
<1> QED
  BY <1>3, <1>4 DEF At, m, n

LEMMA SubSeqIs ==
    ASSUME NEW f, Bytes(f), NEW p \in Nat \ {0}, NEW n \in Nat, p - 1 + n <= Len(f)
    PROVE  /\ Bytes(SubSeq(f, p, p - 1 + n)) /\ Len(SubSeq(f, p, p - 1 + n)) = n
           /\ \A i \in 1 .. n : SubSeq(f, p, p - 1 + n)[i] = f[p - 1 + i]
<1>1. Len(f) \in Nat /\ p \in 1 .. Len(f) + 1 /\ p - 1 + n \in 0 .. Len(f)
  BY DEF Bytes
<1>2. SubSeq(f, p, p - 1 + n) \in Seq(Byte)
  BY <1>1 DEF Bytes
<1>3. Len(SubSeq(f, p, p - 1 + n)) = n
  BY <1>1 DEF Bytes
<1>4. \A i \in 1 .. n : SubSeq(f, p, p - 1 + n)[i] = f[p - 1 + i]
  <2>1. SubSeq(f, p, p - 1 + n) = [i \in 1 .. (p - 1 + n) - p + 1 |-> f[i + p - 1]]
    BY <1>1 DEF Bytes
  <2>2. (p - 1 + n) - p + 1 = n /\ \A i \in 1 .. n : i + p - 1 = p - 1 + i
    BY <1>1
  <2> QED
    BY <2>1, <2>2
<1> QED
  BY <1>2, <1>3, <1>4 DEF Bytes

LEMMA SameBytes ==
    ASSUME NEW s, NEW t, Bytes(s), Bytes(t), Len(s) = Len(t),
           \A i \in 1 .. Len(s) : s[i] = t[i]
    PROVE  s = t
<1>1. s \in [1 .. Len(s) -> Byte] /\ t \in [1 .. Len(s) -> Byte]
  BY LenProperties DEF Bytes
<1> QED
  BY <1>1

LEMMA AtIsSubSeq ==
    ASSUME NEW f, NEW s, Bytes(f), Bytes(s), NEW p \in Nat \ {0}, At(f, p, s),
           p - 1 + Len(s) <= Len(f)
    PROVE  SubSeq(f, p, p - 1 + Len(s)) = s
<1> DEFINE n == Len(s)
           u == SubSeq(f, p, p - 1 + n)
<1>1. n \in Nat
  BY DEF Bytes
<1>2. Bytes(u) /\ Len(u) = n /\ \A i \in 1 .. n : u[i] = f[p - 1 + i]
  BY <1>1, SubSeqIs
<1>3. \A i \in 1 .. n : u[i] = s[i]
  BY <1>2 DEF At
<1> HIDE DEF u
<1>4. u = s
  BY <1>2, <1>3, SameBytes
<1> QED
  BY <1>4 DEF u

LEMMA OneByte == ASSUME NEW a \in Byte PROVE Bytes(<<a>>) /\ Len(<<a>>) = 1 /\ <<a>>[1] = a
BY DEF Bytes

LEMMA TwoBytes ==
    ASSUME NEW a \in Byte, NEW b \in Byte
    PROVE  Bytes(<<a, b>>) /\ Len(<<a, b>>) = 2 /\ <<a, b>>[1] = a /\ <<a, b>>[2] = b
BY DEF Bytes

LEMMA ThreeBytes ==
    ASSUME NEW a \in Byte, NEW b \in Byte, NEW c \in Byte
    PROVE  /\ Bytes(<<a, b, c>>) /\ Len(<<a, b, c>>) = 3
           /\ <<a, b, c>>[1] = a /\ <<a, b, c>>[2] = b /\ <<a, b, c>>[3] = c
BY DEF Bytes

LEMMA ExceptBytes ==
    ASSUME NEW s, Bytes(s), NEW p \in 1 .. Len(s), NEW b \in Byte
    PROVE  /\ Bytes([s EXCEPT ![p] = b]) /\ Len([s EXCEPT ![p] = b]) = Len(s)
           /\ \A i \in 1 .. Len(s) : [s EXCEPT ![p] = b][i] = IF i = p THEN b ELSE s[i]
BY ExceptSeq DEF Bytes

LEMMA BytesAreInts == \A s : Bytes(s) => s \in Seq(Int)
<1>1. Byte \subseteq Int
  BY DEF Byte
<1> QED
  BY <1>1, SeqMonotonic DEF Bytes

LEMMA SmallIsByte == \A x \in Nat : x <= 255 => x \in Byte
BY DEF Byte

LEMMA AnySumIsByte == \A s : Bytes(s) => Sum(s) % 256 \in Byte
<1> SUFFICES ASSUME NEW s, Bytes(s) PROVE Sum(s) % 256 \in Byte
  OBVIOUS
<1>1. s \in Seq(Int)
  BY BytesAreInts
<1>2. Sum(s) \in Int
  BY <1>1, SumIsInt
<1> QED
  BY <1>2 DEF Byte

\* A frame that ends where its Length says.
Right(f) == Len(f) = 256 * f[3] + f[4] + 6 /\ SubSeq(f, Len(f) - 1, Len(f)) = <<238, 186>>

LEMMA EndsRight ==
    ASSUME NEW f, Bytes(f), NEW n \in Nat, Len(f) = n + 9, f[3] = 0, f[4] = n + 3,
           f[n + 8] = 238, f[n + 9] = 186
    PROVE  Right(f)
<1> DEFINE tail == <<238, 186>>
<1>1. Bytes(tail) /\ Len(tail) = 2 /\ tail[1] = 238 /\ tail[2] = 186
  <2>1. 238 \in Byte /\ 186 \in Byte
    BY DEF Byte
  <2> QED
    BY <2>1, TwoBytes
<1> HIDE DEF tail
<1>2. PICK p \in Nat \ {0} : p = n + 8
  OBVIOUS
<1>3. At(f, p, tail)
  <2>1. \A i \in 1 .. 2 : i = 1 \/ i = 2
    OBVIOUS
  <2>2. p - 1 + 1 = n + 8 /\ p - 1 + 2 = n + 9
    BY <1>2
  <2>3. \A i \in 1 .. 2 : f[p - 1 + i] = tail[i]
    BY <1>1, <2>1, <2>2
  <2> QED
    BY <1>1, <2>3 DEF At
<1>4. SubSeq(f, p, p - 1 + Len(tail)) = tail
  <2>1. p - 1 + Len(tail) <= Len(f)
    BY <1>1, <1>2
  <2> QED
    <3>1. Bytes(tail) /\ p \in Nat \ {0}
      BY <1>1, <1>2
    <3> QED
      BY <1>3, <2>1, <3>1, AtIsSubSeq
<1>5. SubSeq(f, Len(f) - 1, Len(f)) = tail
  <2>1. p = Len(f) - 1 /\ p - 1 + Len(tail) = Len(f)
    BY <1>1, <1>2
  <2> QED
    BY <1>4, <2>1
<1> QED
  BY <1>5 DEF Right, tail

-----------------------------------------------------------------------------
(* Reports                                                                 *)

\* What stands where in a published frame.
LEMMA FrameIs ==
    ASSUME NEW cmd \in Byte, NEW content, Bytes(content), Len(content) <= 91
    PROVE  LET f == Frame(cmd, content)
           IN  /\ Bytes(f) /\ Len(f) = Len(content) + 9 /\ Len(content) \in Nat
               /\ Right(f)
               /\ f[6] = cmd
               /\ At(f, 7, content)
<1>1. PICK n \in Nat : n = Len(content)
  BY DEF Bytes
<1>2. n <= 91
  BY <1>1
<1> DEFINE head == <<158, 191, 0, 0, 33, cmd>>
           body == Cat(head, content)
           sum  == CheckSum(body)
           all  == Append(body, sum)
           done == [all EXCEPT ![4] = n + 3]
           tail == <<238, 186>>
           f    == Cat(done, tail)
<1>3. Bytes(head) /\ Len(head) = 6 /\ head[3] = 0 /\ head[6] = cmd
  BY DEF Bytes, Byte
<1>4. Bytes(tail) /\ Len(tail) = 2 /\ tail[1] = 238 /\ tail[2] = 186
  <2>1. 238 \in Byte /\ 186 \in Byte
    BY DEF Byte
  <2> QED
    BY <2>1, TwoBytes
<1>5. Frame(cmd, content) = [all EXCEPT ![4] = LengthField(Len(all))] \o tail
  BY DEF Frame, Cat
<1> HIDE DEF head, tail
<1>6. /\ Bytes(body) /\ Len(body) = Len(head) + Len(content)
      /\ \A i \in 1 .. Len(head) : body[i] = head[i]
      /\ \A i \in 1 .. Len(content) : body[Len(head) + i] = content[i]
  <2>1. Bytes(head)
    BY <1>3
  <2> QED
    BY <2>1, CatIs
<1> HIDE DEF body
<1>7. Len(body) = n + 6
  BY <1>1, <1>3, <1>6
<1>8. body[3] = 0 /\ body[6] = cmd /\ \A i \in 1 .. n : body[6 + i] = content[i]
  <2>1. 3 \in 1 .. Len(head) /\ 6 \in 1 .. Len(head)
    BY <1>3
  <2>2. body[3] = head[3] /\ body[6] = head[6]
    BY <1>6, <2>1, Zenon
  <2>3. \A i \in 1 .. n : body[6 + i] = content[i]
    BY <1>1, <1>3, <1>6, Zenon
  <2> QED
    BY <1>3, <2>2, <2>3
<1>9. sum \in Byte
  <2>1. Bytes(SubSeq(body, 3, 3 - 1 + (n + 2)))
    <3>1. 3 - 1 + (n + 2) <= Len(body) /\ n + 2 \in Nat /\ 3 \in Nat \ {0}
      BY <1>7
    <3>2. Bytes(body)
      BY <1>6
    <3> QED
      BY <3>1, <3>2, SubSeqIs
  <2>2. 3 - 1 + (n + 2) = Len(body) - 2
    BY <1>7
  <2> QED
    BY <2>1, <2>2, AnySumIsByte DEF CheckSum
<1> HIDE DEF sum
<1>10. /\ Bytes(all) /\ Len(all) = Len(body) + 1
       /\ \A i \in 1 .. Len(body) : all[i] = body[i]
  <2>1. body \in Seq(Byte)
    BY <1>6 DEF Bytes
  <2> QED
    BY <1>9, <2>1, AppendProperties DEF Bytes
<1> HIDE DEF all
<1>11. Len(all) = n + 7
  <2>1. Len(all) = Len(body) + 1
    BY <1>10
  <2> QED
    BY <1>7, <2>1
<1>12. \A i \in 1 .. n + 6 : all[i] = body[i]
  BY <1>7, <1>10, Zenon
<1>13. /\ Bytes(done) /\ Len(done) = Len(all)
       /\ \A i \in 1 .. Len(all) : done[i] = IF i = 4 THEN n + 3 ELSE all[i]
  <2>1. n + 3 \in Byte
    BY <1>2, SmallIsByte
  <2>2. 4 \in 1 .. Len(all)
    BY <1>11
  <2>3. Bytes(all)
    BY <1>10
  <2> QED
    BY <2>1, <2>2, <2>3, ExceptBytes
<1> HIDE DEF done
<1>14. Len(done) = n + 7
  <2>1. Len(done) = Len(all)
    BY <1>13
  <2> QED
    BY <1>11, <2>1
<1>15. \A i \in 1 .. n + 7 : done[i] = IF i = 4 THEN n + 3 ELSE all[i]
  BY <1>11, <1>13, Zenon
<1>16. /\ done[3] = 0 /\ done[4] = n + 3 /\ done[6] = cmd
       /\ \A i \in 1 .. n : done[6 + i] = content[i]
  <2>1. ASSUME NEW i \in 1 .. n + 6, i # 4 PROVE done[i] = body[i]
    BY <1>12, <1>15, <2>1
  <2>2. done[4] = n + 3
    BY <1>15
  <2>3. 3 \in 1 .. n + 6 /\ 6 \in 1 .. n + 6
    OBVIOUS
  <2>4. ASSUME NEW i \in 1 .. n PROVE done[6 + i] = content[i]
    <3>1. 6 + i \in 1 .. n + 6 /\ 6 + i # 4
      OBVIOUS
    <3> QED
      BY <1>8, <2>1, <3>1
  <2> QED
    BY <1>8, <2>1, <2>2, <2>3, <2>4
<1>17. /\ Bytes(f) /\ Len(f) = Len(done) + Len(tail)
       /\ \A i \in 1 .. Len(done) : f[i] = done[i]
       /\ \A i \in 1 .. Len(tail) : f[Len(done) + i] = tail[i]
  <2>1. Bytes(done) /\ Bytes(tail)
    BY <1>4, <1>13
  <2> QED
    BY <2>1, CatIs
<1> HIDE DEF f
<1>18. Len(f) = n + 9
  <2>1. Len(f) = Len(done) + Len(tail) /\ Len(tail) = 2
    BY <1>4, <1>17
  <2> QED
    BY <1>14, <2>1
<1>19. /\ \A i \in 1 .. n + 7 : f[i] = done[i]
       /\ f[n + 8] = 238 /\ f[n + 9] = 186
  <2>1. \A i \in 1 .. n + 7 : f[i] = done[i]
    BY <1>14, <1>17, Zenon
  <2>2. 1 \in 1 .. Len(tail) /\ 2 \in 1 .. Len(tail)
    BY <1>4
  <2>3. f[Len(done) + 1] = tail[1] /\ f[Len(done) + 2] = tail[2]
    BY <1>17, <2>2, Zenon
  <2>4. Len(done) + 1 = n + 8 /\ Len(done) + 2 = n + 9
    BY <1>14
  <2> QED
    BY <1>4, <2>1, <2>3, <2>4
<1>20. f[3] = 0 /\ f[4] = n + 3 /\ f[6] = cmd
  BY <1>16, <1>19
<1>21. At(f, 7, content)
  <2>1. ASSUME NEW i \in 1 .. n PROVE f[7 - 1 + i] = content[i]
    <3>1. 6 + i \in 1 .. n + 7 /\ 7 - 1 + i = 6 + i
      OBVIOUS
    <3> QED
      BY <1>16, <1>19, <3>1
  <2> QED
    BY <1>1, <2>1, Zenon DEF At
<1>22. Right(f)
  <2>1. Bytes(f)
    BY <1>17
  <2> QED
    BY <1>18, <1>19, <1>20, <2>1, EndsRight
<1>23. f = Frame(cmd, content)
  <2>1. LengthField(Len(all)) = n + 3
    BY <1>11 DEF LengthField
  <2> QED
    BY <1>5, <2>1 DEF Cat, done, f
<1> QED
  BY <1>1, <1>17, <1>18, <1>20, <1>21, <1>22, <1>23

-----------------------------------------------------------------------------
(* Responses                                                               *)

\* What a receiver adds up in a command or response of n content bytes.
Checked(f, n) == SubSeq(f, 3, 3 - 1 + (n + 4))

LEMMA CheckedIs ==
    ASSUME NEW f, Bytes(f), NEW n \in Nat, n + 6 <= Len(f)
    PROVE  /\ Bytes(Checked(f, n)) /\ Len(Checked(f, n)) = n + 4
           /\ \A i \in 1 .. n + 4 : Checked(f, n)[i] = f[2 + i]
<1>1. n + 4 \in Nat /\ 3 \in Nat \ {0} /\ 3 - 1 + (n + 4) <= Len(f)
  OBVIOUS
<1>2. /\ Bytes(Checked(f, n)) /\ Len(Checked(f, n)) = n + 4
      /\ \A i \in 1 .. n + 4 : Checked(f, n)[i] = f[3 - 1 + i]
  BY <1>1, SubSeqIs DEF Checked
<1>3. \A i \in 1 .. n + 4 : 3 - 1 + i = 2 + i
  OBVIOUS
<1> QED
  BY <1>2, <1>3

\* What stands where in a command.
CommandOf(c, n) ==
    /\ Bytes(c) /\ Len(c) = n + 9
    /\ c[3] = 0 /\ c[4] = n + 3 /\ c[5] = 161
    /\ c[n + 7] = Sum(Checked(c, n)) % 256
    /\ c[n + 8] = 238 /\ c[n + 9] = 186

LEMMA CommandIs ==
    ASSUME NEW cmd \in Byte, NEW content, Bytes(content), NEW n \in Nat, n = Len(content), n <= 91
    PROVE  CommandOf(Command(cmd, content), n)
<1> DEFINE head == <<158, 191, 0, n + 3, 161, cmd>>
           body == Cat(head, content)
           sum  == Sum(Checked(body, n)) % 256
           tail == <<sum, 238, 186>>
           c    == Cat(body, tail)
<1>0. Command(cmd, content) = body \o <<Sum(SubSeq(body, 3, Len(body))) % 256, 238, 186>>
  BY DEF Command, Cat
<1>1. Bytes(head) /\ Len(head) = 6 /\ head[3] = 0 /\ head[4] = n + 3 /\ head[5] = 161
  <2>1. n + 3 \in Byte
    BY SmallIsByte
  <2> QED
    BY <2>1 DEF Bytes, Byte
<1> HIDE DEF head
<1>2. /\ Bytes(body) /\ Len(body) = Len(head) + Len(content)
      /\ \A i \in 1 .. Len(head) : body[i] = head[i]
  <2>1. Bytes(head)
    BY <1>1
  <2> QED
    BY <2>1, CatIs
<1> HIDE DEF body
<1>3. Len(body) = n + 6
  BY <1>1, <1>2
<1>4. body[3] = 0 /\ body[4] = n + 3 /\ body[5] = 161
  <2>1. 3 \in 1 .. Len(head) /\ 4 \in 1 .. Len(head) /\ 5 \in 1 .. Len(head)
    BY <1>1
  <2>2. body[3] = head[3] /\ body[4] = head[4] /\ body[5] = head[5]
    BY <1>2, <2>1
  <2> QED
    BY <1>1, <2>2
<1>5. /\ Bytes(Checked(body, n)) /\ Len(Checked(body, n)) = n + 4
      /\ \A i \in 1 .. n + 4 : Checked(body, n)[i] = body[2 + i]
  <2>1. Bytes(body) /\ n + 6 <= Len(body)
    BY <1>2, <1>3
  <2> QED
    BY <2>1, CheckedIs
<1>6. sum \in Byte
  BY <1>5, AnySumIsByte
<1>7. Command(cmd, content) = c
  <2>1. Checked(body, n) = SubSeq(body, 3, Len(body))
    <3>1. 3 - 1 + (n + 4) = Len(body)
      BY <1>3
    <3> QED
      BY <3>1 DEF Checked
  <2> QED
    BY <1>0, <2>1 DEF Cat
<1> HIDE DEF sum
<1>8. /\ Bytes(tail) /\ Len(tail) = 3 /\ tail[1] = sum /\ tail[2] = 238 /\ tail[3] = 186
  <2>1. 238 \in Byte /\ 186 \in Byte
    BY DEF Byte
  <2> QED
    BY <1>6, <2>1, ThreeBytes
<1> HIDE DEF tail
<1>9. /\ Bytes(c) /\ Len(c) = Len(body) + Len(tail)
      /\ \A i \in 1 .. Len(body) : c[i] = body[i]
      /\ \A i \in 1 .. Len(tail) : c[Len(body) + i] = tail[i]
  <2>1. Bytes(body) /\ Bytes(tail)
    BY <1>2, <1>8
  <2> QED
    BY <2>1, CatIs
<1> HIDE DEF c
<1>10. Len(c) = n + 9
  <2>1. Len(c) = Len(body) + Len(tail) /\ Len(tail) = 3
    BY <1>8, <1>9
  <2> QED
    BY <1>3, <2>1
<1>11. \A i \in 1 .. n + 6 : c[i] = body[i]
  BY <1>3, <1>9, Zenon
<1>12. c[n + 7] = sum /\ c[n + 8] = 238 /\ c[n + 9] = 186
  <2>1. 1 \in 1 .. Len(tail) /\ 2 \in 1 .. Len(tail) /\ 3 \in 1 .. Len(tail)
    BY <1>8
  <2>2. c[Len(body) + 1] = tail[1] /\ c[Len(body) + 2] = tail[2] /\ c[Len(body) + 3] = tail[3]
    BY <1>9, <2>1, Zenon
  <2>3. Len(body) + 1 = n + 7 /\ Len(body) + 2 = n + 8 /\ Len(body) + 3 = n + 9
    BY <1>3
  <2> QED
    BY <1>8, <2>2, <2>3
<1>13. Checked(c, n) = Checked(body, n)
  <2>1. /\ Bytes(Checked(c, n)) /\ Len(Checked(c, n)) = n + 4
        /\ \A i \in 1 .. n + 4 : Checked(c, n)[i] = c[2 + i]
    <3>1. Bytes(c) /\ n + 6 <= Len(c)
      BY <1>9, <1>10
    <3> QED
      BY <3>1, CheckedIs
  <2>2. ASSUME NEW i \in 1 .. n + 4 PROVE Checked(c, n)[i] = Checked(body, n)[i]
    <3>1. 2 + i \in 1 .. n + 6
      OBVIOUS
    <3>2. Checked(c, n)[i] = c[2 + i] /\ Checked(body, n)[i] = body[2 + i]
      BY <1>5, <2>1
    <3> QED
      BY <1>11, <3>1, <3>2
  <2>3. \A i \in 1 .. Len(Checked(c, n)) : Checked(c, n)[i] = Checked(body, n)[i]
    BY <2>1, <2>2, Zenon
  <2>4. Len(Checked(c, n)) = Len(Checked(body, n)) /\ Bytes(Checked(c, n)) /\ Bytes(Checked(body, n))
    BY <1>5, <2>1
  <2> QED
    BY <2>3, <2>4, SameBytes
<1>14. c[3] = 0 /\ c[4] = n + 3 /\ c[5] = 161
  <2>1. 3 \in 1 .. n + 6 /\ 4 \in 1 .. n + 6 /\ 5 \in 1 .. n + 6
    OBVIOUS
  <2> QED
    BY <1>4, <1>11, <2>1
<1> QED
  BY <1>7, <1>9, <1>10, <1>12, <1>13, <1>14 DEF CommandOf, sum

\* A response of the whole command that changes Type and the checksum.
LEMMA ResponseIs ==
    ASSUME NEW n \in Nat, NEW c, CommandOf(c, n), NEW by \in Nat
    PROVE  LET r == Response(c, n + 9, n + 6, by)
           IN  /\ Bytes(r) /\ Len(r) = n + 9 /\ Right(r)
               /\ r[5] = 162 /\ r[n + 7] = (c[n + 7] + by) % 256
               /\ \A i \in 1 .. n + 6 : i # 5 => r[i] = c[i]
<1> DEFINE all   == SubSeq(c, 1, n + 9)
           first == [all EXCEPT ![5] = 162]
           sum   == (c[n + 7] + by) % 256
           r     == [first EXCEPT ![n + 7] = sum]
<1>1. Bytes(c) /\ Len(c) = n + 9 /\ c[3] = 0 /\ c[4] = n + 3 /\ c[n + 8] = 238 /\ c[n + 9] = 186
  BY DEF CommandOf
<1>2. all = c
  <2>1. Bytes(c)
    BY <1>1
  <2>2. 1 - 1 + (n + 9) = n + 9 /\ n + 9 \in Nat /\ 1 \in Nat \ {0} /\ n + 9 <= Len(c)
    BY <1>1
  <2>3. Bytes(all) /\ Len(all) = n + 9 /\ \A i \in 1 .. n + 9 : all[i] = c[1 - 1 + i]
    <3>1. PICK m \in Nat : m = n + 9
      OBVIOUS
    <3>2. 1 - 1 + m = m /\ m <= Len(c) /\ 1 \in Nat \ {0} /\ m \in Nat
      BY <1>1, <3>1
    <3>3. LET u == SubSeq(c, 1, 1 - 1 + m)
          IN  Bytes(u) /\ Len(u) = m /\ \A i \in 1 .. m : u[i] = c[1 - 1 + i]
      BY <2>1, <3>2, SubSeqIs
    <3> QED
      BY <3>1, <3>2, <3>3
  <2> HIDE DEF all
  <2>4. \A i \in 1 .. n + 9 : all[i] = c[i]
    BY <2>3
  <2>5. Len(all) = Len(c)
    BY <1>1, <2>3
  <2>6. \A i \in 1 .. Len(all) : all[i] = c[i]
    BY <2>3, <2>4, Zenon
  <2>7. Bytes(all)
    BY <2>3
  <2> QED
    BY <2>1, <2>5, <2>6, <2>7, SameBytes
<1>3. c[n + 7] \in Byte
  <2>1. n + 7 \in 1 .. Len(c)
    BY <1>1
  <2> QED
    BY <1>1, <2>1, ElementOfSeq DEF Bytes
<1>4. sum \in Byte
  <2>1. c[n + 7] + by \in Int
    BY <1>3 DEF Byte
  <2> QED
    BY <2>1 DEF Byte
<1>5. Response(c, n + 9, n + 6, by) = r
  <2> DEFINE whole == [c EXCEPT ![5] = 162, ![n + 6 + 1] = (@ + by) % 256]
  <2>1. Response(c, n + 9, n + 6, by) = whole
    <3> HIDE DEF all
    <3>1. Response(c, n + 9, n + 6, by) = [all EXCEPT ![5] = 162, ![n + 6 + 1] = (@ + by) % 256]
      BY DEF Response, all
    <3> QED
      BY <1>2, <3>1
  <2>2. n + 6 + 1 = n + 7 /\ n + 7 # 5
    OBVIOUS
  <2>3. n + 7 \in DOMAIN c /\ 5 \in DOMAIN c
    BY <1>1 DEF Bytes
  <2>4. whole = [[c EXCEPT ![5] = 162] EXCEPT ![n + 7] = sum]
    BY <2>2, <2>3
  <2> QED
    BY <1>2, <2>1, <2>4
<1> HIDE DEF sum, all
<1>6. /\ Bytes(first) /\ Len(first) = Len(all)
      /\ \A i \in 1 .. Len(all) : first[i] = IF i = 5 THEN 162 ELSE all[i]
  <2>1. Bytes(all) /\ 5 \in 1 .. Len(all) /\ 162 \in Byte
    BY <1>1, <1>2 DEF Byte
  <2> QED
    BY <2>1, ExceptBytes
<1> HIDE DEF first
<1>7. Len(first) = n + 9
  BY <1>1, <1>2, <1>6
<1>8. /\ Bytes(r) /\ Len(r) = Len(first)
      /\ \A i \in 1 .. Len(first) : r[i] = IF i = n + 7 THEN sum ELSE first[i]
  <2>1. Bytes(first) /\ n + 7 \in 1 .. Len(first)
    BY <1>6, <1>7
  <2> QED
    BY <1>4, <2>1, ExceptBytes
<1> HIDE DEF r
<1>9. Len(r) = n + 9
  BY <1>7, <1>8
<1>10. \A i \in 1 .. n + 9 : r[i] = IF i = n + 7 THEN sum ELSE IF i = 5 THEN 162 ELSE c[i]
  <2>1. Len(all) = n + 9
    BY <1>1, <1>2
  <2>2. \A i \in 1 .. n + 9 : first[i] = IF i = 5 THEN 162 ELSE c[i]
    BY <1>2, <1>6, <2>1, Zenon
  <2>3. \A i \in 1 .. n + 9 : r[i] = IF i = n + 7 THEN sum ELSE first[i]
    BY <1>7, <1>8, Zenon
  <2> QED
    BY <2>2, <2>3
<1>11. /\ r[5] = 162 /\ r[n + 7] = sum
       /\ \A i \in 1 .. n + 6 : i # 5 => r[i] = c[i]
  <2>1. 5 \in 1 .. n + 9 /\ n + 7 \in 1 .. n + 9 /\ n + 7 # 5
    OBVIOUS
  <2>2. \A i \in 1 .. n + 6 : i \in 1 .. n + 9 /\ i # n + 7
    OBVIOUS
  <2> QED
    BY <1>10, <2>1, <2>2
<1>12. Right(r)
  <2>1. r[3] = 0 /\ r[4] = n + 3
    <3>1. 3 \in 1 .. n + 6 /\ 4 \in 1 .. n + 6
      OBVIOUS
    <3> QED
      BY <1>1, <1>11, <3>1
  <2>2. r[n + 8] = 238 /\ r[n + 9] = 186
    <3>1. \A i \in {n + 8, n + 9} : i \in 1 .. n + 9 /\ i # n + 7 /\ i # 5
      OBVIOUS
    <3> QED
      BY <1>1, <1>10, <3>1
  <2>3. Bytes(r)
    BY <1>8
  <2> QED
    BY <1>9, <2>1, <2>2, <2>3, EndsRight
<1> QED
  BY <1>5, <1>8, <1>9, <1>11, <1>12 DEF sum

\* Type is one higher than in the command: a checksum that is one higher is
\* right again.
LEMMA ResponseIsValid ==
    ASSUME NEW n \in Nat, NEW c, CommandOf(c, n)
    PROVE  LET r == Response(c, n + 9, n + 6, 1)
           IN  Received(r) = Documented(r)
<1> DEFINE r == Response(c, n + 9, n + 6, 1)
           s == Checked(c, n)
           t == Checked(r, n)
<1>1. /\ Bytes(r) /\ Len(r) = n + 9
      /\ r[5] = 162 /\ r[n + 7] = (c[n + 7] + 1) % 256
      /\ \A i \in 1 .. n + 6 : i # 5 => r[i] = c[i]
  BY ResponseIs
<1>2. Bytes(c) /\ Len(c) = n + 9 /\ c[5] = 161 /\ c[n + 7] = Sum(s) % 256
  BY DEF CommandOf
<1> HIDE DEF r
<1>3. /\ Bytes(s) /\ Len(s) = n + 4
      /\ \A i \in 1 .. n + 4 : s[i] = c[2 + i]
  BY <1>2, CheckedIs
<1>4. /\ Bytes(t) /\ Len(t) = n + 4
      /\ \A i \in 1 .. n + 4 : t[i] = r[2 + i]
  BY <1>1, CheckedIs
<1> HIDE DEF s, t
<1>5. Sum(t) = Sum(s) + 1
  <2>1. s \in Seq(Int) /\ t \in Seq(Int)
    BY <1>3, <1>4, BytesAreInts
  <2>2. Len(t) = Len(s)
    BY <1>3, <1>4
  <2>3. t[3] = s[3] + 1
    <3>1. 3 \in 1 .. n + 4 /\ 2 + 3 = 5
      OBVIOUS
    <3>2. t[3] = r[5] /\ s[3] = c[5]
      BY <1>3, <1>4, <3>1
    <3> QED
      BY <1>1, <1>2, <3>2
  <2>4. \A k \in 1 .. n + 4 : k # 3 => t[k] = s[k]
    <3>1. ASSUME NEW k \in 1 .. n + 4, k # 3 PROVE t[k] = s[k]
      <4>1. 2 + k \in 1 .. n + 6 /\ 2 + k # 5
        BY <3>1
      <4> QED
        BY <1>1, <1>3, <1>4, <4>1
    <3> QED
      BY <3>1
  <2>5. \A k \in 1 .. Len(s) : k # 3 => t[k] = s[k]
    BY <1>3, <2>4, Zenon
  <2>6. 3 \in 1 .. Len(s) /\ 1 \in Int
    BY <1>3
  <2> QED
    BY <2>1, <2>2, <2>3, <2>5, <2>6, SumRaised
<1>6. Received(r) = ((Sum(s) % 256) + 1) % 256
  <2>1. Len(r) - 2 = n + 7
    BY <1>1
  <2> QED
    BY <1>1, <1>2, <2>1 DEF Received
<1>7. Documented(r) = Sum(t) % 256
  <2>1. Len(r) - 3 = 3 - 1 + (n + 4)
    BY <1>1
  <2> QED
    BY <2>1 DEF Documented, Checked, t
<1>8. Sum(s) \in Int
  BY <1>3, BytesAreInts, SumIsInt
<1>9. ((Sum(s) % 256) + 1) % 256 = (Sum(s) + 1) % 256
  BY <1>8
<1> QED
  BY <1>5, <1>6, <1>7, <1>9 DEF r


-----------------------------------------------------------------------------
(* Quantities                                                              *)

\* The values of an unsigned int.
Unsigned == {n \in Nat : n <= 4294967295}

LEMMA EncodeIsBytes ==
    ASSUME NEW dt \in Unsigned
    PROVE  /\ ByteCount(dt) \in 1 .. 4 /\ Bytes(Encode(dt)) /\ Len(Encode(dt)) = ByteCount(dt)
           /\ \A k \in 1 .. ByteCount(dt) : Encode(dt)[k] = (dt \div 256 ^ (ByteCount(dt) - k)) % 256
<1> DEFINE n == ByteCount(dt)
<1>1. n \in 1 .. 4
  BY DEF ByteCount
<1>2. Encode(dt) = [k \in 1 .. n |-> (dt \div 256 ^ (n - k)) % 256]
  BY DEF Encode
<1> HIDE DEF n
<1>3. ASSUME NEW k \in 1 .. n PROVE (dt \div 256 ^ (n - k)) % 256 \in Byte
  <2>1. n - k = 0 \/ n - k = 1 \/ n - k = 2 \/ n - k = 3
    BY <1>1
  <2>2. 256 ^ 0 = 1 /\ 256 ^ 1 = 256 /\ 256 ^ 2 = 65536 /\ 256 ^ 3 = 16777216
    BY SMT
  <2>3. 256 ^ (n - k) \in {256 ^ 0, 256 ^ 1, 256 ^ 2, 256 ^ 3}
    BY <2>1
  <2>4. 256 ^ (n - k) \in {1, 256, 65536, 16777216}
    BY <2>2, <2>3, SMT
  <2> QED
    BY <2>4, SMT DEF Byte, Unsigned
<1> QED
  BY <1>1, <1>2, <1>3 DEF Bytes, n

\* The bytes of a number, put together again.
LEMMA Recomposed ==
    ASSUME NEW x \in Unsigned
    PROVE  /\ x <= 255 => x % 256 = x
           /\ x <= 65535 => 256 * ((x \div 256) % 256) + (x % 256) = x
           /\ x <= 16777215 => 65536 * ((x \div 65536) % 256) + 256 * ((x \div 256) % 256) + (x % 256) = x
           /\ 16777216 * ((x \div 16777216) % 256) + 65536 * ((x \div 65536) % 256)
                + 256 * ((x \div 256) % 256) + (x % 256) = x
BY SMT DEF Unsigned

LEMMA EncodeIs ==
    ASSUME NEW dt \in Unsigned
    PROVE  /\ Bytes(Encode(dt)) /\ Len(Encode(dt)) <= 4
           /\ BigEndian(Encode(dt)) = dt
<1> DEFINE s == Encode(dt)
           n == ByteCount(dt)
<1>1. /\ n \in 1 .. 4 /\ Bytes(s) /\ Len(s) = n
      /\ \A k \in 1 .. n : s[k] = (dt \div 256 ^ (n - k)) % 256
  BY EncodeIsBytes
<1>2. s \in Seq(Int)
  BY <1>1, BytesAreInts
<1>3. /\ Len(s) = 1 => BigEndian(s) = s[1]
      /\ Len(s) = 2 => BigEndian(s) = 256 * s[1] + s[2]
      /\ Len(s) = 3 => BigEndian(s) = 65536 * s[1] + 256 * s[2] + s[3]
      /\ Len(s) = 4 => BigEndian(s) = 16777216 * s[1] + 65536 * s[2] + 256 * s[3] + s[4]
  BY <1>2, BigEndianIs
<1>4. /\ n = 1 => dt <= 255 
      /\ n = 2 => dt <= 65535
      /\ n = 3 => dt <= 16777215
  BY SMT DEF ByteCount, Unsigned
<1>5. dt \div 1 = dt
  BY SMT DEF Unsigned
<1> HIDE DEF s, n
<1>6. ASSUME n = 1 PROVE BigEndian(s) = dt
  <2>1. s[1] = (dt \div 256 ^ (1 - 1)) % 256
    BY <1>1, <1>6
  <2>2. s[1] = dt % 256
    BY <1>5, <2>1, SMT
  <2> QED
    BY <1>1, <1>3, <1>4, <1>6, <2>2, Recomposed, SMT
<1>7. ASSUME n = 2 PROVE BigEndian(s) = dt
  <2>1. s[1] = (dt \div 256 ^ (2 - 1)) % 256 /\ s[2] = (dt \div 256 ^ (2 - 2)) % 256
    BY <1>1, <1>7
  <2>2. s[1] = (dt \div 256) % 256 /\ s[2] = dt % 256
    BY <1>5, <2>1, SMT
  <2> QED
    BY <1>1, <1>3, <1>4, <1>7, <2>2, Recomposed, SMT
<1>8. ASSUME n = 3 PROVE BigEndian(s) = dt
  <2>1. /\ s[1] = (dt \div 256 ^ (3 - 1)) % 256 /\ s[2] = (dt \div 256 ^ (3 - 2)) % 256
        /\ s[3] = (dt \div 256 ^ (3 - 3)) % 256
    BY <1>1, <1>8
  <2>2. s[1] = (dt \div 65536) % 256 /\ s[2] = (dt \div 256) % 256 /\ s[3] = dt % 256
    BY <1>5, <2>1, SMT
  <2> QED
    BY <1>1, <1>3, <1>4, <1>8, <2>2, Recomposed, SMT
<1>9. ASSUME n = 4 PROVE BigEndian(s) = dt
  <2>1. /\ s[1] = (dt \div 256 ^ (4 - 1)) % 256 /\ s[2] = (dt \div 256 ^ (4 - 2)) % 256
        /\ s[3] = (dt \div 256 ^ (4 - 3)) % 256 /\ s[4] = (dt \div 256 ^ (4 - 4)) % 256
    BY <1>1, <1>9
  <2>2. /\ s[1] = (dt \div 16777216) % 256 /\ s[2] = (dt \div 65536) % 256
        /\ s[3] = (dt \div 256) % 256 /\ s[4] = dt % 256
    BY <1>5, <2>1, SMT
  <2> QED
    BY <1>1, <1>3, <1>9, <2>2, Recomposed, SMT
<1>10. BigEndian(s) = dt
  BY <1>1, <1>6, <1>7, <1>8, <1>9, SMT
<1>11. Len(s) <= 4
  BY <1>1
<1> QED
  BY <1>1, <1>10, <1>11 DEF s

\* No quantity outgrows an unsigned int, whatever the counter.
LEMMA UnitsAreUnsigned ==
    ASSUME NEW cf \in Pulses
    PROVE  /\ Power(cf) \in Unsigned /\ Energy(cf) \in Unsigned
           /\ Current(cf) \in Unsigned /\ Voltage(cf) \in Unsigned
<1>1. cf \in Nat /\ cf <= 32767
  BY PulsesAssumption
<1> QED
  BY <1>1, SMT DEF Power, Energy, Current, Voltage, Unsigned

LEMMA MultiplesAre ==
    /\ Bytes(One) /\ Len(One) = 2 /\ BigEndian(One) = 1
    /\ Bytes(TenThousand) /\ Len(TenThousand) = 2 /\ BigEndian(TenThousand) = 10000
    /\ Bytes(<<0, 0>>) /\ Len(<<0, 0>>) = 2
<1>1. 0 \in Byte /\ 1 \in Byte /\ 39 \in Byte /\ 16 \in Byte
  BY DEF Byte
<1>2. /\ Bytes(One) /\ Len(One) = 2 /\ One[1] = 0 /\ One[2] = 1
      /\ Bytes(TenThousand) /\ Len(TenThousand) = 2 /\ TenThousand[1] = 39 /\ TenThousand[2] = 16
      /\ Bytes(<<0, 0>>) /\ Len(<<0, 0>>) = 2
  BY <1>1, TwoBytes DEF One, TenThousand
<1>3. One \in Seq(Int) /\ TenThousand \in Seq(Int)
  BY <1>2, BytesAreInts
<1>4. BigEndian(One) = 256 * 0 + 1
  BY <1>2, <1>3, BigEndianIs
<1>5. BigEndian(TenThousand) = 256 * 39 + 16
  BY <1>2, <1>3, BigEndianIs
<1> QED
  BY <1>2, <1>4, <1>5


-----------------------------------------------------------------------------
(* The parts of the frames                                                 *)

\* n bytes.
Sized(s, n) == Bytes(s) /\ Len(s) = n

LEMMA SizedCat ==
    ASSUME NEW s, NEW t, NEW m \in Nat, NEW n \in Nat, Sized(s, m), Sized(t, n)
    PROVE  Sized(Cat(s, t), m + n)
<1>1. Bytes(s) /\ Bytes(t) /\ Len(s) = m /\ Len(t) = n
  BY DEF Sized
<1>2. Bytes(Cat(s, t)) /\ Len(Cat(s, t)) = Len(s) + Len(t)
  <2>1. Bytes(s) /\ Bytes(t)
    BY <1>1
  <2> QED
    BY <2>1, CatIs
<1> QED
  BY <1>1, <1>2 DEF Sized

LEMMA SizedBytes == ASSUME NEW n \in Nat, NEW s \in [1 .. n -> Byte] PROVE Sized(s, n)
BY DEF Sized, Bytes

LEMMA SizedConstant == ASSUME NEW n \in Nat, NEW v \in Byte PROVE Sized([k \in 1 .. n |-> v], n)
BY DEF Sized, Bytes

LEMMA FixedParts == Sized(Blank, 9) /\ \A time \in Times : Sized(time, 6)
<1>1. Sized(DeviceNo, 8)
  BY DeviceAssumption, SizedBytes
<1>2. Sized(<<Module>>, 1)
  <2>1. Module \in Byte
    BY DEF Module, Byte
  <2> QED
    BY <2>1, OneByte DEF Sized
<1>3. \A time \in Times : Sized(time, 6)
  BY TimesAssumption, SizedBytes
<1>4. Blank = Cat(<<Module>>, DeviceNo)
  BY DEF Blank, Cat
<1>5. Sized(Cat(<<Module>>, DeviceNo), 1 + 8)
  BY <1>1, <1>2, SizedCat
<1>6. 1 + 8 = 9
  OBVIOUS
<1> QED
  BY <1>3, <1>4, <1>5, <1>6

\* What every frame that is sent is.
Proper(f) == Bytes(f) /\ Len(f) <= 100 /\ Right(f)

LEMMA FrameIsProper ==
    ASSUME NEW cmd \in Byte, NEW n \in Nat, n <= 91, NEW content, Sized(content, n)
    PROVE  Proper(Frame(cmd, content)) /\ Frame(cmd, content)[6] = cmd
<1>1. Bytes(content) /\ Len(content) <= 91
  BY DEF Sized
<1>2. LET f == Frame(cmd, content) IN Bytes(f) /\ Len(f) = Len(content) + 9 /\ Right(f) /\ f[6] = cmd
  BY <1>1, FrameIs
<1>3. Len(Frame(cmd, content)) <= 100
  <2>1. Len(content) = n
    BY DEF Sized
  <2> QED
    BY <1>2, <2>1
<1> QED
  BY <1>2, <1>3 DEF Proper

LEMMA BeatIsProper == Proper(BeatFrame) /\ BeatFrame[6] = 1
<1> DEFINE version == <<34, 86, 49, 46, 48, 49, 34>>
           state   == <<32, 1, 32>>
<1>1. Sized(version, 7) /\ Sized(state, 3)
  BY DEF Sized, Bytes, Byte
<1>2. BeatFrame = Frame(1, Cat(Cat(Blank, version), state))
  BY DEF BeatFrame, Cat, Blank
<1> HIDE DEF version, state
<1>3. Sized(Cat(Blank, version), 9 + 7)
  BY <1>1, FixedParts, SizedCat
<1>4. Sized(Cat(Cat(Blank, version), state), 16 + 3)
  <2>1. Sized(Cat(Blank, version), 16)
    BY <1>3
  <2> QED
    BY <1>1, <2>1, SizedCat
<1>5. 1 \in Byte /\ 16 + 3 \in Nat /\ 16 + 3 <= 91
  BY DEF Byte
<1> QED
  BY <1>2, <1>4, <1>5, FrameIsProper

LEMMA WarnIsProper ==
    ASSUME NEW time \in Times, NEW alarm \in {1, 2, 4}
    PROVE  Proper(WarnFrame(time, alarm)) /\ WarnFrame(time, alarm)[6] = 23
<1> DEFINE end == <<0, alarm, 0>>
<1>1. Sized(end, 3)
  BY DEF Sized, Bytes, Byte
<1>2. WarnFrame(time, alarm) = Frame(23, Cat(Cat(Blank, time), end))
  BY DEF WarnFrame, Cat, Blank
<1> HIDE DEF end
<1>3. Sized(Cat(Blank, time), 9 + 6)
  BY FixedParts, SizedCat
<1>4. Sized(Cat(Cat(Blank, time), end), 15 + 3)
  <2>1. Sized(Cat(Blank, time), 15)
    BY <1>3
  <2> QED
    BY <1>1, <2>1, SizedCat
<1>5. 23 \in Byte /\ 15 + 3 \in Nat /\ 15 + 3 <= 91
  BY DEF Byte
<1> QED
  BY <1>2, <1>4, <1>5, FrameIsProper

\* The same with the length and the index as the handlers write them.
LEMMA ResponseIsProper ==
    ASSUME NEW n \in Nat, n <= 91, NEW c, CommandOf(c, n), NEW by \in Nat,
           NEW length, length = n + 9, NEW at, at = n + 6
    PROVE  Proper(Response(c, length, at, by))
<1> DEFINE r == Response(c, n + 9, n + 6, by)
<1>1. Bytes(r) /\ Len(r) = n + 9 /\ Right(r)
  BY ResponseIs
<1> HIDE DEF r
<1>2. Len(r) <= 100
  BY <1>1
<1> QED
  BY <1>1, <1>2 DEF Proper, r

LEMMA SwitchResponseIs ==
    ASSUME NEW c \in SwitchCommands
    PROVE  Proper(SwitchResponse(c)) /\ Received(SwitchResponse(c)) = Documented(SwitchResponse(c))
<1>1. PICK state \in 0 .. 2, time \in Times : c = Command(21, Cat(Cat(Blank, <<1, state>>), time))
  BY DEF SwitchCommands, Cat
<1> DEFINE switch  == <<1, state>>
           content == Cat(Cat(Blank, switch), time)
<1>2. Sized(switch, 2) /\ Sized(Blank, 9) /\ Sized(time, 6)
  <2>1. 1 \in Byte /\ state \in Byte
    BY <1>1 DEF Byte
  <2> QED
    BY <2>1, TwoBytes, FixedParts DEF Sized
<1> HIDE DEF switch
<1>3. Sized(content, 17)
  <2>1. Sized(Cat(Blank, switch), 9 + 2)
    BY <1>2, SizedCat
  <2>2. Sized(Cat(Blank, switch), 11)
    BY <2>1
  <2>3. Sized(content, 11 + 6)
    BY <1>2, <2>2, SizedCat
  <2> QED
    BY <2>3
<1>4. c = Command(21, content)
  BY <1>1 DEF switch
<1> HIDE DEF content
<1>5. CommandOf(c, 17)
  <2>1. Bytes(content) /\ 17 = Len(content) /\ 17 \in Nat /\ 17 <= 91 /\ 21 \in Byte
    BY <1>3 DEF Sized, Byte
  <2> QED
    BY <1>4, <2>1, CommandIs
<1>6. PICK n \in Nat : n = 17
  OBVIOUS
<1>7. n <= 91 /\ 26 = n + 9 /\ 23 = n + 6 /\ 1 \in Nat /\ CommandOf(c, n)
  BY <1>5, <1>6
<1>8. Proper(Response(c, 26, 23, 1))
  BY <1>7, ResponseIsProper
<1>9. LET r == Response(c, n + 9, n + 6, 1) IN Received(r) = Documented(r)
  BY <1>7, ResponseIsValid
<1> QED
  BY <1>7, <1>8, <1>9, Zenon DEF SwitchResponse

LEMMA IpResponseIs == ASSUME NEW c \in IpCommands PROVE Proper(IpResponse(c))
<1> DEFINE address == <<34, 49, 46, 49, 34>>
           port    == <<34, 56, 48, 34>>
           content == Cat(Cat(Blank, address), port)
<1>1. c = Command(4, content)
  BY DEF IpCommands, Cat
<1>2. Sized(address, 5) /\ Sized(port, 4) /\ Sized(Blank, 9)
  BY FixedParts DEF Sized, Bytes, Byte
<1> HIDE DEF address, port
<1>3. Sized(content, 18)
  <2>1. Sized(Cat(Blank, address), 9 + 5)
    BY <1>2, SizedCat
  <2>2. Sized(Cat(Blank, address), 14)
    BY <2>1
  <2>3. Sized(content, 14 + 4)
    BY <1>2, <2>2, SizedCat
  <2> QED
    BY <2>3
<1> HIDE DEF content
<1>4. CommandOf(c, 18)
  <2>1. Bytes(content) /\ 18 = Len(content) /\ 18 \in Nat /\ 18 <= 91 /\ 4 \in Byte
    BY <1>3 DEF Sized, Byte
  <2> QED
    BY <1>1, <2>1, CommandIs
<1>5. PICK n \in Nat : n = 18
  OBVIOUS
<1>6. n <= 91 /\ 2 \in Nat /\ CommandOf(c, n)
  BY <1>4, <1>5
<1>7. c[4] + 6 = n + 9 /\ c[4] + 3 = n + 6
  BY <1>5, <1>6 DEF CommandOf
<1> QED
  BY <1>6, <1>7, ResponseIsProper DEF IpResponse

LEMMA FrequencyResponseIs == ASSUME NEW c \in FrequencyCommands PROVE Proper(FrequencyResponse(c))
<1>1. PICK v \in {0, 60, 255} : c = Command(1, Cat(Blank, [k \in 1 .. 12 |-> v]))
  BY DEF FrequencyCommands, Cat
<1> DEFINE data    == [k \in 1 .. 12 |-> v]
           content == Cat(Blank, data)
<1>2. Sized(data, 12)
  <2>1. PICK n \in Nat : n = 12
    OBVIOUS
  <2>2. v \in Byte
    BY <1>1 DEF Byte
  <2>3. Sized([k \in 1 .. n |-> v], n)
    BY <2>2, SizedConstant
  <2> QED
    BY <2>1, <2>3
<1> HIDE DEF data
<1>3. Sized(content, 21)
  <2>1. Sized(content, 9 + 12)
    BY <1>2, FixedParts, SizedCat
  <2> QED
    BY <2>1
<1>4. c = Command(1, content)
  BY <1>1 DEF data
<1> HIDE DEF content
<1>5. CommandOf(c, 21)
  <2>1. PICK n \in Nat : n = 21
    OBVIOUS
  <2>2. Bytes(content) /\ n = Len(content) /\ n <= 91 /\ n \in Nat /\ 1 \in Byte
    BY <1>3, <2>1 DEF Sized, Byte
  <2>3. CommandOf(Command(1, content), n)
    BY <2>2, CommandIs
  <2> QED
    BY <1>4, <2>1, <2>3
<1>6. PICK n \in Nat : n = 21
  OBVIOUS
<1>7. n <= 91 /\ 30 = n + 9 /\ 27 = n + 6 /\ 2 \in Nat /\ CommandOf(c, n)
  BY <1>5, <1>6
<1> QED
  BY <1>7, ResponseIsProper DEF FrequencyResponse


-----------------------------------------------------------------------------
(* The data report                                                         *)

\* A quantity that can be sent.
Sendable(q) == Sized(q.multiple, 2) /\ Bytes(q.value) /\ Len(q.value) <= 4

Width(q) == 4 + Len(q.value)

LEMMA SendableIs ==
    ASSUME NEW q, Sendable(q)
    PROVE  /\ Sized(<<0>>, 1) /\ Sized(<<Len(q.value)>>, 1) /\ Len(q.value) \in Nat
           /\ Width(q) \in Nat /\ Width(q) <= 8
<1>1. Len(q.value) \in Nat /\ Len(q.value) <= 4
  BY DEF Sendable, Bytes
<1>2. 0 \in Byte /\ Len(q.value) \in Byte
  <2>1. Len(q.value) <= 255 /\ 0 <= 255 /\ 0 \in Nat
    BY <1>1
  <2> QED
    BY <1>1, <2>1, SmallIsByte
<1> QED
  BY <1>1, <1>2, OneByte DEF Sized, Width

LEMMA FieldIs ==
    ASSUME NEW q, Sendable(q)
    PROVE  /\ Field(q) = Cat(Cat(Cat(<<0>>, q.multiple), <<Len(q.value)>>), q.value)
           /\ Sized(Field(q), Width(q))
<1> DEFINE sign   == <<0>>
           length == <<Len(q.value)>>
           m == Cat(sign, q.multiple)
           l == Cat(m, length)
<1>1. Field(q) = Cat(l, q.value)
  BY DEF Field, Cat
<1>2. Sized(sign, 1) /\ Sized(length, 1) /\ Sized(q.multiple, 2) /\ Len(q.value) \in Nat
  BY SendableIs DEF Sendable
<1> HIDE DEF sign, length
<1>3. Sized(m, 1 + 2)
  BY <1>2, SizedCat
<1>4. Sized(m, 3)
  BY <1>3
<1>5. Sized(l, 3 + 1)
  BY <1>2, <1>4, SizedCat
<1>6. Sized(l, 4) /\ Sized(q.value, Len(q.value))
  BY <1>5 DEF Sendable, Sized
<1>7. Sized(Cat(l, q.value), 4 + Len(q.value))
  <2> HIDE DEF l
  <2> QED
    BY <1>2, <1>6, SizedCat
<1> QED
  BY <1>1, <1>7 DEF Width, sign, length

\* A receiver at the start of a quantity reads its multiple and its value.
LEMMA FieldRead ==
    ASSUME NEW q, Sendable(q), NEW f, Bytes(f), NEW p \in Nat \ {0}, At(f, p, Field(q)),
           p - 1 + Width(q) <= Len(f)
    PROVE  /\ f[p + 3] = Len(q.value)
           /\ SubSeq(f, p + 1, p + 2) = q.multiple
           /\ SubSeq(f, p + 4, p + 3 + f[p + 3]) = q.value
<1> DEFINE sign   == <<0>>
           length == <<Len(q.value)>>
           m == Cat(sign, q.multiple)
           l == Cat(m, length)
<1>1. At(f, p, Cat(l, q.value))
  BY FieldIs
<1>2. /\ Sized(sign, 1) /\ Sized(length, 1) /\ Sized(q.multiple, 2)
      /\ Len(q.value) \in Nat /\ length[1] = Len(q.value)
  BY SendableIs DEF Sendable
<1> HIDE DEF sign, length
<1>3. Sized(m, 3)
  <2>1. Sized(m, 1 + 2)
    BY <1>2, SizedCat
  <2> QED
    BY <2>1
<1>4. Sized(l, 4)
  <2>1. Sized(l, 3 + 1)
    BY <1>2, <1>3, SizedCat
  <2> QED
    BY <2>1
<1> HIDE DEF m, l
<1>5. At(f, p, l) /\ At(f, p + 4, q.value)
  <2>1. Bytes(l) /\ Bytes(q.value) /\ p \in Int
    BY <1>4 DEF Sized, Sendable
  <2>2. At(f, p, l) /\ At(f, p + Len(l), q.value)
    BY <1>1, <2>1, AtCat
  <2>3. Len(l) = 4
    BY <1>4 DEF Sized
  <2> QED
    BY <2>2, <2>3
<1>6. At(f, p, m) /\ At(f, p + 3, length)
  <2>1. Bytes(m) /\ Bytes(length) /\ p \in Int
    BY <1>2, <1>3 DEF Sized
  <2>2. At(f, p, m) /\ At(f, p + Len(m), length)
    BY <1>5, <2>1, AtCat DEF l
  <2>3. Len(m) = 3
    BY <1>3 DEF Sized
  <2> QED
    BY <2>2, <2>3
<1>7. At(f, p + 1, q.multiple)
  <2>1. Bytes(sign) /\ Bytes(q.multiple) /\ p \in Int
    BY <1>2 DEF Sized
  <2>2. At(f, p + Len(sign), q.multiple)
    BY <1>6, <2>1, AtCat DEF m
  <2>3. Len(sign) = 1
    BY <1>2 DEF Sized
  <2> QED
    BY <2>2, <2>3
<1>8. f[p + 3] = Len(q.value)
  <2>1. Len(length) = 1
    BY <1>2 DEF Sized
  <2>2. 1 \in 1 .. Len(length) /\ p + 3 - 1 + 1 = p + 3
    BY <2>1
  <2>3. f[p + 3 - 1 + 1] = length[1]
    BY <1>6, <2>2 DEF At
  <2> QED
    BY <1>2, <2>2, <2>3
<1>9. SubSeq(f, p + 1, p + 2) = q.multiple
  <2>1. PICK k \in Nat \ {0} : k = p + 1
    OBVIOUS
  <2>2. Bytes(q.multiple) /\ Len(q.multiple) = 2
    BY <1>2 DEF Sized
  <2>3. k - 1 + Len(q.multiple) <= Len(f) /\ k - 1 + Len(q.multiple) = p + 2
    <3>1. Len(f) \in Nat
      BY DEF Bytes
    <3> QED
      BY <1>2, <2>1, <2>2, <3>1 DEF Width
  <2>4. SubSeq(f, k, k - 1 + Len(q.multiple)) = q.multiple
    <3>1. At(f, k, q.multiple) /\ Bytes(q.multiple) /\ k \in Nat \ {0}
      BY <1>7, <2>1, <2>2
    <3> QED
      BY <2>3, <3>1, AtIsSubSeq
  <2> QED
    BY <2>1, <2>3, <2>4
<1>10. SubSeq(f, p + 4, p + 3 + Len(q.value)) = q.value
  <2>1. PICK k \in Nat \ {0} : k = p + 4
    OBVIOUS
  <2>2. Bytes(q.value)
    BY DEF Sendable
  <2>3. k - 1 + Len(q.value) <= Len(f) /\ k - 1 + Len(q.value) = p + 3 + Len(q.value)
    <3>1. PICK j \in Nat, n \in Nat : j = Len(f) /\ n = Len(q.value)
      BY <1>2 DEF Bytes
    <3>2. p - 1 + (4 + n) <= j
      BY <3>1 DEF Width
    <3>3. k - 1 + n <= j /\ k - 1 + n = p + 3 + n
      BY <2>1, <3>2
    <3> QED
      BY <3>1, <3>3
  <2>4. SubSeq(f, k, k - 1 + Len(q.value)) = q.value
    <3>1. At(f, k, q.value) /\ Bytes(q.value) /\ k \in Nat \ {0}
      BY <1>5, <2>1, <2>2
    <3> QED
      BY <2>3, <3>1, AtIsSubSeq
  <2> QED
    BY <2>1, <2>3, <2>4
<1> QED
  BY <1>8, <1>9, <1>10


\* What the quantities are, and how wide in a report.
Uploads ==
    /\ upload = [q \in Quantities |-> upload[q]]
    /\ \A q \in Quantities : Sendable(upload[q]) /\ upload[q].multiple \in {<<0, 0>>, One, TenThousand}

Wide(q) == Width(upload[q])

LEMMA WidthsAre ==
    ASSUME Uploads
    PROVE  \A q \in Quantities : Sendable(upload[q]) /\ Wide(q) \in Nat /\ Wide(q) <= 8
                                 /\ Sized(Field(upload[q]), Wide(q))
BY SendableIs, FieldIs DEF Uploads, Wide

\* Where the quantities stand in a report.
LEMMA DataIs ==
    ASSUME Uploads, NEW time \in Times
    PROVE  LET f == DataFrame(time)
           IN  /\ Proper(f) /\ f[6] = 19
               /\ Len(f) = 25 + Wide("V") + Wide("I") + Wide("P") + Wide("Q")
               /\ At(f, 23, Field(upload["V"]))
               /\ At(f, 23 + Wide("V"), Field(upload["I"]))
               /\ At(f, 23 + Wide("V") + Wide("I"), Field(upload["P"]))
               /\ At(f, 23 + Wide("V") + Wide("I") + Wide("P"), Field(upload["Q"]))
<1> DEFINE one   == <<1>>
           start == Cat(Cat(Blank, time), one)
           V == Field(upload["V"])
           I == Field(upload["I"])
           P == Field(upload["P"])
           Q == Field(upload["Q"])
           v == Wide("V")
           i == Wide("I")
           p == Wide("P")
           r == Wide("Q")
           toV == Cat(start, V)
           toI == Cat(toV, I)
           toP == Cat(toI, P)
           content == Cat(toP, Q)
           f == DataFrame(time)
<1>1. f = Frame(19, content)
  BY DEF DataFrame, Cat, Blank
<1>2. /\ v \in Nat /\ v <= 8 /\ Sized(V, v) /\ i \in Nat /\ i <= 8 /\ Sized(I, i)
      /\ p \in Nat /\ p <= 8 /\ Sized(P, p) /\ r \in Nat /\ r <= 8 /\ Sized(Q, r)
  BY WidthsAre DEF Quantities
<1>3. Sized(one, 1)
  <2>1. 1 \in Byte
    BY DEF Byte
  <2> QED
    BY <2>1, OneByte DEF Sized
<1> HIDE DEF one, V, I, P, Q, v, i, p, r
<1>4. Sized(start, 16)
  <2>1. Sized(Cat(Blank, time), 9 + 6)
    BY FixedParts, SizedCat
  <2>2. Sized(Cat(Blank, time), 15)
    BY <2>1
  <2>3. Sized(start, 15 + 1)
    BY <1>3, <2>2, SizedCat
  <2> QED
    BY <2>3
<1> HIDE DEF start
<1>5. Sized(toV, 16 + v)
  BY <1>2, <1>4, SizedCat
<1> HIDE DEF toV
<1>6. Sized(toI, 16 + v + i)
  BY <1>2, <1>5, SizedCat
<1> HIDE DEF toI
<1>7. Sized(toP, 16 + v + i + p)
  BY <1>2, <1>6, SizedCat
<1> HIDE DEF toP
<1>8. Sized(content, 16 + v + i + p + r)
  BY <1>2, <1>7, SizedCat
<1> HIDE DEF content
<1>9. Proper(f) /\ f[6] = 19
  <2>1. 16 + v + i + p + r \in Nat /\ 16 + v + i + p + r <= 91 /\ 19 \in Byte
    BY <1>2 DEF Byte
  <2> QED
    BY <1>1, <1>8, <2>1, FrameIsProper
<1>10. Len(f) = Len(content) + 9 /\ At(f, 7, content)
  <2>1. Bytes(content) /\ Len(content) <= 91 /\ 19 \in Byte
    <3>1. Bytes(content) /\ Len(content) = 16 + v + i + p + r
      BY <1>8 DEF Sized
    <3> QED
      BY <1>2, <3>1 DEF Byte
  <2> QED
    BY <1>1, <2>1, FrameIs
<1> HIDE DEF f
<1>11. Len(f) = 25 + v + i + p + r
  <2>1. Len(content) = 16 + v + i + p + r
    BY <1>8 DEF Sized
  <2> QED
    BY <1>2, <1>10, <2>1
<1>12. At(f, 7, toP) /\ At(f, 23 + v + i + p, Q)
  <2>1. Bytes(toP) /\ Bytes(Q) /\ Len(toP) = 16 + v + i + p
    BY <1>2, <1>7 DEF Sized
  <2>2. At(f, 7, toP) /\ At(f, 7 + Len(toP), Q)
    BY <1>10, <2>1, AtCat DEF content
  <2> QED
    BY <1>2, <2>1, <2>2
<1>13. At(f, 7, toI) /\ At(f, 23 + v + i, P)
  <2>1. Bytes(toI) /\ Bytes(P) /\ Len(toI) = 16 + v + i
    BY <1>2, <1>6 DEF Sized
  <2>2. At(f, 7, toI) /\ At(f, 7 + Len(toI), P)
    BY <1>12, <2>1, AtCat DEF toP
  <2> QED
    BY <1>2, <2>1, <2>2
<1>14. At(f, 7, toV) /\ At(f, 23 + v, I)
  <2>1. Bytes(toV) /\ Bytes(I) /\ Len(toV) = 16 + v
    BY <1>2, <1>5 DEF Sized
  <2>2. At(f, 7, toV) /\ At(f, 7 + Len(toV), I)
    BY <1>13, <2>1, AtCat DEF toI
  <2> QED
    BY <1>2, <2>1, <2>2
<1>15. At(f, 23, V)
  <2>1. Bytes(start) /\ Bytes(V)
    BY <1>2, <1>4 DEF Sized
  <2>2. At(f, 7 + Len(start), V)
    BY <1>14, <2>1, AtCat DEF toV
  <2>3. 7 + Len(start) = 23
    BY <1>4 DEF Sized
  <2> QED
    BY <2>2, <2>3
<1> QED
  BY <1>9, <1>11, <1>12, <1>13, <1>14, <1>15 DEF f, v, i, p, r, V, I, P, Q


\* A server that walks over a report meets the quantities where they stand,
\* and reads what was uploaded.
LEMMA DataRead ==
    ASSUME Uploads, NEW time \in Times
    PROVE  LET f == DataFrame(time)
           IN  /\ Start("end", f) = Len(f) - 2
               /\ \A q \in Quantities : /\ Value(q, f) = BigEndian(upload[q].value)
                                        /\ Multiple(q, f) = BigEndian(upload[q].multiple)
<1> DEFINE f == DataFrame(time)
           v == Wide("V")
           i == Wide("I")
           p == Wide("P")
           r == Wide("Q")
           start == [q \in Quantities |->
                       CASE q = "V" -> 23 [] q = "I" -> 23 + v
                         [] q = "P" -> 23 + v + i [] q = "Q" -> 23 + v + i + p]
<1>1. /\ Bytes(f) /\ Len(f) = 25 + v + i + p + r
      /\ At(f, 23, Field(upload["V"]))
      /\ At(f, 23 + v, Field(upload["I"]))
      /\ At(f, 23 + v + i, Field(upload["P"]))
      /\ At(f, 23 + v + i + p, Field(upload["Q"]))
  BY DataIs DEF Proper
<1>2. /\ v \in Nat /\ i \in Nat /\ p \in Nat /\ r \in Nat
      /\ \A q \in Quantities : Sendable(upload[q])
  BY WidthsAre DEF Quantities
<1> HIDE DEF f, v, i, p, r
<1>3. ASSUME NEW q \in Quantities, NEW s \in Nat \ {0}, At(f, s, Field(upload[q])),
             s - 1 + Width(upload[q]) <= Len(f)
      PROVE  /\ f[s + 3] = Len(upload[q].value)
             /\ SubSeq(f, s + 1, s + 2) = upload[q].multiple
             /\ SubSeq(f, s + 4, s + 3 + f[s + 3]) = upload[q].value
  <2>1. Sendable(upload[q]) /\ Bytes(f)
    BY <1>1, <1>2
  <2> QED
    BY <1>3, <2>1, FieldRead
<1>4. /\ start["V"] = 23 /\ start["I"] = 23 + v /\ start["P"] = 23 + v + i
      /\ start["Q"] = 23 + v + i + p
  BY DEF Quantities
<1> HIDE DEF start
<1>5. ASSUME NEW q \in Quantities
      PROVE  /\ start[q] \in Nat \ {0} /\ At(f, start[q], Field(upload[q]))
             /\ start[q] - 1 + Width(upload[q]) <= Len(f)
  <2>1. Width(upload[q]) = Wide(q)
    BY DEF Wide
  <2>2. CASE q = "V"
    BY <1>1, <1>2, <1>4, <2>1, <2>2 DEF v
  <2>3. CASE q = "I"
    BY <1>1, <1>2, <1>4, <2>1, <2>3 DEF i
  <2>4. CASE q = "P"
    BY <1>1, <1>2, <1>4, <2>1, <2>4 DEF p
  <2>5. CASE q = "Q"
    BY <1>1, <1>2, <1>4, <2>1, <2>5 DEF r
  <2> QED
    BY <2>2, <2>3, <2>4, <2>5 DEF Quantities
<1>6. ASSUME NEW q \in Quantities
      PROVE  /\ f[start[q] + 3] = Len(upload[q].value)
             /\ SubSeq(f, start[q] + 1, start[q] + 2) = upload[q].multiple
             /\ SubSeq(f, start[q] + 4, start[q] + 3 + f[start[q] + 3]) = upload[q].value
  BY <1>3, <1>5
<1> DEFINE after(s) == s + 4 + f[s + 3]
<1>7. /\ after(start["V"]) = start["I"] /\ after(start["I"]) = start["P"]
      /\ after(start["P"]) = start["Q"] /\ after(start["Q"]) = Len(f) - 2
  <2>1. ASSUME NEW q \in Quantities PROVE after(start[q]) = start[q] + Wide(q)
    <3>1. PICK x \in Nat : x = Len(upload[q].value)
      BY <1>2, SendableIs
    <3>2. f[start[q] + 3] = x /\ Wide(q) = 4 + x
      BY <1>6, <3>1 DEF Wide, Width
    <3>3. start[q] \in Nat
      BY <1>5
    <3> QED
      BY <3>2, <3>3
  <2> HIDE DEF after
  <2>2. /\ after(start["V"]) = start["V"] + v /\ after(start["I"]) = start["I"] + i
        /\ after(start["P"]) = start["P"] + p /\ after(start["Q"]) = start["Q"] + r
    BY <2>1 DEF Quantities, v, i, p, r
  <2> QED
    BY <1>1, <1>2, <1>4, <2>2
<1>8. /\ Start("V", f) = start["V"] /\ Start("I", f) = start["I"] /\ Start("P", f) = start["P"]
      /\ Start("Q", f) = start["Q"] /\ Start("end", f) = Len(f) - 2
  <2>1. /\ Start("V", f) = 23 /\ Start("I", f) = after(23) /\ Start("P", f) = after(after(23))
        /\ Start("Q", f) = after(after(after(23))) /\ Start("end", f) = after(after(after(after(23))))
    BY DEF Start
  <2> HIDE DEF after
  <2> QED
    BY <1>4, <1>7, <2>1
<1>9. \A q \in Quantities : Start(q, f) = start[q]
  BY <1>8 DEF Quantities
<1>10. \A q \in Quantities : /\ Value(q, f) = BigEndian(upload[q].value)
                             /\ Multiple(q, f) = BigEndian(upload[q].multiple)
  BY <1>6, <1>9 DEF Value, Multiple
<1> QED
  BY <1>8, <1>10 DEF f


-----------------------------------------------------------------------------
(* The invariant                                                           *)

Stages ==
    /\ mark \in {0, 1}
    /\ phase \in {"wait", "sampled", "reported"}
    /\ answered \in {"none", "switch", "ip", "frequency"}
    /\ measured \in [{"V", "I", "P"} -> Pulses \union {Never}]
    /\ phase # "wait" => measured["P"] # Never

\* What is uploaded is the last measurement of each quantity.
Measures ==
    /\ measured["P"] # Never => /\ upload["P"] = Quantity(TenThousand, Power(measured["P"]))
                                /\ upload["Q"] = Quantity(TenThousand, Energy(measured["P"]))
    /\ measured["V"] # Never => upload["V"] = Quantity(One, Voltage(measured["V"]))
    /\ measured["I"] # Never => upload["I"] = Quantity(TenThousand, Current(measured["I"]))

\* A data report stays on the wire only until the next sample: it carries what
\* is uploaded now.
OnTheWire ==
    /\ Sent => Proper(frame)
    /\ IsData => measured["P"] # Never /\ \E time \in Times : frame = DataFrame(time)
    /\ SwitchResponseValid

FrameInv == Stages /\ Uploads /\ Measures /\ OnTheWire


LEMMA QuantityIs ==
    ASSUME NEW dt \in Unsigned, NEW multiple \in {One, TenThousand}
    PROVE  /\ Sendable(Quantity(multiple, dt)) /\ Quantity(multiple, dt).multiple = multiple
           /\ BigEndian(Quantity(multiple, dt).value) = dt
<1>1. Bytes(Encode(dt)) /\ Len(Encode(dt)) <= 4 /\ BigEndian(Encode(dt)) = dt
  BY EncodeIs
<1>2. Sized(multiple, 2)
  BY MultiplesAre DEF Sized
<1>3. Quantity(multiple, dt).multiple = multiple /\ Quantity(multiple, dt).value = Encode(dt)
  BY DEF Quantity
<1> QED
  BY <1>1, <1>2, <1>3, Zenon DEF Sendable

LEMMA NeverIsNoCount == Never \notin Pulses
BY PulsesAssumption DEF Never

LEMMA FrameInit == Init => FrameInv
<1> SUFFICES ASSUME Init PROVE FrameInv
  OBVIOUS
<1>1. /\ upload = [q \in Quantities |-> [multiple |-> <<0, 0>>, value |-> <<>>]]
      /\ mark = 0 /\ phase = "wait" /\ frame = <<>> /\ answered = "none"
      /\ measured = [q \in {"V", "I", "P"} |-> Never]
  BY DEF Init
<1>2. Sendable([multiple |-> <<0, 0>>, value |-> <<>>])
  <2>1. Bytes(<<>>) /\ Len(<<>>) <= 4
    BY DEF Bytes
  <2> QED
    BY <2>1, MultiplesAre DEF Sendable, Sized
<1>3. Uploads
  BY <1>1, <1>2 DEF Uploads
<1>4. Stages /\ Measures
  BY <1>1 DEF Stages, Measures
<1>5. OnTheWire
  BY <1>1 DEF OnTheWire, Sent, IsData, SwitchResponseValid
<1> QED
  BY <1>3, <1>4, <1>5 DEF FrameInv

\* A sample replaces three of the quantities and forgets the frame.
LEMMA SampleInv ==
    ASSUME FrameInv, NEW cf \in Pulses, NEW cf1 \in Pulses, Sample(cf, cf1)
    PROVE  FrameInv'
<1> DEFINE P == Quantity(TenThousand, Power(cf))
           Q == Quantity(TenThousand, Energy(cf))
           C == IF Carries = "I" THEN Quantity(TenThousand, Current(cf1))
                                 ELSE Quantity(One, Voltage(cf1))
<1>1. /\ upload' = [upload EXCEPT !["P"] = P, !["Q"] = Q, ![Carries] = C]
      /\ measured' = [measured EXCEPT !["P"] = cf, ![Carries] = cf1]
      /\ mark' = 1 - mark /\ phase' = "sampled" /\ frame' = <<>> /\ answered' = "none"
  BY DEF Sample
<1>2. \A x \in {P, Q, C} : Sendable(x) /\ x.multiple \in {One, TenThousand}
  <2>1. /\ Power(cf) \in Unsigned /\ Energy(cf) \in Unsigned
        /\ Current(cf1) \in Unsigned /\ Voltage(cf1) \in Unsigned
    BY UnitsAreUnsigned
  <2>2. C = Quantity(TenThousand, Current(cf1)) \/ C = Quantity(One, Voltage(cf1))
    OBVIOUS
  <2>3. P = Quantity(TenThousand, Power(cf)) /\ Q = Quantity(TenThousand, Energy(cf))
    OBVIOUS
  <2> HIDE DEF P, Q, C
  <2> QED
    BY <2>1, <2>2, <2>3, QuantityIs
<1>3. Carries = "I" \/ Carries = "V"
  BY DEF Carries
<1>4. Stages /\ Uploads /\ Measures
  BY DEF FrameInv
<1>5. /\ upload'["P"] = P /\ upload'["Q"] = Q
      /\ Carries = "I" => upload'["I"] = C /\ upload'["V"] = upload["V"]
      /\ Carries = "V" => upload'["V"] = C /\ upload'["I"] = upload["I"]
  <2> HIDE DEF P, Q, C
  <2> QED
    BY <1>1, <1>3, <1>4 DEF Uploads, Quantities
<1>6. /\ measured' \in [{"V", "I", "P"} -> Pulses \union {Never}]
      /\ measured'["P"] = cf
      /\ Carries = "I" => measured'["I"] = cf1 /\ measured'["V"] = measured["V"]
      /\ Carries = "V" => measured'["V"] = cf1 /\ measured'["I"] = measured["I"]
  BY <1>1, <1>3, <1>4 DEF Stages
<1>7. Uploads'
  <2>1. upload' = [q \in Quantities |-> upload'[q]]
    BY <1>1, <1>4 DEF Uploads
  <2>2. \A q \in Quantities : upload'[q] \in {upload[q], P, Q, C}
    <3> HIDE DEF P, Q, C
    <3> QED
      BY <1>3, <1>5 DEF Quantities
  <2> HIDE DEF P, Q, C
  <2>3. \A q \in Quantities : Sendable(upload'[q]) /\ upload'[q].multiple \in {<<0, 0>>, One, TenThousand}
    BY <1>2, <1>4, <2>2 DEF Uploads
  <2> QED
    BY <2>1, <2>3 DEF Uploads
<1>8. Stages'
  <2>1. mark' \in {0, 1}
    BY <1>1, <1>4 DEF Stages
  <2>2. cf # Never
    BY NeverIsNoCount
  <2> QED
    BY <1>1, <1>6, <2>1, <2>2 DEF Stages
<1>9. Measures'
  <2>1. Carries = "I" => upload'["I"] = Quantity(TenThousand, Current(cf1))
    BY <1>5
  <2>2. Carries = "V" => upload'["V"] = Quantity(One, Voltage(cf1))
    BY <1>5
  <2>3. upload'["P"] = Quantity(TenThousand, Power(cf)) /\ upload'["Q"] = Quantity(TenThousand, Energy(cf))
    BY <1>5
  <2> HIDE DEF P, Q, C
  <2> QED
    BY <1>3, <1>4, <1>5, <1>6, <2>1, <2>2, <2>3 DEF Measures
<1>10. OnTheWire'
  BY <1>1 DEF OnTheWire, Sent, IsData, SwitchResponseValid
<1> QED
  BY <1>7, <1>8, <1>9, <1>10 DEF FrameInv

\* What is sent changes the wire only.
LEMMA SentInv ==
    ASSUME FrameInv, UNCHANGED <<upload, mark, measured>>,
           phase' \in {"wait", "sampled", "reported"}, phase' # "wait" => phase # "wait",
           answered' \in {"none", "switch", "ip", "frequency"}, OnTheWire'
    PROVE  FrameInv'
<1>1. Stages'
  BY DEF FrameInv, Stages
<1>2. Uploads' /\ Measures'
  BY DEF FrameInv, Uploads, Measures
<1> QED
  BY <1>1, <1>2 DEF FrameInv

LEMMA FrameStep == FrameInv /\ Next => FrameInv'
<1> SUFFICES ASSUME FrameInv, Next PROVE FrameInv'
  OBVIOUS
<1>1. phase \in {"wait", "sampled", "reported"} /\ Uploads
  BY DEF FrameInv, Stages
<1>2. ASSUME NEW cf \in Pulses, NEW cf1 \in Pulses, Sample(cf, cf1) PROVE FrameInv'
  BY <1>2, SampleInv
<1>3. CASE NotDue
  <2>1. OnTheWire'
    BY <1>3 DEF NotDue, FrameInv, OnTheWire, Sent, IsData, SwitchResponseValid, DataFrame
  <2>2. UNCHANGED <<upload, mark, measured, answered>> /\ phase' = "wait"
    BY <1>3 DEF NotDue
  <2> QED
    BY <2>1, <2>2, SentInv DEF FrameInv, Stages
<1>4. ASSUME NEW time \in Times, PublishData(time) PROVE FrameInv'
  <2>1. /\ UNCHANGED <<upload, mark, measured>> /\ phase = "sampled" /\ phase' = "reported"
        /\ frame' = DataFrame(time) /\ answered' = "none"
    BY <1>4 DEF PublishData, Send
  <2>2. Proper(DataFrame(time))
    BY <1>1, DataIs
  <2>3. measured["P"] # Never
    BY <2>1 DEF FrameInv, Stages
  <2>4. DataFrame(time)' = DataFrame(time) /\ Proper(frame)'
    BY <2>1, <2>2 DEF DataFrame, Proper, Bytes, Right
  <2>5. OnTheWire'
    BY <2>1, <2>3, <2>4 DEF OnTheWire, SwitchResponseValid
  <2> QED
    BY <2>1, <2>5, SentInv
<1>5. ASSUME NEW f, Proper(f), f[6] # 19, Send(f), UNCHANGED phase PROVE FrameInv'
  <2>1. UNCHANGED <<upload, mark, measured>> /\ frame' = f /\ answered' = "none"
    BY <1>5 DEF Send
  <2>2. Proper(frame)'
    BY <1>5, <2>1 DEF Proper, Bytes, Right
  <2>3. OnTheWire'
    BY <1>5, <2>1, <2>2 DEF OnTheWire, IsData, SwitchResponseValid
  <2> QED
    BY <1>1, <1>5, <2>1, <2>3, SentInv
<1>6. ASSUME NEW time \in Times, NEW alarm \in {1, 2, 4}, PublishWarn(time, alarm) PROVE FrameInv'
  BY <1>5, <1>6, WarnIsProper DEF PublishWarn
<1>7. CASE PublishBeat
  BY <1>5, <1>7, BeatIsProper DEF PublishBeat
<1>8. ASSUME NEW f, Proper(f), NEW cmd \in {"switch", "ip", "frequency"}, Answer(cmd, f),
             cmd = "switch" => Received(f) = Documented(f)
      PROVE  FrameInv'
  <2>1. UNCHANGED <<upload, mark, measured, phase>> /\ frame' = f /\ answered' = cmd
    BY <1>8 DEF Answer
  <2>2. Proper(frame)'
    BY <1>8, <2>1 DEF Proper, Bytes, Right
  <2>3. SwitchResponseValid'
    BY <1>8, <2>1 DEF SwitchResponseValid, Received, Documented
  <2>4. OnTheWire'
    BY <2>1, <2>2, <2>3 DEF OnTheWire, IsData
  <2> QED
    BY <1>1, <2>1, <2>4, SentInv
<1>9. CASE RespondSwitch
  BY <1>8, <1>9, SwitchResponseIs DEF RespondSwitch
<1>10. CASE RespondIp
  BY <1>8, <1>10, IpResponseIs DEF RespondIp
<1>11. CASE RespondFrequency
  BY <1>8, <1>11, FrequencyResponseIs DEF RespondFrequency
<1> QED
  BY <1>2, <1>3, <1>4, <1>6, <1>7, <1>9, <1>10, <1>11 DEF Next

LEMMA FrameInvariant == Spec => []FrameInv
<1>1. FrameInv /\ UNCHANGED vars => FrameInv'
  BY DEF FrameInv, Stages, Uploads, Measures, OnTheWire, Sent, IsData, SwitchResponseValid, DataFrame,
         Proper, Bytes, Right, Received, Documented, vars
<1>2. FrameInv /\ [Next]_vars => FrameInv'
  BY <1>1, FrameStep
<1> QED
  BY FrameInit, <1>2, PTL DEF Spec

-----------------------------------------------------------------------------
(* Theorems                                                                *)

\* Whatever is measured, every byte sent is a byte, no frame outgrows its
\* buffer and no value the bytes of an unsigned int.
THEOREM TypeCorrect == Spec => []TypeOK
<1>1. FrameInv => TypeOK
  <2> SUFFICES ASSUME FrameInv PROVE TypeOK
    OBVIOUS
  <2>1. \A q \in Quantities : upload[q].multiple \in {<<0, 0>>, One, TenThousand} /\ Len(upload[q].value) <= 4
    BY DEF FrameInv, Uploads, Sendable
  <2>2. Len(frame) <= 100 /\ \A k \in 1 .. Len(frame) : frame[k] \in Byte
    <3>1. CASE Sent
      BY <3>1 DEF FrameInv, OnTheWire, Proper, Bytes
    <3>2. CASE ~Sent
      BY <3>2 DEF Sent
    <3> QED
      BY <3>1, <3>2
  <2> QED
    BY <2>1, <2>2 DEF TypeOK, FrameInv, Stages
<1> QED
  BY FrameInvariant, <1>1, PTL

\* Every frame that is sent, responses included, ends where its Length field
\* says, for every measured value, time and device number.
THEOREM LengthIsRight == Spec => []LengthCorrect
<1>1. FrameInv => LengthCorrect
  BY DEF FrameInv, OnTheWire, Proper, LengthCorrect, Right
<1> QED
  BY FrameInvariant, <1>1, PTL

\* A server that walks over a data report by the length bytes and puts each
\* value together again has the last measurement of each quantity, whatever
\* was measured: the encoding is undone at every width of one to four bytes.
THEOREM ReportsDecode == Spec => []ReportDecodes
<1>1. FrameInv => ReportDecodes
  <2> SUFFICES ASSUME FrameInv, IsData
               PROVE  /\ Start("end", frame) = Len(frame) - 2
                      /\ Value("P", frame) = Power(measured["P"])
                      /\ Value("Q", frame) = Energy(measured["P"])
                      /\ measured["V"] # Never => /\ Value("V", frame) = Voltage(measured["V"])
                                                  /\ Multiple("V", frame) = 1
                      /\ measured["I"] # Never => /\ Value("I", frame) = Current(measured["I"])
                                                  /\ Multiple("I", frame) = 10000
    BY DEF ReportDecodes
  <2>1. measured["P"] # Never /\ \E time \in Times : frame = DataFrame(time)
    BY DEF FrameInv, OnTheWire
  <2>2. /\ Start("end", frame) = Len(frame) - 2
        /\ \A q \in Quantities : /\ Value(q, frame) = BigEndian(upload[q].value)
                                 /\ Multiple(q, frame) = BigEndian(upload[q].multiple)
    BY <2>1, DataRead DEF FrameInv
  <2>3. \A q \in {"V", "I", "P"} : measured[q] # Never => measured[q] \in Pulses
    BY DEF FrameInv, Stages
  <2>4. ASSUME NEW cf \in Pulses
        PROVE  /\ BigEndian(Quantity(TenThousand, Power(cf)).value) = Power(cf)
               /\ BigEndian(Quantity(TenThousand, Energy(cf)).value) = Energy(cf)
               /\ BigEndian(Quantity(TenThousand, Current(cf)).value) = Current(cf)
               /\ BigEndian(Quantity(TenThousand, Current(cf)).multiple) = 10000
               /\ BigEndian(Quantity(One, Voltage(cf)).value) = Voltage(cf)
               /\ BigEndian(Quantity(One, Voltage(cf)).multiple) = 1
    BY UnitsAreUnsigned, QuantityIs, MultiplesAre
  <2>5. Measures
    BY DEF FrameInv
  <2> QED
    BY <2>1, <2>2, <2>3, <2>4, <2>5 DEF Measures, Quantities
<1> QED
  BY FrameInvariant, <1>1, PTL

\* The response to a valid switch command is a valid frame, whatever the time
\* and the device number in it.
THEOREM SwitchResponsesValid == Spec => []SwitchResponseValid
<1>1. FrameInv => SwitchResponseValid
  BY DEF FrameInv, OnTheWire
<1> QED
  BY FrameInvariant, <1>1, PTL
=============================================================================
