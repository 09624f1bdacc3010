-------------------------- MODULE JsonStringProofs --------------------------
(***************************************************************************)
(* Every string that was parsed can be serialized, within the buffer, to a *)
(* text that is no longer and reads the same: proved for all bytes, all    *)
(* code units and any size of the buffer.                                  *)
(***************************************************************************)
EXTENDS JsonString, TLAPS

States == {0, 2, 3, 4, 5, 6, 7, 8}

(* What the parser demands when the serializer's automaton is in state.    *)
(* That the two are always in step is the heart of the proof.              *)
Demand(state) ==
    CASE state = 2 -> <<Cont>>
      [] state = 3 -> <<Cont, Cont>>
      [] state = 4 -> <<ContE0, Cont>>
      [] state = 5 -> <<ContED, Cont>>
      [] state = 6 -> <<ContF0, Cont, Cont>>
      [] state = 7 -> <<Cont, Cont, Cont>>
      [] state = 8 -> <<ContF4, Cont, Cont>>
      [] OTHER -> <<>>

(* How many bytes the automaton waits for. *)
Missing(state) ==
    CASE state = 2 -> 1
      [] state \in {3, 4, 5} -> 2
      [] state \in {6, 7, 8} -> 3
      [] OTHER -> 0

(* A byte of a string that may come next, and what is demanded after it. *)
Good(exp, b) ==
    IF exp # <<>> THEN b \in Head(exp) ELSE b \in \h00..\h7F \cup \hC2..\hF4
Rest(exp, b) == IF exp # <<>> THEN Tail(exp) ELSE Leads(b)

-----------------------------------------------------------------------------
(* The automaton *)

LEMMA DemandParts ==
    /\ Demand(0) = <<>>
    /\ Head(Demand(2)) = Cont /\ Tail(Demand(2)) = Demand(0)
    /\ Head(Demand(3)) = Cont /\ Tail(Demand(3)) = Demand(2)
    /\ Head(Demand(4)) = ContE0 /\ Tail(Demand(4)) = Demand(2)
    /\ Head(Demand(5)) = ContED /\ Tail(Demand(5)) = Demand(2)
    /\ Head(Demand(6)) = ContF0 /\ Tail(Demand(6)) = Demand(3)
    /\ Head(Demand(7)) = Cont /\ Tail(Demand(7)) = Demand(3)
    /\ Head(Demand(8)) = ContF4 /\ Tail(Demand(8)) = Demand(3)
BY DEF Demand

LEMMA DemandEmpty == \A s \in States : Demand(s) = <<>> <=> s = 0
<1>1. /\ Demand(2) # <<>> /\ Demand(3) # <<>> /\ Demand(4) # <<>> /\ Demand(5) # <<>>
      /\ Demand(6) # <<>> /\ Demand(7) # <<>> /\ Demand(8) # <<>> /\ Demand(0) = <<>>
  BY DEF Demand
<1> QED
  BY <1>1 DEF States

(* The state after the first byte of a character. *)
LeadState(b) ==
    CASE b < \h80 -> 0
      [] b \in \hC2..\hDF -> 2
      [] b = \hE0 -> 4
      [] b = \hED -> 5
      [] b \in \hE1..\hEF /\ b # \hED -> 3
      [] b = \hF0 -> 6
      [] b \in \hF1..\hF3 -> 7
      [] b = \hF4 -> 8

(* What a longer character has of its code point: enough to be no control  *)
(* character and no quote in the end.                                      *)
PointOK(state, point) ==
    /\ point \in Nat
    /\ state = 2 => point >= 2
    /\ state \in {3, 5, 7, 8} => point >= 1

(* A first byte: the parser demands what the automaton waits for, and the  *)
(* automaton takes the right bits of it.                                   *)
LEMMA FirstByte ==
    ASSUME NEW b \in \h00..\h7F \cup \hC2..\hF4
    PROVE  /\ LeadState(b) \in States /\ (LeadState(b) = 0 <=> b < \h80)
           /\ Leads(b) = Demand(LeadState(b))
           /\ Transition(0, ClassOf(b)) = LeadState(b)
           /\ PointOK(LeadState(b), b % LeadBits(ClassOf(b)))
           /\ b < \h80 => b % LeadBits(ClassOf(b)) = b
<1> b \in Int
  OBVIOUS
<1>1. CASE b < \h80
  <2>1. b \notin \hC2..\hDF /\ b # \hE0 /\ b \notin \hE1..\hEF /\ b # \hED
    BY <1>1
  <2>2. b # \hF0 /\ b \notin \hF1..\hF3 /\ b # \hF4
    BY <1>1
  <2>3. Leads(b) = <<>> /\ LeadState(b) = 0
    BY <1>1, <2>1, <2>2 DEF Leads, LeadState
  <2>4. Demand(0) = <<>>
    BY DEF Demand
  <2>5. ClassOf(b) = 0 /\ Transition(0, 0) = 0
    BY <1>1, <2>1, <2>2 DEF ClassOf, Transition, ACCEPT
  <2>6. LeadBits(0) = 256
    BY DEF LeadBits
  <2>7. PointOK(0, b % 256) /\ (b < \h80 => b % 256 = b)
    BY <1>1 DEF PointOK
  <2>8. (b < \h80)
    BY <1>1
  <2> QED
    BY <2>3, <2>4, <2>5, <2>6, <2>7, <2>8 DEF States
<1>2. CASE b \in \hC2..\hDF
  <2>1. ~ (b < \h80) /\ b # \hE0 /\ b \notin \hE1..\hEF /\ b # \hED
    BY <1>2
  <2>2. b # \hF0 /\ b \notin \hF1..\hF3 /\ b # \hF4
    BY <1>2
  <2>3. Leads(b) = <<Cont>> /\ LeadState(b) = 2
    BY <1>2, <2>1, <2>2 DEF Leads, LeadState
  <2>4. Demand(2) = <<Cont>>
    BY DEF Demand
  <2>5. ClassOf(b) = 2 /\ Transition(0, 2) = 2
    BY <1>2, <2>1, <2>2 DEF ClassOf, Transition, ACCEPT
  <2>6. LeadBits(2) = 64
    BY DEF LeadBits
  <2>7. PointOK(2, b % 64) /\ (b < \h80 => b % 64 = b)
    BY <1>2 DEF PointOK
  <2>8. ~ (b < \h80)
    BY <1>2
  <2> QED
    BY <2>3, <2>4, <2>5, <2>6, <2>7, <2>8 DEF States
<1>3. CASE b = \hE0
  <2>1. ~ (b < \h80) /\ b \notin \hC2..\hDF /\ b \notin \hE1..\hEF /\ b # \hED
    BY <1>3
  <2>2. b # \hF0 /\ b \notin \hF1..\hF3 /\ b # \hF4
    BY <1>3
  <2>3. Leads(b) = <<ContE0, Cont>> /\ LeadState(b) = 4
    BY <1>3, <2>1, <2>2 DEF Leads, LeadState
  <2>4. Demand(4) = <<ContE0, Cont>>
    BY DEF Demand
  <2>5. ClassOf(b) = 10 /\ Transition(0, 10) = 4
    BY <1>3, <2>1, <2>2 DEF ClassOf, Transition, ACCEPT
  <2>6. LeadBits(10) = 1
    BY DEF LeadBits
  <2>7. PointOK(4, b % 1) /\ (b < \h80 => b % 1 = b)
    BY <1>3 DEF PointOK
  <2>8. ~ (b < \h80)
    BY <1>3
  <2> QED
    BY <2>3, <2>4, <2>5, <2>6, <2>7, <2>8 DEF States
<1>4. CASE b = \hED
  <2>1. ~ (b < \h80) /\ b \notin \hC2..\hDF /\ b # \hE0 /\ b # \hF0
    BY <1>4
  <2>2. b \notin \hF1..\hF3 /\ b # \hF4
    BY <1>4
  <2>3. Leads(b) = <<ContED, Cont>> /\ LeadState(b) = 5
    BY <1>4, <2>1, <2>2 DEF Leads, LeadState
  <2>4. Demand(5) = <<ContED, Cont>>
    BY DEF Demand
  <2>5. ClassOf(b) = 4 /\ Transition(0, 4) = 5
    BY <1>4, <2>1, <2>2 DEF ClassOf, Transition, ACCEPT
  <2>6. LeadBits(4) = 16
    BY DEF LeadBits
  <2>7. PointOK(5, b % 16) /\ (b < \h80 => b % 16 = b)
    BY <1>4 DEF PointOK
  <2>8. ~ (b < \h80)
    BY <1>4
  <2> QED
    BY <2>3, <2>4, <2>5, <2>6, <2>7, <2>8 DEF States
<1>5. CASE b \in \hE1..\hEF /\ b # \hED
  <2>1. ~ (b < \h80) /\ b \notin \hC2..\hDF /\ b # \hE0 /\ b # \hED
    BY <1>5
  <2>2. b # \hF0 /\ b \notin \hF1..\hF3 /\ b # \hF4
    BY <1>5
  <2>3. Leads(b) = <<Cont, Cont>> /\ LeadState(b) = 3
    BY <1>5, <2>1, <2>2 DEF Leads, LeadState
  <2>4. Demand(3) = <<Cont, Cont>>
    BY DEF Demand
  <2>5. ClassOf(b) = 3 /\ Transition(0, 3) = 3
    BY <1>5, <2>1, <2>2 DEF ClassOf, Transition, ACCEPT
  <2>6. LeadBits(3) = 32
    BY DEF LeadBits
  <2>7. PointOK(3, b % 32) /\ (b < \h80 => b % 32 = b)
    BY <1>5 DEF PointOK
  <2>8. ~ (b < \h80)
    BY <1>5
  <2> QED
    BY <2>3, <2>4, <2>5, <2>6, <2>7, <2>8 DEF States
<1>6. CASE b = \hF0
  <2>1. ~ (b < \h80) /\ b \notin \hC2..\hDF /\ b # \hE0 /\ b \notin \hE1..\hEF
    BY <1>6
  <2>2. b # \hED /\ b \notin \hF1..\hF3 /\ b # \hF4
    BY <1>6
  <2>3. Leads(b) = <<ContF0, Cont, Cont>> /\ LeadState(b) = 6
    BY <1>6, <2>1, <2>2 DEF Leads, LeadState
  <2>4. Demand(6) = <<ContF0, Cont, Cont>>
    BY DEF Demand
  <2>5. ClassOf(b) = 11 /\ Transition(0, 11) = 6
    BY <1>6, <2>1, <2>2 DEF ClassOf, Transition, ACCEPT
  <2>6. LeadBits(11) = 1
    BY DEF LeadBits
  <2>7. PointOK(6, b % 1) /\ (b < \h80 => b % 1 = b)
    BY <1>6 DEF PointOK
  <2>8. ~ (b < \h80)
    BY <1>6
  <2> QED
    BY <2>3, <2>4, <2>5, <2>6, <2>7, <2>8 DEF States
<1>7. CASE b \in \hF1..\hF3
  <2>1. ~ (b < \h80) /\ b \notin \hC2..\hDF /\ b # \hE0 /\ b \notin \hE1..\hEF
    BY <1>7
  <2>2. b # \hED /\ b # \hF0 /\ b # \hF4
    BY <1>7
  <2>3. Leads(b) = <<Cont, Cont, Cont>> /\ LeadState(b) = 7
    BY <1>7, <2>1, <2>2 DEF Leads, LeadState
  <2>4. Demand(7) = <<Cont, Cont, Cont>>
    BY DEF Demand
  <2>5. ClassOf(b) = 6 /\ Transition(0, 6) = 7
    BY <1>7, <2>1, <2>2 DEF ClassOf, Transition, ACCEPT
  <2>6. LeadBits(6) = 4
    BY DEF LeadBits
  <2>7. PointOK(7, b % 4) /\ (b < \h80 => b % 4 = b)
    BY <1>7 DEF PointOK
  <2>8. ~ (b < \h80)
    BY <1>7
  <2> QED
    BY <2>3, <2>4, <2>5, <2>6, <2>7, <2>8 DEF States
<1>8. CASE b = \hF4
  <2>1. ~ (b < \h80) /\ b \notin \hC2..\hDF /\ b # \hE0 /\ b \notin \hE1..\hEF
    BY <1>8
  <2>2. b # \hED /\ b # \hF0 /\ b \notin \hF1..\hF3
    BY <1>8
  <2>3. Leads(b) = <<ContF4, Cont, Cont>> /\ LeadState(b) = 8
    BY <1>8, <2>1, <2>2 DEF Leads, LeadState
  <2>4. Demand(8) = <<ContF4, Cont, Cont>>
    BY DEF Demand
  <2>5. ClassOf(b) = 5 /\ Transition(0, 5) = 8
    BY <1>8, <2>1, <2>2 DEF ClassOf, Transition, ACCEPT
  <2>6. LeadBits(5) = 8
    BY DEF LeadBits
  <2>7. PointOK(8, b % 8) /\ (b < \h80 => b % 8 = b)
    BY <1>8 DEF PointOK
  <2>8. ~ (b < \h80)
    BY <1>8
  <2> QED
    BY <2>3, <2>4, <2>5, <2>6, <2>7, <2>8 DEF States
<1> QED
  BY <1>1, <1>2, <1>3, <1>4, <1>5, <1>6, <1>7, <1>8

LEMMA AsciiByte ==
    ASSUME NEW b \in Nat, b < \h80
    PROVE  b \in Byte /\ Good(Demand(0), b) /\ Leads(b) = <<>>
<1>1. b \in Byte /\ b \in \h00..\h7F \cup \hC2..\hF4
  BY DEF Byte
<1>2. LeadState(b) = 0
  BY DEF LeadState
<1>3. Leads(b) = Demand(LeadState(b))
  BY <1>1, FirstByte
<1> QED
  BY <1>1, <1>2, <1>3, DemandParts DEF Good

LEMMA ContClass ==
    ASSUME NEW b \in Cont
    PROVE  ClassOf(b) = IF b < \h90 THEN 1 ELSE IF b < \hA0 THEN 9 ELSE 7
<1>1. b \in Int /\ b >= \h80 /\ b <= \hBF
  BY DEF Cont
<1>2. b \notin \h00..\h7F /\ b \notin \hC2..\hDF /\ b # \hE0 /\ b # \hED
  BY <1>1
<1>3. b \notin \hE1..\hEF /\ b # \hF0 /\ b \notin \hF1..\hF3 /\ b # \hF4
  BY <1>1
<1>4. CASE b < \h90
  BY <1>1, <1>2, <1>3, <1>4, b \notin \h90..\h9F, b \notin \hA0..\hBF DEF ClassOf
<1>5. CASE ~ (b < \h90) /\ b < \hA0
  BY <1>1, <1>2, <1>3, <1>5, b \notin \h80..\h8F, b \notin \hA0..\hBF DEF ClassOf
<1>6. CASE ~ (b < \hA0)
  BY <1>1, <1>2, <1>3, <1>6, b \notin \h80..\h8F, b \notin \h90..\h9F DEF ClassOf
<1> QED
  BY <1>1, <1>4, <1>5, <1>6

LEMMA ContSteps ==
    ASSUME NEW b \in Cont
    PROVE  /\ Transition(2, ClassOf(b)) = 0
           /\ Transition(3, ClassOf(b)) = 2
           /\ Transition(7, ClassOf(b)) = 3
           /\ b \in ContE0 => Transition(4, ClassOf(b)) = 2
           /\ b \in ContED => Transition(5, ClassOf(b)) = 2
           /\ b \in ContF0 => Transition(6, ClassOf(b)) = 3
           /\ b \in ContF4 => Transition(8, ClassOf(b)) = 3
<1>1. b \in Int
  BY DEF Cont
<1>2. /\ b \in ContE0 => ~ (b < \hA0)
      /\ b \in ContED => b < \hA0
      /\ b \in ContF0 => ~ (b < \h90)
      /\ b \in ContF4 => b < \h90
  BY DEF ContE0, ContED, ContF0, ContF4
<1>3. CASE b < \h90
  <2>1. ClassOf(b) = 1
    BY <1>1, <1>3, ContClass
  <2>2. Transition(2, 1) = 0 /\ Transition(3, 1) = 2 /\ Transition(7, 1) = 3
    BY DEF Transition, ACCEPT
  <2>3. Transition(5, 1) = 2 /\ Transition(8, 1) = 3
    BY DEF Transition, ACCEPT
  <2> QED
    BY <1>1, <1>2, <1>3, <2>1, <2>2, <2>3
<1>4. CASE ~ (b < \h90) /\ b < \hA0
  <2>1. ClassOf(b) = 9
    BY <1>1, <1>4, ContClass
  <2>2. Transition(2, 9) = 0 /\ Transition(3, 9) = 2 /\ Transition(7, 9) = 3
    BY DEF Transition, ACCEPT
  <2>3. Transition(5, 9) = 2 /\ Transition(6, 9) = 3
    BY DEF Transition, ACCEPT
  <2> QED
    BY <1>1, <1>2, <1>4, <2>1, <2>2, <2>3
<1>5. CASE ~ (b < \hA0)
  <2>1. ClassOf(b) = 7
    BY <1>1, <1>5, ContClass
  <2>2. Transition(2, 7) = 0 /\ Transition(3, 7) = 2 /\ Transition(7, 7) = 3
    BY DEF Transition, ACCEPT
  <2>3. Transition(4, 7) = 2 /\ Transition(6, 7) = 3
    BY DEF Transition, ACCEPT
  <2>4. ~ (b < \h90)
    BY <1>1, <1>5
  <2> QED
    BY <1>1, <1>2, <1>5, <2>1, <2>2, <2>3, <2>4
<1> QED
  BY <1>1, <1>3, <1>4, <1>5

(* The automaton does not reject a byte that the parser may accept, and    *)
(* goes to the state of what the parser demands next.                      *)
LEMMA InStep ==
    ASSUME NEW s \in States, NEW b \in Byte, Good(Demand(s), b)
    PROVE  LET t == Transition(s, ClassOf(b))
           IN  /\ t \in States
               /\ Demand(t) = Rest(Demand(s), b)
               /\ s # 0 => Missing(t) = Missing(s) - 1
               /\ s = 0 => t = LeadState(b)
<1>1. CASE s = 0
  <2>1. b \in \h00..\h7F \cup \hC2..\hF4 /\ Rest(Demand(s), b) = Leads(b)
    BY <1>1, DemandEmpty DEF Good, Rest
  <2> QED
    BY <1>1, <2>1, FirstByte
<1>2. CASE s # 0
  <2>1. b \in Head(Demand(s)) /\ Rest(Demand(s), b) = Tail(Demand(s))
    BY <1>2, DemandEmpty DEF Good, Rest
  <2>2. CASE s = 2
    <3>1. Head(Demand(s)) = Cont /\ Tail(Demand(s)) = Demand(0)
      BY <2>2 DEF Demand
    <3>2. b \in Cont
      BY <2>1, <3>1
    <3>3. b \in Cont
      BY <3>2 DEF Cont
    <3>4. Transition(s, ClassOf(b)) = 0
      BY <2>2, <3>2, <3>3, ContSteps
    <3> QED
      BY <2>1, <2>2, <3>1, <3>4 DEF States, Missing
  <2>3. CASE s = 3
    <3>1. Head(Demand(s)) = Cont /\ Tail(Demand(s)) = Demand(2)
      BY <2>3 DEF Demand
    <3>2. b \in Cont
      BY <2>1, <3>1
    <3>3. b \in Cont
      BY <3>2 DEF Cont
    <3>4. Transition(s, ClassOf(b)) = 2
      BY <2>3, <3>2, <3>3, ContSteps
    <3> QED
      BY <2>1, <2>3, <3>1, <3>4 DEF States, Missing
  <2>4. CASE s = 4
    <3>1. Head(Demand(s)) = ContE0 /\ Tail(Demand(s)) = Demand(2)
      BY <2>4 DEF Demand
    <3>2. b \in ContE0
      BY <2>1, <3>1
    <3>3. b \in Cont
      BY <3>2 DEF Cont, ContE0
    <3>4. Transition(s, ClassOf(b)) = 2
      BY <2>4, <3>2, <3>3, ContSteps
    <3> QED
      BY <2>1, <2>4, <3>1, <3>4 DEF States, Missing
  <2>5. CASE s = 5
    <3>1. Head(Demand(s)) = ContED /\ Tail(Demand(s)) = Demand(2)
      BY <2>5 DEF Demand
    <3>2. b \in ContED
      BY <2>1, <3>1
    <3>3. b \in Cont
      BY <3>2 DEF Cont, ContED
    <3>4. Transition(s, ClassOf(b)) = 2
      BY <2>5, <3>2, <3>3, ContSteps
    <3> QED
      BY <2>1, <2>5, <3>1, <3>4 DEF States, Missing
  <2>6. CASE s = 6
    <3>1. Head(Demand(s)) = ContF0 /\ Tail(Demand(s)) = Demand(3)
      BY <2>6 DEF Demand
    <3>2. b \in ContF0
      BY <2>1, <3>1
    <3>3. b \in Cont
      BY <3>2 DEF Cont, ContF0
    <3>4. Transition(s, ClassOf(b)) = 3
      BY <2>6, <3>2, <3>3, ContSteps
    <3> QED
      BY <2>1, <2>6, <3>1, <3>4 DEF States, Missing
  <2>7. CASE s = 7
    <3>1. Head(Demand(s)) = Cont /\ Tail(Demand(s)) = Demand(3)
      BY <2>7 DEF Demand
    <3>2. b \in Cont
      BY <2>1, <3>1
    <3>3. b \in Cont
      BY <3>2 DEF Cont
    <3>4. Transition(s, ClassOf(b)) = 3
      BY <2>7, <3>2, <3>3, ContSteps
    <3> QED
      BY <2>1, <2>7, <3>1, <3>4 DEF States, Missing
  <2>8. CASE s = 8
    <3>1. Head(Demand(s)) = ContF4 /\ Tail(Demand(s)) = Demand(3)
      BY <2>8 DEF Demand
    <3>2. b \in ContF4
      BY <2>1, <3>1
    <3>3. b \in Cont
      BY <3>2 DEF Cont, ContF4
    <3>4. Transition(s, ClassOf(b)) = 3
      BY <2>8, <3>2, <3>3, ContSteps
    <3> QED
      BY <2>1, <2>8, <3>1, <3>4 DEF States, Missing
  <2> QED
    BY <1>2, <2>2, <2>3, <2>4, <2>5, <2>6, <2>7, <2>8 DEF States
<1> QED
  BY <1>1, <1>2

LEMMA HeadIsCont ==
    ASSUME NEW s \in States, s # 0
    PROVE  Head(Demand(s)) \subseteq Cont
<1>1. /\ Head(Demand(2)) = Cont /\ Head(Demand(3)) = Cont /\ Head(Demand(4)) = ContE0
      /\ Head(Demand(5)) = ContED /\ Head(Demand(6)) = ContF0 /\ Head(Demand(7)) = Cont
      /\ Head(Demand(8)) = ContF4
  BY DemandParts
<1>2. ContE0 \subseteq Cont /\ ContED \subseteq Cont
  BY DEF Cont, ContE0, ContED
<1>3. ContF0 \subseteq Cont /\ ContF4 \subseteq Cont
  BY DEF Cont, ContF0, ContF4
<1> QED
  BY <1>1, <1>2, <1>3 DEF States

-----------------------------------------------------------------------------
(* The inductive invariant *)

(* The automaton, started in s, goes through the states q when it reads    *)
(* tok, and the parser demands what it waits for at the end.               *)
Run(q, s, tok, exp) ==
    /\ q[1] = s
    /\ \A i \in 1..Len(tok) :
        /\ Good(Demand(q[i]), tok[i])
        /\ q[i + 1] = Transition(q[i], ClassOf(tok[i]))
    /\ exp = Demand(q[Len(tok) + 1])

Runs(s, tok, exp) == \E q \in [1..(Len(tok) + 1) -> States] : Run(q, s, tok, exp)

(* How long a byte is in the new text, *)
Price(b) == IF b \in NamedEscapes THEN 2 ELSE IF b <= \h1F THEN 6 ELSE 1

(* and how long tok is: of several bytes, none is ASCII. *)
Cost(tok) == IF Len(tok) = 1 THEN Price(tok[1]) ELSE Len(tok)
Long(tok) == Len(tok) >= 2 => \A i \in 1..Len(tok) : tok[i] >= \h80

TokenOK == token \in Seq(Byte) /\ Len(token) <= 4 /\ Long(token)

LengthsOK ==
    /\ taken \in Nat /\ held \in Nat /\ written \in Nat
    /\ written + Cost(token) <= taken
    /\ held <= written + Len(token)

(* An unfinished character may have used four bytes less what is missing. *)
RoomOK ==
    /\ bytes \in Int /\ top \in Int /\ top <= BufferSize
    /\ bytes <= BufferSize - 13 + (IF utf8 = 0 THEN 0 ELSE 4 - Missing(utf8))

IInv ==
    /\ TokenOK
    /\ utf8 \in States /\ PointOK(utf8, codepoint)
    /\ again = Demand(utf8) /\ agree = TRUE
    /\ Runs(utf8, token, expects)
    /\ LengthsOK
    /\ RoomOK

-----------------------------------------------------------------------------
(* What the parser adds to the string for a piece *)

(* Fits(s, piece): what the invariant needs of a piece that is scanned.    *)
Fits(s, piece) ==
    /\ ValueOf(piece) \in Seq(Byte) /\ Len(ValueOf(piece)) \in 1..4
    /\ Long(ValueOf(piece))
    /\ Cost(ValueOf(piece)) <= LengthOf(piece) /\ LengthOf(piece) \in Nat
    /\ Runs(s, ValueOf(piece), After(Demand(s), piece))

LEMMA CostBound ==
    ASSUME NEW tok, Len(tok) \in 1..4
    PROVE  Cost(tok) \in Nat /\ Cost(tok) <= 6
<1>1. Price(tok[1]) = 1 \/ Price(tok[1]) = 2 \/ Price(tok[1]) = 6
  BY DEF Price
<1>2. CASE Len(tok) = 1
  BY <1>1, <1>2 DEF Cost
<1>3. CASE Len(tok) # 1
  <2>1. Cost(tok) = Len(tok)
    BY <1>3 DEF Cost
  <2> QED
    BY <2>1
<1> QED
  BY <1>2, <1>3

LEMMA RunOfOne ==
    ASSUME NEW s \in States, NEW b \in Byte, Good(Demand(s), b)
    PROVE  Runs(s, <<b>>, Rest(Demand(s), b))
<1> DEFINE t == Transition(s, ClassOf(b))
<1>1. t \in States /\ Demand(t) = Rest(Demand(s), b)
  BY InStep
<1> DEFINE q == [i \in 1..2 |-> IF i = 1 THEN s ELSE t]
<1>2. q \in [1..(Len(<<b>>) + 1) -> States] /\ q[1] = s /\ q[2] = t
  BY <1>1
<1>3. Run(q, s, <<b>>, Rest(Demand(s), b))
  <2> HIDE DEF q
  <2>1. \A i \in 1..Len(<<b>>) : i = 1
    OBVIOUS
  <2> QED
    BY <1>1, <1>2, <2>1 DEF Run
<1> QED
  BY <1>2, <1>3 DEF Runs

LEMMA RunOfTwo ==
    ASSUME NEW a \in Byte, NEW b \in Cont,
           a \in \hC2..\hF4, LeadState(a) = 2
    PROVE  Runs(0, <<a, b>>, <<>>)
<1> DEFINE q == [i \in 1..3 |-> IF i = 1 THEN 0 ELSE IF i = 2 THEN 2 ELSE 0]
<1>1. q \in [1..(Len(<<a, b>>) + 1) -> States] /\ q[1] = 0 /\ q[2] = 2 /\ q[3] = 0
  BY DEF States
<1>2. Good(Demand(0), a) /\ Good(Demand(2), b) /\ Demand(0) = <<>>
  BY DemandParts, DemandEmpty DEF Good, States
<1>3. Transition(0, ClassOf(a)) = 2 /\ Transition(2, ClassOf(b)) = 0
  BY FirstByte, ContSteps
<1>4. Run(q, 0, <<a, b>>, <<>>)
  <2> HIDE DEF q
  <2>1. \A i \in 1..Len(<<a, b>>) : i = 1 \/ i = 2
    OBVIOUS
  <2> QED
    BY <1>1, <1>2, <1>3, <2>1 DEF Run
<1> QED
  BY <1>1, <1>4 DEF Runs

LEMMA RunOfThree ==
    ASSUME NEW a \in Byte, NEW b \in Cont, NEW c \in Cont, NEW s \in {3, 4, 5},
           a \in \hC2..\hF4, LeadState(a) = s, b \in Head(Demand(s))
    PROVE  Runs(0, <<a, b, c>>, <<>>)
<1> DEFINE q == [i \in 1..4 |->
                 IF i = 1 THEN 0 ELSE IF i = 2 THEN s ELSE IF i = 3 THEN 2 ELSE 0]
<1>1. /\ q \in [1..(Len(<<a, b, c>>) + 1) -> States]
      /\ q[1] = 0 /\ q[2] = s /\ q[3] = 2 /\ q[4] = 0
  BY DEF States
<1>2. /\ Good(Demand(0), a) /\ Good(Demand(s), b) /\ Good(Demand(2), c)
      /\ Demand(0) = <<>>
  <2>1. s \in States /\ s # 0 /\ 2 \in States
    BY DEF States
  <2>2. Good(Demand(0), a)
    BY DemandParts DEF Good
  <2>3. Good(Demand(s), b)
    BY <2>1, DemandEmpty DEF Good
  <2>4. Good(Demand(2), c)
    BY <2>1, DemandParts, DemandEmpty DEF Good
  <2> QED
    BY <2>2, <2>3, <2>4, DemandParts
<1>3. Transition(0, ClassOf(a)) = s /\ Transition(2, ClassOf(c)) = 0
  BY FirstByte, ContSteps
<1>4. Transition(s, ClassOf(b)) = 2
  BY DemandParts, ContSteps
<1>5. Run(q, 0, <<a, b, c>>, <<>>)
  <2> HIDE DEF q
  <2>1. \A i \in 1..Len(<<a, b, c>>) : i = 1 \/ i = 2 \/ i = 3
    OBVIOUS
  <2> QED
    BY <1>1, <1>2, <1>3, <1>4, <2>1 DEF Run
<1> QED
  BY <1>1, <1>5 DEF Runs

LEMMA RunOfFour ==
    ASSUME NEW a \in Byte, NEW b \in Cont, NEW c \in Cont, NEW d \in Cont,
           NEW s \in {6, 7, 8},
           a \in \hC2..\hF4, LeadState(a) = s, b \in Head(Demand(s))
    PROVE  Runs(0, <<a, b, c, d>>, <<>>)
<1> DEFINE q == [i \in 1..5 |->
                 IF i = 1 THEN 0 ELSE IF i = 2 THEN s ELSE IF i = 3 THEN 3
                 ELSE IF i = 4 THEN 2 ELSE 0]
<1>1. /\ q \in [1..(Len(<<a, b, c, d>>) + 1) -> States]
      /\ q[1] = 0 /\ q[2] = s /\ q[3] = 3 /\ q[4] = 2 /\ q[5] = 0
  BY DEF States
<1>2. /\ Good(Demand(0), a) /\ Good(Demand(s), b) /\ Good(Demand(3), c)
      /\ Good(Demand(2), d) /\ Demand(0) = <<>>
  <2>1. s \in States /\ s # 0 /\ 2 \in States /\ 3 \in States
    BY DEF States
  <2>2. Good(Demand(0), a)
    BY DemandParts DEF Good
  <2>3. Good(Demand(s), b)
    BY <2>1, DemandEmpty DEF Good
  <2>4. Good(Demand(3), c) /\ Good(Demand(2), d)
    BY <2>1, DemandParts, DemandEmpty DEF Good
  <2> QED
    BY <2>2, <2>3, <2>4, DemandParts
<1>3. /\ Transition(0, ClassOf(a)) = s
      /\ Transition(3, ClassOf(c)) = 2 /\ Transition(2, ClassOf(d)) = 0
  BY FirstByte, ContSteps
<1>4. Transition(s, ClassOf(b)) = 3
  BY DemandParts, ContSteps
<1>5. Run(q, 0, <<a, b, c, d>>, <<>>)
  <2> HIDE DEF q
  <2>1. \A i \in 1..Len(<<a, b, c, d>>) : i = 1 \/ i = 2 \/ i = 3 \/ i = 4
    OBVIOUS
  <2> QED
    BY <1>1, <1>2, <1>3, <1>4, <2>1 DEF Run
<1> QED
  BY <1>1, <1>5 DEF Runs

(* A code point that is no surrogate has a valid form of one to four bytes. *)
LEMMA EncodedPoint ==
    ASSUME NEW p \in Nat, p <= \h10FFFF, p < \hD800 \/ p > \hDFFF
    PROVE  LET e == Encoded(p)
           IN  /\ e \in Seq(Byte) /\ Len(e) \in 1..4
               /\ p < \h80 => e = <<p>>
               /\ Long(e)
               /\ p <= \hFFFF => Len(e) <= 3
               /\ Runs(0, e, <<>>)
<1> DEFINE low(n) == \h80 + ((p \div n) % 64)
<1>0. p \in Nat
  OBVIOUS
<1>1. low(1) \in Cont /\ low(64) \in Cont /\ low(4096) \in Cont
  BY <1>0 DEF Cont
<1>2. low(1) \in Byte /\ low(64) \in Byte /\ low(4096) \in Byte
  BY <1>0 DEF Cont, Byte
<1>3. \A a \in Byte : a \in \hC2..\hF4 => a >= \h80
  OBVIOUS
<1>4. CASE p < \h80
  <2>1. Encoded(p) = <<p>> /\ p \in Byte
    BY <1>0, <1>4 DEF Encoded, Byte
  <2>2. Good(Demand(0), p) /\ Leads(p) = <<>>
    BY <1>0, <1>4, AsciiByte
  <2>3. Rest(Demand(0), p) = <<>>
    BY <2>2, DemandParts DEF Rest
  <2>4. Runs(0, <<p>>, <<>>)
    BY <2>1, <2>2, <2>3, RunOfOne DEF States
  <2>5. Long(<<p>>)
    BY DEF Long
  <2> QED
    BY <2>1, <2>4, <2>5
<1>5. CASE ~ (p < \h80) /\ p <= \h7FF
  <2> DEFINE a == \hC0 + p \div 64
  <2>1. Encoded(p) = <<a, low(1)>>
    BY <1>5 DEF Encoded
  <2>2. a \in \hC2..\hDF
    BY <1>0, <1>5
  <2> HIDE DEF a, low
  <2>3. a \in Byte /\ a \in \hC2..\hF4 /\ LeadState(a) = 2
    BY <2>2 DEF LeadState, Byte
  <2>4. Runs(0, <<a, low(1)>>, <<>>)
    BY <1>1, <2>3, RunOfTwo
  <2>5. Long(<<a, low(1)>>)
    BY <1>1, <1>3, <2>3 DEF Long, Cont
  <2>6. p < \h80 => Encoded(p) = <<p>>
    BY <1>5
  <2>7. <<a, low(1)>> \in Seq(Byte) /\ Len(<<a, low(1)>>) = 2
    <3>1. a \in Byte
      BY <2>3
    <3> QED
      BY <1>2, <3>1
  <2>8. Len(Encoded(p)) \in 1..4 /\ (p <= \hFFFF => Len(Encoded(p)) <= 3)
    BY <2>1, <2>7
  <2>9. Encoded(p) \in Seq(Byte) /\ Long(Encoded(p)) /\ Runs(0, Encoded(p), <<>>)
    BY <2>1, <2>4, <2>5, <2>7
  <2> QED
    BY <2>6, <2>8, <2>9
<1>6. CASE ~ (p <= \h7FF) /\ p <= \hFFFF
  <2> DEFINE a == \hE0 + p \div 4096
  <2>1. Encoded(p) = <<a, low(64), low(1)>>
    BY <1>0, <1>6 DEF Encoded
  <2>2. a \in \hE0..\hEF
    BY <1>0, <1>6
  <2>3. a = \hE0 => low(64) \in ContE0
    BY <1>0, <1>6 DEF ContE0
  <2>4. a = \hED => low(64) \in ContED
    BY <1>0, <1>6 DEF ContED
  <2> HIDE DEF a, low
  <2>5. /\ a \in Byte /\ a \in \hC2..\hF4
        /\ LeadState(a) = IF a = \hE0 THEN 4 ELSE IF a = \hED THEN 5 ELSE 3
    BY <2>2 DEF LeadState, Byte
  <2>6. LeadState(a) \in {3, 4, 5} /\ low(64) \in Head(Demand(LeadState(a)))
    BY <1>1, <2>3, <2>4, <2>5, DemandParts
  <2>7. Runs(0, <<a, low(64), low(1)>>, <<>>)
    BY <1>1, <2>5, <2>6, RunOfThree
  <2>8. Long(<<a, low(64), low(1)>>)
    BY <1>1, <1>3, <2>5 DEF Long, Cont
  <2>9. p < \h80 => Encoded(p) = <<p>>
    BY <1>0, <1>6
  <2>10. <<a, low(64), low(1)>> \in Seq(Byte) /\ Len(<<a, low(64), low(1)>>) = 3
    <3>1. a \in Byte
      BY <2>5
    <3> QED
      BY <1>2, <3>1
  <2>11. Len(Encoded(p)) \in 1..4 /\ (p <= \hFFFF => Len(Encoded(p)) <= 3)
    BY <2>1, <2>10
  <2>12. Encoded(p) \in Seq(Byte) /\ Long(Encoded(p)) /\ Runs(0, Encoded(p), <<>>)
    BY <2>1, <2>7, <2>8, <2>10
  <2> QED
    BY <2>9, <2>11, <2>12
<1>7. CASE ~ (p <= \hFFFF)
  <2> DEFINE a == \hF0 + p \div 262144
  <2>1. Encoded(p) = <<a, low(4096), low(64), low(1)>>
    BY <1>0, <1>7 DEF Encoded
  <2>2. a \in \hF0..\hF4
    BY <1>0, <1>7
  <2>3. a = \hF0 => low(4096) \in ContF0
    BY <1>0, <1>7 DEF ContF0
  <2>4. a = \hF4 => low(4096) \in ContF4
    BY <1>0, <1>7 DEF ContF4
  <2> HIDE DEF a, low
  <2>5. /\ a \in Byte /\ a \in \hC2..\hF4
        /\ LeadState(a) = IF a = \hF0 THEN 6 ELSE IF a = \hF4 THEN 8 ELSE 7
    BY <2>2 DEF LeadState, Byte
  <2>6. LeadState(a) \in {6, 7, 8} /\ low(4096) \in Head(Demand(LeadState(a)))
    BY <1>1, <2>3, <2>4, <2>5, DemandParts
  <2>7. Runs(0, <<a, low(4096), low(64), low(1)>>, <<>>)
    BY <1>1, <2>5, <2>6, RunOfFour
  <2>8. Long(<<a, low(4096), low(64), low(1)>>)
    BY <1>1, <1>3, <2>5 DEF Long, Cont
  <2>9. p < \h80 => Encoded(p) = <<p>>
    BY <1>0, <1>7
  <2>10. <<a, low(4096), low(64), low(1)>> \in Seq(Byte) /\ Len(<<a, low(4096), low(64), low(1)>>) = 4
    <3>1. a \in Byte
      BY <2>5
    <3> QED
      BY <1>2, <3>1
  <2>11. Len(Encoded(p)) \in 1..4 /\ (p <= \hFFFF => Len(Encoded(p)) <= 3)
    BY <1>0, <1>7, <2>1, <2>10
  <2>12. Encoded(p) \in Seq(Byte) /\ Long(Encoded(p)) /\ Runs(0, Encoded(p), <<>>)
    BY <2>1, <2>7, <2>8, <2>10
  <2> QED
    BY <2>9, <2>11, <2>12
<1> QED
  BY <1>0, <1>4, <1>5, <1>6, <1>7

LEMMA RawFits ==
    ASSUME NEW s \in States, NEW b \in Byte, Accepts(Demand(s), raw(b))
    PROVE  Fits(s, raw(b))
<1>1. /\ raw(b).kind = "raw" /\ raw(b).byte = b
      /\ ValueOf(raw(b)) = <<b>> /\ LengthOf(raw(b)) = 1
  BY DEF raw, ValueOf, LengthOf
<1>2. Good(Demand(s), b) /\ Price(b) = 1
  <2>1. CASE s = 0
    <3>1. Starts(b) /\ Demand(s) = <<>>
      BY <2>1, <1>1, DemandParts DEF Accepts
    <3>2. b \in Int /\ b > \h1F /\ b # \h22 /\ b # \h5C
      BY <3>1 DEF Starts
    <3>3. b \in \h00..\h7F \cup \hC2..\hF4
      BY <3>1 DEF Starts
    <3> QED
      BY <3>1, <3>2, <3>3 DEF Good, Price, NamedEscapes
  <2>2. CASE s # 0
    <3>1. Demand(s) # <<>> /\ b \in Head(Demand(s))
      BY <2>2, <1>1, DemandEmpty DEF Accepts
    <3>2. b \in \h80..\hBF
      BY <2>2, <3>1, HeadIsCont DEF Cont
    <3> QED
      BY <3>1, <3>2 DEF Good, Price, NamedEscapes
  <2> QED
    BY <2>1, <2>2
<1>3. After(Demand(s), raw(b)) = Rest(Demand(s), b)
  BY <1>1 DEF After, Rest
<1>4. Runs(s, <<b>>, After(Demand(s), raw(b)))
  BY <1>2, <1>3, RunOfOne
<1> QED
  BY <1>1, <1>2, <1>4 DEF Fits, Cost, Long

LEMMA ShortFits ==
    ASSUME NEW s \in States, NEW b \in ShortEscaped, Accepts(Demand(s), short(b))
    PROVE  Fits(s, short(b))
<1>1. /\ short(b).kind = "short" /\ short(b).byte = b
      /\ ValueOf(short(b)) = <<b>> /\ LengthOf(short(b)) = 2
  BY DEF short, ValueOf, LengthOf
<1>2. s = 0 /\ Demand(s) = <<>>
  BY <1>1, DemandEmpty DEF Accepts
<1>3. b \in Byte /\ b \in \h00..\h7F \cup \hC2..\hF4 /\ b < \h80
  BY DEF ShortEscaped, Byte
<1>4. Price(b) \in Nat /\ Price(b) <= 2
  BY DEF ShortEscaped, Price, NamedEscapes
<1>5. Good(Demand(s), b) /\ Rest(Demand(s), b) = Leads(b)
  BY <1>2, <1>3 DEF Good, Rest
<1>6. Leads(b) = <<>>
  BY <1>3, AsciiByte DEF Byte
<1>7. After(Demand(s), short(b)) = <<>>
  BY <1>1, <1>2 DEF After
<1>8. Runs(s, <<b>>, After(Demand(s), short(b)))
  BY <1>2, <1>3, <1>5, <1>6, <1>7, RunOfOne
<1> QED
  BY <1>1, <1>3, <1>4, <1>8 DEF Fits, Cost, Long

(* A piece that stands for a code point. *)
LEMMA PointFits ==
    ASSUME NEW s \in States, NEW piece, Accepts(Demand(s), piece),
           piece.kind = "escape" \/ piece.kind = "pair",
           PointOf(piece) \in Nat, PointOf(piece) <= \h10FFFF,
           PointOf(piece) < \hD800 \/ PointOf(piece) > \hDFFF,
           piece.kind = "escape" => PointOf(piece) <= \hFFFF
    PROVE  Fits(s, piece)
<1> DEFINE p == PointOf(piece)
           e == Encoded(p)
<1> HIDE DEF p
<1>0. p \in Nat /\ p <= \h10FFFF /\ (p < \hD800 \/ p > \hDFFF)
  BY DEF p
<1>1. ValueOf(piece) = e /\ LengthOf(piece) = IF piece.kind = "escape" THEN 6 ELSE 12
  BY DEF ValueOf, LengthOf, p
<1>2. Demand(s) = <<>> /\ After(Demand(s), piece) = <<>>
  <2>1. piece.kind # "raw"
    OBVIOUS
  <2>2. Demand(s) = <<>>
    <3>1. SUFFICES ASSUME Demand(s) # <<>> PROVE FALSE
      OBVIOUS
    <3>2. piece.kind = "raw"
      BY <3>1 DEF Accepts
    <3> QED
      BY <2>1, <3>2
  <2> QED
    BY <2>1, <2>2 DEF After
<1>3. s = 0
  BY <1>2, DemandEmpty
<1>4. /\ e \in Seq(Byte) /\ Len(e) \in 1..4 /\ (p < \h80 => e = <<p>>)
      /\ Long(e) /\ (p <= \hFFFF => Len(e) <= 3) /\ Runs(0, e, <<>>)
  BY <1>0, EncodedPoint
<1> HIDE DEF e
<1>5. Cost(e) \in Nat /\ Cost(e) <= 6
  BY <1>4, CostBound
<1> QED
  BY <1>1, <1>2, <1>3, <1>4, <1>5 DEF Fits

LEMMA EscapeFits ==
    ASSUME NEW s \in States, NEW u \in CodeUnit, Accepts(Demand(s), escape(u))
    PROVE  Fits(s, escape(u))
<1>1. escape(u).kind = "escape" /\ escape(u).unit = u
  BY DEF escape
<1>2. PointOf(escape(u)) = u
  BY <1>1 DEF PointOf
<1>3. ~ IsHigh(u) /\ ~ IsLow(u)
  BY <1>1 DEF Accepts
<1>4. u \in Nat /\ u <= \hFFFF /\ (u < \hD800 \/ u > \hDFFF)
  BY <1>3, SMTT(20) DEF CodeUnit, IsHigh, IsLow
<1>5. u <= \h10FFFF
  BY <1>4
<1> QED
  BY <1>1, <1>2, <1>4, <1>5, PointFits

LEMMA PairFits ==
    ASSUME NEW s \in States, NEW u \in CodeUnit, NEW v \in CodeUnit,
           Accepts(Demand(s), pair(u, v))
    PROVE  Fits(s, pair(u, v))
<1>1. pair(u, v).kind = "pair" /\ pair(u, v).high = u /\ pair(u, v).low = v
  BY DEF pair
<1>2. PointOf(pair(u, v)) = u * 1024 + v - \h35FDC00
  BY <1>1 DEF PointOf
<1>3. IsHigh(u) /\ IsLow(v)
  BY <1>1 DEF Accepts
<1>4. u >= \hD800 /\ u <= \hDBFF /\ v >= \hDC00 /\ v <= \hDFFF /\ u \in Int /\ v \in Int
  BY <1>3 DEF IsHigh, IsLow
<1>5. /\ PointOf(pair(u, v)) \in Nat
      /\ PointOf(pair(u, v)) > \hFFFF /\ PointOf(pair(u, v)) <= \h10FFFF
  BY <1>2, <1>4
<1> QED
  BY <1>1, <1>5, PointFits

-----------------------------------------------------------------------------
(* What the serializer writes for a byte *)

LEMMA EscapedByte ==
    ASSUME NEW s \in States, NEW b \in Byte, Good(Demand(s), b), NEW pt \in Nat,
           NEW t, s = 0 => (t = LeadState(b) /\ (b < \h80 => pt = b)),
           s # 0 /\ t = 0 => pt >= 128
    PROVE  LET piece == Escaped(t, pt, b)
           IN  /\ LengthOf(piece) = Price(b)
               /\ s # 0 \/ b >= \h80 => piece = raw(b)
               /\ ValueOf(piece) = <<b>>
               /\ Accepts(Demand(s), piece)
               /\ After(Demand(s), piece) = Rest(Demand(s), b)
<1> DEFINE piece == Escaped(t, pt, b)
<1>1. b \in Int /\ b >= 0 /\ b <= \hFF
  BY DEF Byte
<1>2. /\ raw(b).kind = "raw" /\ raw(b).byte = b
      /\ LengthOf(raw(b)) = 1 /\ ValueOf(raw(b)) = <<b>>
  BY DEF raw, LengthOf, ValueOf
<1>3. b > \h1F /\ b \notin NamedEscapes => Price(b) = 1
  BY <1>1 DEF Price
<1>4. CASE s # 0
  <2>1. Demand(s) # <<>> /\ b \in Head(Demand(s))
    BY <1>4, DemandEmpty DEF Good
  <2>2. b > \h1F /\ b \notin NamedEscapes
    <3>1. b \in Cont
      BY <1>4, <2>1, HeadIsCont
    <3> QED
      BY <3>1 DEF Cont, NamedEscapes
  <2>3. piece = raw(b)
    <3>1. CASE t # 0
      BY <3>1 DEF Escaped, ACCEPT
    <3>2. CASE t = 0
      <4>1. pt >= 128
        BY <1>4, <3>2
      <4>2. pt \notin NamedEscapes /\ ~ (pt <= \h1F)
        BY <4>1 DEF NamedEscapes
      <4> QED
        BY <3>2, <4>2 DEF Escaped, ACCEPT
    <3> QED
      BY <3>1, <3>2
  <2>4. Accepts(Demand(s), raw(b)) /\ After(Demand(s), raw(b)) = Rest(Demand(s), b)
    BY <1>2, <2>1 DEF Accepts, After, Rest
  <2> QED
    BY <1>2, <1>3, <2>2, <2>3, <2>4
<1>5. CASE s = 0 /\ ~ (b < \h80)
  <2>1. b \in \hC2..\hF4 /\ Demand(s) = <<>>
    BY <1>1, <1>5, DemandParts DEF Good
  <2>2. b > \h1F /\ b \notin NamedEscapes
    BY <2>1 DEF NamedEscapes
  <2>3. t # 0
    BY <1>5, <2>1, FirstByte
  <2>4. piece = raw(b)
    BY <2>3 DEF Escaped, ACCEPT
  <2>5. Starts(b)
    BY <2>1 DEF Starts
  <2>6. Accepts(Demand(s), raw(b)) /\ After(Demand(s), raw(b)) = Rest(Demand(s), b)
    BY <1>2, <2>1, <2>5 DEF Accepts, After, Rest
  <2> QED
    BY <1>2, <1>3, <2>2, <2>4, <2>6
<1>6. CASE s = 0 /\ b < \h80
  <2>1. t = 0 /\ pt = b /\ Demand(s) = <<>>
    <3>1. LeadState(b) = 0
      BY <1>6 DEF LeadState
    <3> QED
      BY <1>6, <3>1, DemandParts
  <2>2. Leads(b) = <<>> /\ Rest(Demand(s), b) = <<>>
    BY <1>1, <1>6, <2>1, AsciiByte DEF Rest
  <2>3. CASE b \in NamedEscapes
    <3>1. piece = short(b)
      BY <2>1, <2>3 DEF Escaped, ACCEPT
    <3>2. /\ short(b).kind = "short" /\ short(b).byte = b
          /\ LengthOf(short(b)) = 2 /\ ValueOf(short(b)) = <<b>>
      BY DEF short, LengthOf, ValueOf
    <3>3. Accepts(Demand(s), short(b)) /\ After(Demand(s), short(b)) = <<>>
      BY <2>1, <3>2 DEF Accepts, After
    <3>4. Price(b) = 2
      BY <2>3 DEF Price
    <3> QED
      BY <1>6, <2>2, <3>1, <3>2, <3>3, <3>4
  <2>4. CASE b \notin NamedEscapes /\ b <= \h1F
    <3>1. piece = escape(b)
      BY <2>1, <2>4 DEF Escaped, ACCEPT
    <3>2. /\ escape(b).kind = "escape" /\ escape(b).unit = b
          /\ LengthOf(escape(b)) = 6
      BY DEF escape, LengthOf
    <3>3. PointOf(escape(b)) = b
      BY <3>2 DEF PointOf
    <3>4. ValueOf(escape(b)) = <<b>>
      BY <1>6, <3>2, <3>3 DEF ValueOf, Encoded
    <3>5. ~ IsHigh(b) /\ ~ IsLow(b)
      BY <1>1 DEF IsHigh, IsLow
    <3>6. Accepts(Demand(s), escape(b)) /\ After(Demand(s), escape(b)) = <<>>
      BY <2>1, <3>2, <3>5 DEF Accepts, After
    <3>7. Price(b) = 6
      BY <2>4 DEF Price
    <3> QED
      BY <1>6, <2>2, <3>1, <3>2, <3>4, <3>6, <3>7
  <2>5. CASE b \notin NamedEscapes /\ ~ (b <= \h1F)
    <3>1. piece = raw(b)
      BY <2>1, <2>5 DEF Escaped, ACCEPT
    <3>2. Starts(b)
      BY <1>1, <1>6, <2>5 DEF Starts, NamedEscapes
    <3>3. Accepts(Demand(s), raw(b)) /\ After(Demand(s), raw(b)) = <<>>
      BY <1>2, <2>1, <2>2, <3>2 DEF Accepts, After
    <3> QED
      BY <1>2, <1>3, <1>6, <2>2, <2>5, <3>1, <3>3
  <2> QED
    BY <2>3, <2>4, <2>5
<1> QED
  BY <1>1, <1>4, <1>5, <1>6

(* The code point so far. *)
LEMMA PointSoFar ==
    ASSUME utf8 \in States, PointOK(utf8, codepoint),
           NEW b \in Byte, Good(Demand(utf8), b)
    PROVE  LET t == Transition(utf8, ClassOf(b))
           IN  /\ Point(b) \in Nat
               /\ PointOK(t, IF t = 0 THEN 0 ELSE Point(b))
               /\ utf8 # 0 /\ t = 0 => Point(b) >= 128
               /\ utf8 = 0 /\ b < \h80 => Point(b) = b
<1>1. b \in Nat
  BY DEF Byte
<1>2. CASE utf8 = 0
  <2>1. Point(b) = b % LeadBits(ClassOf(b))
    BY <1>2 DEF Point, ACCEPT
  <2>2. b \in \h00..\h7F \cup \hC2..\hF4
    BY <1>2, DemandParts DEF Good
  <2>3. /\ Transition(0, ClassOf(b)) = LeadState(b)
        /\ PointOK(LeadState(b), b % LeadBits(ClassOf(b)))
        /\ b < \h80 => b % LeadBits(ClassOf(b)) = b
    BY <2>2, FirstByte
  <2>4. PointOK(0, 0) /\ Point(b) \in Nat
    BY <2>1, <2>3 DEF PointOK
  <2> QED
    BY <1>2, <2>1, <2>3, <2>4
<1>3. CASE utf8 # 0
  <2> DEFINE t == Transition(utf8, ClassOf(b))
  <2>1. Point(b) = codepoint * 64 + (b % 64) /\ codepoint \in Nat
    BY <1>3 DEF Point, ACCEPT, PointOK
  <2>2. b \in Head(Demand(utf8)) /\ b \in Cont
    BY <1>3, DemandEmpty, HeadIsCont DEF Good
  <2>3. /\ utf8 = 2 => t = 0
        /\ utf8 \in {3, 4, 5} => t = 2
        /\ utf8 \in {6, 7, 8} => t = 3
    BY <2>2, ContSteps, DemandParts
  <2>4. utf8 = 4 => b % 64 >= 2
    <3>1. utf8 = 4 => b \in ContE0
      BY <2>2, DemandParts
    <3> QED
      BY <1>1, <3>1 DEF ContE0
  <2>5. utf8 = 6 => b % 64 >= 1
    <3>1. utf8 = 6 => b \in ContF0
      BY <2>2, DemandParts
    <3> QED
      BY <1>1, <3>1 DEF ContF0
  <2> HIDE DEF t
  <2>6. b % 64 \in Nat
    BY <1>1
  <2>7. Point(b) \in Nat
    BY <2>1, <2>6
  <2>8. utf8 = 2 => Point(b) >= 128
    BY <2>1, <2>6 DEF PointOK
  <2>9. utf8 \in {3, 4, 5} => Point(b) >= 2
    BY <2>1, <2>4, <2>6 DEF PointOK
  <2>10. utf8 \in {6, 7, 8} => Point(b) >= 1
    BY <2>1, <2>5, <2>6 DEF PointOK
  <2>11. PointOK(t, IF t = 0 THEN 0 ELSE Point(b)) /\ (t = 0 => Point(b) >= 128)
    BY <1>3, <2>3, <2>7, <2>8, <2>9, <2>10 DEF PointOK, States
  <2> QED
    BY <1>3, <2>7, <2>11 DEF t
<1> QED
  BY <1>2, <1>3

-----------------------------------------------------------------------------
(* The invariant is inductive *)

LEMMA RunOfNone ==
    ASSUME NEW s \in States, NEW exp
    PROVE  Runs(s, <<>>, exp) <=> exp = Demand(s)
<1>1. ASSUME Runs(s, <<>>, exp) PROVE exp = Demand(s)
  <2>1. PICK q : Run(q, s, <<>>, exp)
    BY <1>1 DEF Runs
  <2> QED
    BY <2>1 DEF Run
<1>2. ASSUME exp = Demand(s) PROVE Runs(s, <<>>, exp)
  <2> DEFINE q == [i \in 1..1 |-> s]
  <2>1. q \in [1..(Len(<<>>) + 1) -> States] /\ q[1] = s
    OBVIOUS
  <2>2. Run(q, s, <<>>, exp)
    BY <1>2, <2>1 DEF Run
  <2> QED
    BY <2>1, <2>2 DEF Runs
<1> QED
  BY <1>1, <1>2

LEMMA RunOfTail ==
    ASSUME NEW s \in States, NEW exp, NEW tok \in Seq(Byte), tok # <<>>,
           Runs(s, tok, exp)
    PROVE  /\ Head(tok) \in Byte /\ Good(Demand(s), Head(tok))
           /\ Runs(Transition(s, ClassOf(Head(tok))), Tail(tok), exp)
<1>1. PICK q \in [1..(Len(tok) + 1) -> States] : Run(q, s, tok, exp)
  BY DEF Runs
<1>2. Len(tok) \in Nat \ {0} /\ Head(tok) = tok[1] /\ Head(tok) \in Byte
  OBVIOUS
<1>3. Tail(tok) \in Seq(Byte) /\ Len(Tail(tok)) = Len(tok) - 1
  OBVIOUS
<1>4. \A i \in 1..Len(Tail(tok)) : Tail(tok)[i] = tok[i + 1]
  OBVIOUS
<1> DEFINE r == [i \in 1..(Len(Tail(tok)) + 1) |-> q[i + 1]]
<1>5. r \in [1..(Len(Tail(tok)) + 1) -> States]
  BY <1>1, <1>2, <1>3
<1>6. \A i \in 1..(Len(Tail(tok)) + 1) : r[i] = q[i + 1]
  OBVIOUS
<1> HIDE DEF r
<1>7. Good(Demand(s), Head(tok)) /\ q[2] = Transition(s, ClassOf(Head(tok)))
  <2>1. 1 \in 1..Len(tok)
    BY <1>2
  <2> QED
    BY <1>1, <1>2, <2>1 DEF Run
<1>8. r[1] = q[2]
  BY <1>2, <1>3, <1>6
<1>9. ASSUME NEW i \in 1..Len(Tail(tok))
      PROVE  /\ Good(Demand(r[i]), Tail(tok)[i])
             /\ r[i + 1] = Transition(r[i], ClassOf(Tail(tok)[i]))
  <2>1. i + 1 \in 1..Len(tok) /\ i + 1 \in 1..(Len(Tail(tok)) + 1)
    BY <1>2, <1>3
  <2>2. r[i] = q[i + 1] /\ r[i + 1] = q[i + 1 + 1] /\ Tail(tok)[i] = tok[i + 1]
    BY <1>4, <1>6, <2>1
  <2> QED
    BY <1>1, <2>1, <2>2 DEF Run
<1>10. r[Len(Tail(tok)) + 1] = q[Len(tok) + 1]
  BY <1>2, <1>3, <1>6
<1>11. Run(r, Transition(s, ClassOf(Head(tok))), Tail(tok), exp)
  BY <1>1, <1>7, <1>8, <1>9, <1>10 DEF Run
<1> QED
  BY <1>2, <1>5, <1>7, <1>11 DEF Runs

(* What the head and the tail cost. *)
LEMMA CostOfTail ==
    ASSUME NEW tok \in Seq(Byte), tok # <<>>, Long(tok)
    PROVE  /\ Cost(tok) = Price(Head(tok)) + Cost(Tail(tok))
           /\ Price(Head(tok)) \in Nat \ {0} /\ Cost(Tail(tok)) \in Nat
           /\ Price(Head(tok)) <= 6
           /\ Head(tok) >= \h80 => Price(Head(tok)) = 1
           /\ Long(Tail(tok))
<1>1. Len(tok) \in Nat \ {0} /\ Len(Tail(tok)) = Len(tok) - 1 /\ Head(tok) = tok[1]
  OBVIOUS
<1>2. \A i \in 1..Len(Tail(tok)) : Tail(tok)[i] = tok[i + 1] /\ i + 1 \in 1..Len(tok)
  BY <1>1
<1>3. \A b \in Byte : b >= \h80 => Price(b) = 1
  BY DEF Byte, Price, NamedEscapes
<1>4. \A b : Price(b) \in Nat \ {0} /\ Price(b) <= 6
  BY DEF Price
<1>5. \A i \in 1..Len(tok) : tok[i] \in Byte
  OBVIOUS
<1>6. CASE Len(tok) = 1
  <2>1. Len(Tail(tok)) = 0
    BY <1>1, <1>6
  <2>2. Cost(tok) = Price(Head(tok)) /\ Cost(Tail(tok)) = 0 /\ Long(Tail(tok))
    <3>1. Cost(tok) = Price(Head(tok))
      BY <1>1, <1>6 DEF Cost
    <3>2. Cost(Tail(tok)) = 0
      BY <2>1 DEF Cost
    <3>3. Long(Tail(tok))
      BY <2>1 DEF Long
    <3> QED
      BY <3>1, <3>2, <3>3
  <2>3. Head(tok) >= \h80 => Price(Head(tok)) = 1
    BY <1>1, <1>3, <1>5
  <2> QED
    BY <1>4, <2>2, <2>3
<1>7. CASE Len(tok) >= 2
  <2>1. \A i \in 1..Len(tok) : tok[i] >= \h80
    BY <1>7 DEF Long
  <2>2. Head(tok) >= \h80 /\ Price(Head(tok)) = 1
    BY <1>1, <1>3, <1>5, <2>1
  <2>3. Long(Tail(tok))
    <3>1. \A i \in 1..Len(Tail(tok)) : Tail(tok)[i] >= \h80
      BY <1>2, <2>1
    <3> QED
      BY <3>1 DEF Long
  <2>4. Cost(tok) = Len(tok)
    <3>1. Len(tok) # 1
      BY <1>1, <1>7
    <3> QED
      BY <3>1 DEF Cost
  <2>5. Cost(Tail(tok)) = Len(Tail(tok))
    <3>1. CASE Len(Tail(tok)) = 1
      <4>1. 1 \in 1..Len(Tail(tok)) /\ 2 \in 1..Len(tok)
        BY <1>1, <3>1
      <4>2. Tail(tok)[1] = tok[2] /\ tok[2] >= \h80 /\ tok[2] \in Byte
        BY <1>2, <1>5, <2>1, <4>1
      <4>3. Price(Tail(tok)[1]) = 1
        BY <1>3, <4>2
      <4> QED
        BY <3>1, <4>3 DEF Cost
    <3>2. CASE Len(Tail(tok)) # 1
      BY <3>2 DEF Cost
    <3> QED
      BY <3>1, <3>2
  <2> QED
    BY <1>1, <1>4, <2>2, <2>3, <2>4, <2>5
<1> QED
  BY <1>1, <1>6, <1>7

LEMMA InitEstablishes == Init => IInv
<1> SUFFICES ASSUME Init PROVE IInv
  OBVIOUS
<1>1. Demand(0) = <<>> /\ 0 \in States
  BY DemandParts DEF States
<1>2. Runs(0, <<>>, <<>>)
  BY <1>1, RunOfNone
<1>3. TokenOK /\ LengthsOK
  BY DEF Init, TokenOK, LengthsOK, Cost, Long
<1>4. RoomOK
  BY BufferAssumption DEF Init, RoomOK, ACCEPT
<1>5. PointOK(utf8, codepoint)
  BY DEF Init, PointOK, ACCEPT
<1> QED
  BY <1>1, <1>2, <1>3, <1>4, <1>5 DEF Init, IInv, ACCEPT

LEMMA ScanKeeps ==
    ASSUME IInv, NEW piece, Scan(piece), Fits(utf8, piece)
    PROVE  IInv'
<1>1. /\ token = <<>> /\ token' = ValueOf(piece)
      /\ expects' = After(expects, piece)
      /\ UNCHANGED <<utf8, codepoint, bytes, top, again, agree>>
  BY DEF Scan, receiver
<1>2. expects = Demand(utf8)
  BY <1>1, RunOfNone DEF IInv
<1>3. Runs(utf8, token', expects')
  BY <1>1, <1>2 DEF Fits
<1>4. TokenOK'
  BY <1>1 DEF Fits, TokenOK, Long
<1>5. LengthsOK'
  <2>1. Cost(token) = 0 /\ Len(token) = 0
    BY <1>1 DEF Cost
  <2>2. /\ taken \in Nat /\ held \in Nat /\ written \in Nat
        /\ written <= taken /\ held <= written
    BY <2>1 DEF IInv, LengthsOK
  <2>3. /\ Cost(token') <= LengthOf(piece) /\ LengthOf(piece) \in Nat
        /\ Len(token') \in Nat
    BY <1>1 DEF Fits
  <2>4. Cost(token') \in Nat
    BY <1>1, CostBound DEF Fits
  <2>5. CASE expects = <<>>
    <3>1. taken' = LengthOf(piece) /\ held' = Len(token') /\ written' = 0
      BY <1>1, <2>3, <2>5 DEF Scan
    <3> QED
      BY <2>3, <2>4, <3>1 DEF LengthsOK
  <2>6. CASE expects # <<>>
    <3>1. /\ taken' = taken + LengthOf(piece)
          /\ held' = held + Len(token') /\ written' = written
      BY <1>1, <2>6 DEF Scan
    <3> QED
      BY <2>2, <2>3, <2>4, <3>1 DEF LengthsOK
  <2> QED
    BY <2>5, <2>6
<1>6. RoomOK'
  BY <1>1 DEF IInv, RoomOK
<1> QED
  BY <1>1, <1>3, <1>4, <1>5, <1>6 DEF IInv

LEMMA DumpKeeps ==
    ASSUME IInv, Dump
    PROVE  IInv'
<1> DEFINE b == Head(token)
           t == Transition(utf8, ClassOf(b))
           piece == Escaped(t, Point(b), b)
           end == bytes + LengthOf(piece)
<1>1. /\ token \in Seq(Byte) /\ token # <<>> /\ Long(token) /\ Len(token) <= 4
      /\ utf8 \in States /\ PointOK(utf8, codepoint)
  BY DEF IInv, TokenOK, Dump
<1>2. b \in Byte /\ Good(Demand(utf8), b) /\ Runs(t, Tail(token), expects)
  BY <1>1, RunOfTail DEF IInv
<1>3. /\ t \in States /\ Demand(t) = Rest(Demand(utf8), b)
      /\ utf8 # 0 => Missing(t) = Missing(utf8) - 1
      /\ utf8 = 0 => t = LeadState(b)
  BY <1>1, <1>2, InStep
<1>4. /\ Point(b) \in Nat
      /\ PointOK(t, IF t = 0 THEN 0 ELSE Point(b))
      /\ utf8 # 0 /\ t = 0 => Point(b) >= 128
      /\ utf8 = 0 /\ b < \h80 => Point(b) = b
  BY <1>1, <1>2, PointSoFar
<1>5. /\ LengthOf(piece) = Price(b)
      /\ utf8 # 0 \/ b >= \h80 => piece = raw(b)
      /\ ValueOf(piece) = <<b>>
      /\ Accepts(Demand(utf8), piece)
      /\ After(Demand(utf8), piece) = Rest(Demand(utf8), b)
  BY <1>1, <1>2, <1>3, <1>4, EscapedByte
<1>6. /\ Cost(token) = Price(b) + Cost(Tail(token))
      /\ Price(b) \in Nat \ {0} /\ Cost(Tail(token)) \in Nat /\ Price(b) <= 6
      /\ b >= \h80 => Price(b) = 1
      /\ Long(Tail(token))
  BY <1>1, CostOfTail
<1>7. t # REJECT
  BY <1>3 DEF States, REJECT
<1>8. /\ utf8' = t /\ codepoint' = (IF t = 0 THEN 0 ELSE Point(b))
      /\ bytes' = (IF t = 0 THEN Flushed(end) ELSE end)
      /\ top' = (IF piece.kind = "escape" THEN end + 1 ELSE end)
      /\ written' = written + Price(b)
      /\ agree' = (Accepts(again, piece) /\ ValueOf(piece) = <<b>>)
      /\ again' = After(again, piece)
      /\ token' = Tail(token) /\ UNCHANGED <<expects, taken, held>>
  BY <1>5, <1>7 DEF Dump, ACCEPT
<1> HIDE DEF b, t, piece, end
<1>9. TokenOK'
  BY <1>1, <1>6, <1>8 DEF TokenOK, Long
<1>10. again' = Demand(utf8') /\ agree' = TRUE
  BY <1>3, <1>5, <1>8 DEF IInv
<1>11. LengthsOK'
  <2>1. /\ taken \in Nat /\ held \in Nat /\ written \in Nat
        /\ written + Cost(token) <= taken /\ held <= written + Len(token)
    BY DEF IInv, LengthsOK
  <2>2. Len(Tail(token)) = Len(token) - 1 /\ Len(token) \in Nat
    BY <1>1
  <2> QED
    <3>1. /\ taken' = taken /\ held' = held /\ written' = written + Price(b)
          /\ Cost(token') = Cost(Tail(token)) /\ Len(token') = Len(Tail(token))
      BY <1>8
    <3> QED
      BY <1>6, <2>1, <2>2, <3>1, SMTT(20) DEF LengthsOK
<1>12. RoomOK'
  <2>1. /\ bytes \in Int /\ BufferSize \in Nat /\ BufferSize >= 20
        /\ bytes <= BufferSize - 13 + (IF utf8 = 0 THEN 0 ELSE 4 - Missing(utf8))
    BY BufferAssumption DEF IInv, RoomOK
  <2>2. end = bytes + Price(b)
    BY <1>5 DEF end
  <2>3. \A n \in Int : Flushed(n) \in Int /\ Flushed(n) <= BufferSize - 13
    BY <2>1 DEF Flushed
  <2>4. \A s \in States : Missing(s) \in 0..3 /\ (s # 0 => Missing(s) >= 1)
    BY DEF States, Missing
  <2>5. CASE utf8 # 0
    <3>1. Price(b) = 1 /\ piece.kind # "escape"
      BY <1>5, <2>5 DEF raw, LengthOf
    <3>2. /\ end \in Int
          /\ end <= BufferSize - 13 + 4 - Missing(utf8) + 1 /\ end <= BufferSize
      BY <1>1, <2>1, <2>2, <2>4, <2>5, <3>1
    <3>3. top' = end
      BY <1>8, <3>1
    <3>4. CASE t = 0
      <4>1. utf8' = 0 /\ bytes' = Flushed(end) /\ top' = end
        BY <1>8, <3>3, <3>4
      <4> QED
        BY <2>1, <2>3, <3>2, <4>1 DEF RoomOK
    <3>5. CASE t # 0
      BY <1>1, <1>3, <1>8, <2>1, <2>4, <2>5, <3>2, <3>3, <3>5 DEF RoomOK
    <3> QED
      BY <3>4, <3>5
  <2>6. CASE utf8 = 0
    <3>1. end \in Int /\ end <= BufferSize - 13 + Price(b)
      BY <1>6, <2>1, <2>2, <2>6
    <3>2. top' \in Int /\ top' <= BufferSize
      BY <1>6, <1>8, <2>1, <3>1
    <3>3. CASE t = 0
      <4>1. utf8' = 0 /\ bytes' = Flushed(end)
        BY <1>8, <3>3
      <4> QED
        BY <2>1, <2>3, <3>1, <3>2, <4>1 DEF RoomOK
    <3>4. CASE t # 0
      <4>1. b >= \h80
        <5>1. b \in \h00..\h7F \cup \hC2..\hF4
          BY <1>2, <2>6, DemandParts DEF Good
        <5>2. LeadState(b) # 0
          BY <1>3, <2>6, <3>4
        <5>3. ~ (b < \h80)
          BY <5>1, <5>2, FirstByte
        <5> QED
          BY <5>1, <5>3
      <4>2. end <= BufferSize - 13 + 1
        BY <1>6, <3>1, <4>1
      <4> QED
        BY <1>3, <1>8, <2>1, <2>4, <3>1, <3>2, <3>4, <4>2 DEF RoomOK
    <3> QED
      BY <3>3, <3>4
  <2> QED
    BY <2>5, <2>6
<1>13. Runs(utf8', token', expects')
  BY <1>2, <1>8
<1> QED
  BY <1>3, <1>4, <1>8, <1>9, <1>10, <1>11, <1>12, <1>13 DEF IInv

(* Parser, serializer and receiver stay in step in every behaviour. *)
THEOREM Inductive == Spec => []IInv
<1>1. ASSUME IInv, [Next]_vars PROVE IInv'
  <2>1. utf8 \in States
    BY <1>1 DEF IInv
  <2>2. ASSUME NEW piece, Scan(piece) PROVE Accepts(Demand(utf8), piece)
    <3>1. token = <<>> /\ Accepts(expects, piece)
      BY <2>2 DEF Scan
    <3>2. expects = Demand(utf8)
      BY <1>1, <2>1, <3>1, RunOfNone DEF IInv
    <3> QED
      BY <3>1, <3>2
  <2>3. ASSUME NEW c \in TextByte, Scan(raw(c)) PROVE IInv'
    <3>1. c \in Byte
      BY TextAssumption
    <3> QED
      BY <1>1, <2>1, <2>2, <2>3, <3>1, RawFits, ScanKeeps
  <2>4. ASSUME NEW c \in ShortEscaped, Scan(short(c)) PROVE IInv'
    BY <1>1, <2>1, <2>2, <2>4, ShortFits, ScanKeeps
  <2>5. ASSUME NEW u \in Unit, Scan(escape(u)) PROVE IInv'
    <3>1. u \in CodeUnit
      BY TextAssumption
    <3> QED
      BY <1>1, <2>1, <2>2, <2>5, <3>1, EscapeFits, ScanKeeps
  <2>6. ASSUME NEW u \in Unit, NEW v \in Unit, Scan(pair(u, v)) PROVE IInv'
    <3>1. u \in CodeUnit /\ v \in CodeUnit
      BY TextAssumption
    <3> QED
      BY <1>1, <2>1, <2>2, <2>6, <3>1, PairFits, ScanKeeps
  <2>7. CASE Dump
    BY <1>1, <2>7, DumpKeeps
  <2>8. CASE UNCHANGED vars
    BY <1>1, <2>8 DEF vars, parser, serializer, receiver, IInv, TokenOK, LengthsOK, RoomOK
  <2> QED
    BY <1>1, <2>3, <2>4, <2>5, <2>6, <2>7, <2>8 DEF Next, Parse
<1> QED
  BY <1>1, InitEstablishes, PTL DEF Spec

-----------------------------------------------------------------------------
(* The serializer never throws over a text that was parsed (encoder.h:116). *)
THEOREM NeverThrows == Spec => []DumpNeverThrows
<1>1. IInv => DumpNeverThrows
  <2> SUFFICES ASSUME IInv PROVE DumpNeverThrows
    OBVIOUS
  <2>1. utf8 \in States
    BY DEF IInv
  <2>2. ASSUME Boundary PROVE utf8 = 0
    <3>1. Demand(utf8) = <<>>
      BY <2>1, <2>2, RunOfNone DEF Boundary, IInv
    <3> QED
      BY <2>1, <3>1, DemandEmpty
  <2> QED
    BY <2>1, <2>2 DEF DumpNeverThrows, States, REJECT, ACCEPT
<1> QED
  BY <1>1, Inductive, PTL

(* No text gets longer than it was, none gets shorter than its string      *)
(* (encoder.h:78-81).                                                      *)
THEOREM TextsDoNotGrow == Spec => []NeverLonger
<1>1. IInv => NeverLonger
  <2> SUFFICES ASSUME IInv, Boundary PROVE held <= written /\ written <= taken
    BY DEF NeverLonger
  <2>1. Len(token) = 0 /\ Cost(token) = 0
    BY DEF Boundary, Cost
  <2> QED
    BY <2>1 DEF IInv, LengthsOK
<1> QED
  BY <1>1, Inductive, PTL

(* The receiver's parser accepts the new text and gets the same string.    *)
THEOREM TextsArrive == Spec => []ReadBackSame
<1>1. IInv => ReadBackSame
  <2> SUFFICES ASSUME IInv PROVE ReadBackSame
    OBVIOUS
  <2>1. utf8 \in States
    BY DEF IInv
  <2>2. ASSUME Boundary PROVE again = <<>>
    BY <2>1, <2>2, RunOfNone DEF Boundary, IInv
  <2> QED
    BY <2>2 DEF ReadBackSame, IInv
<1> QED
  BY <1>1, Inductive, PTL

(* The serializer never writes behind the end of its buffer, of any size   *)
(* from 20 bytes on.                                                       *)
THEOREM BufferSuffices == Spec => []BufferFits
<1>1. IInv => BufferFits
  BY DEF IInv, RoomOK, BufferFits
<1> QED
  BY <1>1, Inductive, PTL
=============================================================================
