---------------------------- MODULE FriendsProof ----------------------------
(***************************************************************************)
(* The tables of the users, that is Accounts, Friends, Messages and Base,  *)
(* for any names, phones, passwords and Facebook ids, any number of        *)
(* accounts, friendships and messages, and any number of failures.         *)
(*                                                                         *)
(* The first ones say that what is wrong is paid for by failed statements. *)
(* Their invariants name the set of what is wrong (Unequal, Disagree,      *)
(* Crooked, the three sets of AmbInv) and say that it is finite and not    *)
(* larger than the number of faults; an action adds at most one element,   *)
(* and none when it costs nothing (Grows).                                 *)
(*                                                                         *)
(* A list is sorted by the ranks of its entries (Ranks, AtEveryPlace) and  *)
(* shown page after page (AllIsSeen).  Of messages, those behind the pages *)
(* that were asked for are newer than all that were shown, and what moves  *)
(* forward over a page does so for a message that was deleted (ReadInv).   *)
(*                                                                         *)
(* Bases are last: how many rows there are, and who pays (BaseInv).        *)
(***************************************************************************)
EXTENDS Messages, Base, FiniteSetTheorems, TLAPS

-----------------------------------------------------------------------------
(* What failed statements cost.                                             *)

LEMMA CostProperties ==
  ASSUME NEW n \in Nat, NEW done \in SUBSET (1..n)
  PROVE  /\ Cost(n, done) \in Nat
         /\ Cost(n, done) = 0 => done = 1..n
<1>1. CASE done = 1..n
  BY <1>1 DEF Cost
<1>2. CASE done # 1..n /\ \E k \in 0..n - 1 : done = 1..k
  BY <1>2 DEF Cost
<1>3. CASE done # 1..n /\ ~ \E k \in 0..n - 1 : done = 1..k
  <2>1. Cost(n, done) = n - Cardinality(done)
    BY <1>3 DEF Cost
  <2>2. IsFiniteSet(1..n) /\ Cardinality(1..n) = n
    <3>1. Cardinality(1..n) = IF 1 > n THEN 0 ELSE n - 1 + 1
      BY FS_Interval
    <3>2. QED BY <3>1, FS_Interval
  <2>3. /\ IsFiniteSet(done) /\ Cardinality(done) <= n
        /\ Cardinality(1..n) = Cardinality(done) => 1..n = done
    BY <2>2, FS_Subset
  <2>4. Cardinality(done) \in Nat
    BY <2>3, FS_CardinalityType
  <2>5. Cardinality(done) # n
    BY <1>3, <2>2, <2>3
  <2>6. QED BY <2>1, <2>3, <2>4, <2>5
<1>4. QED BY <1>1, <1>2, <1>3

\* The number of failures only grows, by what the action costs.
LEMMA FaultsGrow ==
  ASSUME faults \in 0..MaxFaults, NEW cost \in Nat, Fails(cost)
  PROVE  faults' \in 0..MaxFaults /\ faults' = faults + cost
BY AccountsAssumption DEF Fails

\* A handler that costs nothing took no failed SELECT for an empty one.
LEMMA BlindCost ==
  ASSUME NEW cost \in Nat, NEW blind \in BOOLEAN
  PROVE  /\ cost + (IF blind THEN 1 ELSE 0) \in Nat
         /\ cost + (IF blind THEN 1 ELSE 0) = 0 => cost = 0 /\ ~ blind
OBVIOUS

-----------------------------------------------------------------------------
(* Types.                                                                   *)

Regist    == [mid : Mids, name : Names, pass : Passwords, fb : FbIds \cup {Unbound}]
PassTable == [mid : Mids, name : Names, pass : Passwords]
Iphones   == [mid : Mids, mac : Macs]

LEMMA PassSetType ==
  ASSUME NEW n \in Names, NEW p \in Passwords, NEW f \in FbIds \cup {Unbound}
  PROVE  /\ regist \subseteq Regist => PassSet(regist, n, p) \subseteq Regist
         /\ passTable \subseteq PassTable => PassSet(passTable, n, p) \subseteq PassTable
         /\ regist \subseteq Regist => FbSet(n, f) \subseteq Regist
<1>1. \A r \in Regist : [r EXCEPT !.pass = p] \in Regist /\ [r EXCEPT !.fb = f] \in Regist
  BY DEF Regist
<1>2. \A r \in PassTable : [r EXCEPT !.pass = p] \in PassTable
  BY DEF PassTable
<1>3. QED BY <1>1, <1>2 DEF PassSet, FbSet

\* Two tables may change, and the number of failures grows.
LEMMA AccountsType ==
  ASSUME TypeOK, AccountsNext
  PROVE  TypeOK'
<1>0. /\ nickName \in Seq(Names \cup {NoName}) /\ Len(nickName) \in 0..MaxMids
      /\ regist \subseteq Regist /\ passTable \subseteq PassTable
      /\ iphones \subseteq Iphones /\ faults \in 0..MaxFaults
  BY DEF TypeOK, Regist, PassTable, Iphones
<1>1. ASSUME NEW x \in Names \cup {NoName}, Len(nickName) < MaxMids,
             nickName' = Append(nickName, x)
      PROVE  /\ nickName' \in Seq(Names \cup {NoName}) /\ Len(nickName') \in 0..MaxMids
             /\ NewMid \in Mids
  BY <1>0, <1>1, AccountsAssumption DEF NewMid, Mids
<1>2. ASSUME NEW n \in Names, NEW mac \in Macs, IphoneLogin(mac, n)
      PROVE  TypeOK'
  <2>1. PICK done \in SUBSET (1..3), blind \in BOOLEAN :
          /\ Len(nickName) < MaxMids
          /\ Fails(Cost(3, done) + (IF blind THEN 1 ELSE 0))
          /\ nickName' = Append(nickName, Named(done, 3, n))
          /\ iphones' = IF 2 \in done THEN iphones \cup {[mid |-> NewMid, mac |-> mac]}
                        ELSE iphones
    BY <1>2 DEF IphoneLogin
  <2>2. Named(done, 3, n) \in Names \cup {NoName}
    BY DEF Named
  <2>3. /\ nickName' \in Seq(Names \cup {NoName}) /\ Len(nickName') \in 0..MaxMids
        /\ NewMid \in Mids
    BY <1>1, <2>1, <2>2
  <2>4. iphones' \subseteq Iphones
    BY <1>0, <2>1, <2>3 DEF Iphones
  <2>5. faults' \in 0..MaxFaults
    BY <1>0, <2>1, CostProperties, BlindCost, FaultsGrow
  <2>6. regist' = regist /\ passTable' = passTable
    BY <1>2 DEF IphoneLogin
  <2>7. QED BY <1>0, <2>3, <2>4, <2>5, <2>6 DEF TypeOK, Regist, PassTable, Iphones
<1>3. ASSUME NEW n \in Names, NEW p \in Passwords, RegistUser(n, p)
      PROVE  TypeOK'
  <2> DEFINE row == [mid |-> NewMid, name |-> n, pass |-> p, fb |-> Unbound]
             entry == [mid |-> NewMid, name |-> n, pass |-> p]
  <2>1. PICK done \in SUBSET (1..4), blind \in BOOLEAN :
          /\ Len(nickName) < MaxMids
          /\ Fails(Cost(4, done) + (IF blind THEN 1 ELSE 0))
          /\ nickName' = Append(nickName, Named(done, 2, n))
          /\ regist' = IF 3 \in done THEN regist \cup {row} ELSE regist
          /\ passTable' = IF 4 \in done THEN passTable \cup {entry} ELSE passTable
    BY <1>3 DEF RegistUser
  <2>2. Named(done, 2, n) \in Names \cup {NoName}
    BY DEF Named
  <2>3. /\ nickName' \in Seq(Names \cup {NoName}) /\ Len(nickName') \in 0..MaxMids
        /\ NewMid \in Mids
    BY <1>1, <2>1, <2>2
  <2>4. row \in Regist /\ entry \in PassTable
    BY <2>3 DEF Regist, PassTable
  <2>5. regist' \subseteq Regist /\ passTable' \subseteq PassTable
    <3> HIDE DEF row, entry
    <3>1. QED BY <1>0, <2>1, <2>4
  <2>6. faults' \in 0..MaxFaults
    BY <1>0, <2>1, CostProperties, BlindCost, FaultsGrow
  <2>7. iphones' = iphones
    BY <1>3 DEF RegistUser
  <2>8. QED BY <1>0, <2>3, <2>5, <2>6, <2>7 DEF TypeOK, Regist, PassTable, Iphones
<1>4. ASSUME NEW n \in Names, NEW p \in Passwords, NEW q \in Passwords,
             ChangePassWord(n, p, q)
      PROVE  TypeOK'
  <2>1. PICK done \in SUBSET (1..2) :
          /\ Fails(Cost(2, done))
          /\ regist' = PassSet(regist, n, q) \/ regist' = regist
          /\ passTable' = PassSet(passTable, n, q) \/ passTable' = passTable
    BY <1>4 DEF ChangePassWord
  <2>2. faults' \in 0..MaxFaults
    BY <1>0, <2>1, CostProperties, FaultsGrow
  <2>3. regist' \subseteq Regist /\ passTable' \subseteq PassTable
    <3>1. Unbound \in FbIds \cup {Unbound}
      OBVIOUS
    <3>2. QED BY <1>0, <2>1, <3>1, PassSetType
  <2>4. nickName' = nickName /\ iphones' = iphones
    BY <1>4 DEF ChangePassWord
  <2>5. QED BY <1>0, <2>2, <2>3, <2>4 DEF TypeOK, Regist, PassTable, Iphones
<1>5. ASSUME NEW n \in Names, NEW p \in Passwords, NEW f \in FbIds,
             BindFb(f, n, p) \/ UnbindFb(f, n, p)
      PROVE  TypeOK'
  <2>1. regist' = FbSet(n, f) \/ regist' = FbSet(n, Unbound)
    BY <1>5 DEF BindFb, UnbindFb
  <2>2. faults' \in 0..MaxFaults
    <3>1. CASE BindFb(f, n, p)
      <4>1. PICK blind \in BOOLEAN : Fails(IF blind THEN 1 ELSE 0)
        BY <3>1 DEF BindFb
      <4>2. (IF blind THEN 1 ELSE 0) \in Nat
        OBVIOUS
      <4>3. QED BY <1>0, <4>1, <4>2, FaultsGrow
    <3>2. CASE UnbindFb(f, n, p)
      BY <1>0, <3>2 DEF UnbindFb
    <3>3. QED BY <1>5, <3>1, <3>2
  <2>3. f \in FbIds \cup {Unbound} /\ Unbound \in FbIds \cup {Unbound}
    OBVIOUS
  <2>4. regist' \subseteq Regist
    BY <1>0, <2>1, <2>3, PassSetType, <1>5
  <2>5. nickName' = nickName /\ iphones' = iphones /\ passTable' = passTable
    BY <1>5 DEF BindFb, UnbindFb
  <2>6. QED BY <1>0, <2>2, <2>4, <2>5 DEF TypeOK, Regist, PassTable, Iphones
<1>6. QED BY <1>2, <1>3, <1>4, <1>5 DEF AccountsNext

\* No handler of accounts forgets a failure.
LEMMA AccountsFaults ==
  ASSUME TypeOK, AccountsNext
  PROVE  faults \in Nat /\ faults' \in Nat /\ faults' >= faults
<1>1. faults \in Nat /\ faults' \in Nat
  BY AccountsType, AccountsAssumption DEF TypeOK
<1>2. ASSUME NEW cost \in Nat, Fails(cost)
      PROVE  faults' >= faults
  BY <1>1, <1>2 DEF Fails
<1>3. ASSUME NEW done, NEW blind \in BOOLEAN, NEW n \in Nat, done \in SUBSET (1..n),
             Fails(Cost(n, done) + (IF blind THEN 1 ELSE 0))
      PROVE  faults' >= faults
  <2>1. Cost(n, done) + (IF blind THEN 1 ELSE 0) \in Nat
    BY <1>3, CostProperties
  <2>2. QED BY <1>2, <1>3, <2>1
<1>4. ASSUME NEW n \in Names, NEW mac \in Macs, IphoneLogin(mac, n)
      PROVE  faults' >= faults
  BY <1>3, <1>4 DEF IphoneLogin
<1>5. ASSUME NEW n \in Names, NEW p \in Passwords, RegistUser(n, p)
      PROVE  faults' >= faults
  BY <1>3, <1>5 DEF RegistUser
<1>6. ASSUME NEW n \in Names, NEW p \in Passwords, NEW q \in Passwords,
             ChangePassWord(n, p, q)
      PROVE  faults' >= faults
  <2>1. PICK done \in SUBSET (1..2) : Fails(Cost(2, done))
    BY <1>6 DEF ChangePassWord
  <2>2. QED BY <1>2, <2>1, CostProperties
<1>7. ASSUME NEW n \in Names, NEW p \in Passwords, NEW f \in FbIds,
             BindFb(f, n, p) \/ UnbindFb(f, n, p)
      PROVE  faults' >= faults
  <2>1. CASE BindFb(f, n, p)
    <3>1. PICK blind \in BOOLEAN : Fails(IF blind THEN 1 ELSE 0)
      BY <2>1 DEF BindFb
    <3>2. (IF blind THEN 1 ELSE 0) \in Nat
      OBVIOUS
    <3>3. QED BY <1>2, <3>1, <3>2
  <2>2. CASE UnbindFb(f, n, p)
    BY <1>1, <2>2 DEF UnbindFb
  <2>3. QED BY <1>7, <2>1, <2>2
<1>8. QED BY <1>1, <1>4, <1>5, <1>6, <1>7 DEF AccountsNext

\* The table of friendships after an INSERT and after a DELETE.
LEMMA InsertedType ==
  ASSUME NEW table \in [Names \X Names -> Nat], NEW x \in Names, NEW y \in Names
  PROVE  Inserted(table, x, y) \in [Names \X Names -> Nat]
BY DEF Inserted

LEMMA DeletedType ==
  ASSUME NEW table \in [Names \X Names -> Nat], NEW x \in Names, NEW y \in Names
  PROVE  Deleted(table, x, y) \in [Names \X Names -> Nat]
BY DEF Deleted

\* Friendships of other users stay as they are.
OthersStay(me, f) ==
  \A a, b \in Names : {a, b} # {me, f} => memberShip'[<<a, b>>] = memberShip[<<a, b>>]

\* What the two handlers of friends do when nothing fails, and what they can do
\* at most otherwise.
LEMMA AcceptSteps ==
  ASSUME FriendsTypeOK, NEW me \in Names, NEW f \in Names, AcceptFriend(me, f)
  PROVE  /\ faults' \in 0..MaxFaults /\ faults' >= faults
         /\ memberShip' \in [Names \X Names -> Nat]
         /\ OthersStay(me, f)
         /\ me # f => \A a, b \in Names : /\ memberShip[<<a, b>>] <= memberShip'[<<a, b>>]
                                          /\ memberShip'[<<a, b>>] <= memberShip[<<a, b>>] + 1
         /\ me # f /\ faults' = faults =>
              /\ memberShip[<<me, f>>] = 0 /\ memberShip'[<<me, f>>] = 1
              /\ memberShip'[<<f, me>>] = memberShip[<<f, me>>] + 1
<1>0. faults \in 0..MaxFaults /\ memberShip \in [Names \X Names -> Nat] /\ faults \in Nat
  BY AccountsAssumption DEF FriendsTypeOK, TypeOK
<1>1. PICK done \in SUBSET (1..2), blind \in BOOLEAN :
        /\ ~IsAFriend(me, f) \/ blind
        /\ Fails(Cost(2, done) + (IF blind THEN 1 ELSE 0))
        /\ LET first == IF 1 \in done THEN Inserted(memberShip, me, f) ELSE memberShip
           IN  memberShip' = IF 2 \in done THEN Inserted(first, f, me) ELSE first
  BY DEF AcceptFriend
<1> DEFINE cost == Cost(2, done) + (IF blind THEN 1 ELSE 0)
           first == IF 1 \in done THEN Inserted(memberShip, me, f) ELSE memberShip
<1>2. /\ cost \in Nat
      /\ cost = 0 => done = 1..2 /\ ~ blind
  <2>1. Cost(2, done) \in Nat /\ (Cost(2, done) = 0 => done = 1..2)
    BY CostProperties
  <2>2. QED BY <2>1, BlindCost
<1>3. faults' \in 0..MaxFaults /\ faults' = faults + cost
  BY <1>0, <1>1, <1>2, FaultsGrow
<1> HIDE DEF cost
<1>4. cost = 0 => 1 \in done /\ 2 \in done /\ memberShip[<<me, f>>] = 0
  <2>1. memberShip[<<me, f>>] \in Nat
    BY <1>0
  <2>2. QED BY <1>1, <1>2, <2>1 DEF IsAFriend
<1>5. /\ first \in [Names \X Names -> Nat]
      /\ \A a, b \in Names : first[<<a, b>>] =
           IF 1 \in done /\ a = me /\ b = f THEN memberShip[<<a, b>>] + 1 ELSE memberShip[<<a, b>>]
  <2>1. first \in [Names \X Names -> Nat]
    BY <1>0, InsertedType
  <2>2. ASSUME NEW a \in Names, NEW b \in Names
        PROVE  first[<<a, b>>] = IF 1 \in done /\ a = me /\ b = f
                                 THEN memberShip[<<a, b>>] + 1 ELSE memberShip[<<a, b>>]
    <3>1. <<a, b>> \in Names \X Names /\ (<<a, b>> = <<me, f>> <=> a = me /\ b = f)
      OBVIOUS
    <3>2. QED BY <1>0, <3>1 DEF Inserted
  <2>3. QED BY <2>1, <2>2
<1> HIDE DEF first
<1>6. memberShip' = IF 2 \in done THEN Inserted(first, f, me) ELSE first
  BY <1>1 DEF first
<1>7. /\ memberShip' \in [Names \X Names -> Nat]
      /\ \A a, b \in Names : memberShip'[<<a, b>>] =
           IF 2 \in done /\ a = f /\ b = me THEN first[<<a, b>>] + 1 ELSE first[<<a, b>>]
  <2>1. /\ Inserted(first, f, me) \in [Names \X Names -> Nat]
        /\ \A a, b \in Names : Inserted(first, f, me)[<<a, b>>] =
             IF a = f /\ b = me THEN first[<<a, b>>] + 1 ELSE first[<<a, b>>]
    <3>1. first \in [Names \X Names -> Nat]
      BY <1>5
    <3>2. Inserted(first, f, me) \in [Names \X Names -> Nat]
      BY <3>1, InsertedType
    <3>3. ASSUME NEW a \in Names, NEW b \in Names
          PROVE  Inserted(first, f, me)[<<a, b>>] =
                   IF a = f /\ b = me THEN first[<<a, b>>] + 1 ELSE first[<<a, b>>]
      <4>1. <<a, b>> \in Names \X Names /\ (<<a, b>> = <<f, me>> <=> a = f /\ b = me)
        OBVIOUS
      <4>2. QED BY <3>1, <4>1 DEF Inserted
    <3>4. QED BY <3>2, <3>3
  <2>2. CASE 2 \in done
    <3>1. memberShip' = Inserted(first, f, me)
      BY <1>6, <2>2
    <3>2. QED BY <2>1, <2>2, <3>1
  <2>3. CASE 2 \notin done
    BY <1>5, <1>6, <2>3
  <2>4. QED BY <2>2, <2>3
<1>8. ASSUME NEW a \in Names, NEW b \in Names
      PROVE  /\ memberShip[<<a, b>>] \in Nat
             /\ {a, b} # {me, f} => memberShip'[<<a, b>>] = memberShip[<<a, b>>]
             /\ me # f => /\ memberShip[<<a, b>>] <= memberShip'[<<a, b>>]
                          /\ memberShip'[<<a, b>>] <= memberShip[<<a, b>>] + 1
             /\ 1 \in done /\ a = me /\ b = f /\ me # f
                  => memberShip'[<<a, b>>] = memberShip[<<a, b>>] + 1
             /\ 2 \in done /\ a = f /\ b = me /\ me # f
                  => memberShip'[<<a, b>>] = memberShip[<<a, b>>] + 1
  <2>1. memberShip[<<a, b>>] \in Nat
    BY <1>0
  <2>2. first[<<a, b>>] =
          IF 1 \in done /\ a = me /\ b = f THEN memberShip[<<a, b>>] + 1 ELSE memberShip[<<a, b>>]
    BY <1>5
  <2>3. memberShip'[<<a, b>>] =
          IF 2 \in done /\ a = f /\ b = me THEN first[<<a, b>>] + 1 ELSE first[<<a, b>>]
    BY <1>7
  <2>4. {a, b} # {me, f} => ~(a = me /\ b = f) /\ ~(a = f /\ b = me)
    OBVIOUS
  <2>5. QED BY <2>1, <2>2, <2>3, <2>4
<1>9. OthersStay(me, f)
  BY <1>8 DEF OthersStay
<1>10. \A a, b \in Names :
         me # f => /\ memberShip[<<a, b>>] <= memberShip'[<<a, b>>]
                   /\ memberShip'[<<a, b>>] <= memberShip[<<a, b>>] + 1
  BY <1>8
<1>11. me # f /\ faults' = faults =>
         /\ memberShip[<<me, f>>] = 0 /\ memberShip'[<<me, f>>] = 1
         /\ memberShip'[<<f, me>>] = memberShip[<<f, me>>] + 1
  <2> SUFFICES ASSUME me # f, faults' = faults
               PROVE  /\ memberShip[<<me, f>>] = 0 /\ memberShip'[<<me, f>>] = 1
                      /\ memberShip'[<<f, me>>] = memberShip[<<f, me>>] + 1
    OBVIOUS
  <2>1. cost = 0
    BY <1>0, <1>2, <1>3
  <2>2. memberShip'[<<me, f>>] = memberShip[<<me, f>>] + 1
    BY <1>4, <1>8, <2>1
  <2>3. memberShip'[<<f, me>>] = memberShip[<<f, me>>] + 1
    BY <1>4, <1>8, <2>1
  <2>4. QED BY <1>4, <2>1, <2>2, <2>3
<1>12. faults' >= faults
  BY <1>0, <1>2, <1>3
<1>13. QED BY <1>3, <1>7, <1>9, <1>10, <1>11, <1>12

LEMMA DeleteSteps ==
  ASSUME FriendsTypeOK, NEW me \in Names, NEW f \in Names, DeleteFriend(me, f)
  PROVE  /\ faults' \in 0..MaxFaults /\ faults' >= faults
         /\ memberShip' \in [Names \X Names -> Nat]
         /\ OthersStay(me, f)
         /\ \A a, b \in Names : memberShip'[<<a, b>>] <= memberShip[<<a, b>>]
         /\ faults' = faults => memberShip'[<<me, f>>] = 0 /\ memberShip'[<<f, me>>] = 0
<1>0. faults \in 0..MaxFaults /\ memberShip \in [Names \X Names -> Nat] /\ faults \in Nat
  BY AccountsAssumption DEF FriendsTypeOK, TypeOK
<1> DEFINE first == Deleted(memberShip, me, f)
<1>1. PICK k \in 1..2 :
        /\ Fails(Cost(2, 1..k))
        /\ memberShip' = IF k = 2 THEN Deleted(first, f, me) ELSE first
  BY DEF DeleteFriend
<1>2. Cost(2, 1..k) \in Nat /\ (Cost(2, 1..k) = 0 => k = 2)
  <2>1. (1..k) \in SUBSET (1..2)
    OBVIOUS
  <2>2. Cost(2, 1..k) \in Nat /\ (Cost(2, 1..k) = 0 => 1..k = 1..2)
    BY <2>1, CostProperties
  <2>3. 1..k = 1..2 => k = 2
    <3>1. 2 \in 1..2
      OBVIOUS
    <3>2. QED BY <3>1
  <2>4. QED BY <2>2, <2>3
<1>3. faults' \in 0..MaxFaults /\ faults' = faults + Cost(2, 1..k)
  BY <1>0, <1>1, <1>2, FaultsGrow
<1>4. /\ first \in [Names \X Names -> Nat]
      /\ \A a, b \in Names :
           first[<<a, b>>] = IF a = me /\ b = f THEN 0 ELSE memberShip[<<a, b>>]
  <2>1. first \in [Names \X Names -> Nat]
    BY <1>0, DeletedType
  <2>2. ASSUME NEW a \in Names, NEW b \in Names
        PROVE  first[<<a, b>>] = IF a = me /\ b = f THEN 0 ELSE memberShip[<<a, b>>]
    <3>1. <<a, b>> \in Names \X Names /\ (<<a, b>> = <<me, f>> <=> a = me /\ b = f)
      OBVIOUS
    <3>2. QED BY <1>0, <3>1 DEF Deleted
  <2>3. QED BY <2>1, <2>2
<1> HIDE DEF first
<1>5. /\ memberShip' \in [Names \X Names -> Nat]
      /\ \A a, b \in Names : memberShip'[<<a, b>>] =
           IF k = 2 /\ a = f /\ b = me THEN 0 ELSE first[<<a, b>>]
  <2>1. /\ Deleted(first, f, me) \in [Names \X Names -> Nat]
        /\ \A a, b \in Names : Deleted(first, f, me)[<<a, b>>] =
             IF a = f /\ b = me THEN 0 ELSE first[<<a, b>>]
    <3>1. first \in [Names \X Names -> Nat]
      BY <1>4
    <3>2. Deleted(first, f, me) \in [Names \X Names -> Nat]
      BY <3>1, DeletedType
    <3>3. ASSUME NEW a \in Names, NEW b \in Names
          PROVE  Deleted(first, f, me)[<<a, b>>] =
                   IF a = f /\ b = me THEN 0 ELSE first[<<a, b>>]
      <4>1. <<a, b>> \in Names \X Names /\ (<<a, b>> = <<f, me>> <=> a = f /\ b = me)
        OBVIOUS
      <4>2. QED BY <3>1, <4>1 DEF Deleted
    <3>4. QED BY <3>2, <3>3
  <2>2. CASE k = 2
    <3>1. memberShip' = Deleted(first, f, me)
      BY <1>1, <2>2
    <3>2. QED BY <2>1, <2>2, <3>1
  <2>3. CASE k # 2
    BY <1>1, <1>4, <2>3
  <2>4. QED BY <2>2, <2>3
<1>6. ASSUME NEW a \in Names, NEW b \in Names
      PROVE  /\ {a, b} # {me, f} => memberShip'[<<a, b>>] = memberShip[<<a, b>>]
             /\ memberShip'[<<a, b>>] <= memberShip[<<a, b>>]
             /\ a = me /\ b = f => memberShip'[<<a, b>>] = 0
             /\ k = 2 /\ a = f /\ b = me => memberShip'[<<a, b>>] = 0
  <2>1. memberShip[<<a, b>>] \in Nat
    BY <1>0
  <2>2. first[<<a, b>>] = IF a = me /\ b = f THEN 0 ELSE memberShip[<<a, b>>]
    BY <1>4
  <2>3. memberShip'[<<a, b>>] = IF k = 2 /\ a = f /\ b = me THEN 0 ELSE first[<<a, b>>]
    BY <1>5
  <2>4. {a, b} # {me, f} => ~(a = me /\ b = f) /\ ~(a = f /\ b = me)
    OBVIOUS
  <2>5. QED BY <2>1, <2>2, <2>3, <2>4
<1>7. OthersStay(me, f)
  BY <1>6 DEF OthersStay
<1>8. \A a, b \in Names : memberShip'[<<a, b>>] <= memberShip[<<a, b>>]
  BY <1>6
<1>9. faults' = faults => memberShip'[<<me, f>>] = 0 /\ memberShip'[<<f, me>>] = 0
  <2> SUFFICES ASSUME faults' = faults
               PROVE  memberShip'[<<me, f>>] = 0 /\ memberShip'[<<f, me>>] = 0
    OBVIOUS
  <2>1. k = 2
    BY <1>0, <1>2, <1>3
  <2>2. QED BY <1>6, <2>1
<1>10. faults' >= faults
  BY <1>0, <1>2, <1>3
<1>11. QED BY <1>3, <1>5, <1>7, <1>8, <1>9, <1>10

LEMMA FriendsTypeNext == FriendsTypeOK /\ [FriendsNext]_vars => FriendsTypeOK'
<1> SUFFICES ASSUME FriendsTypeOK, [FriendsNext]_vars PROVE FriendsTypeOK'
  OBVIOUS
<1>1. CASE AccountsNext /\ UNCHANGED memberShip
  BY <1>1, AccountsType DEF FriendsTypeOK
<1>2. ASSUME NEW me \in Names, NEW f \in Names, AcceptFriend(me, f) \/ DeleteFriend(me, f)
      PROVE  FriendsTypeOK'
  <2>1. faults' \in 0..MaxFaults /\ memberShip' \in [Names \X Names -> Nat]
    BY <1>2, AcceptSteps, DeleteSteps
  <2>2. UNCHANGED <<nickName, regist, passTable, iphones>>
    BY <1>2 DEF AcceptFriend, DeleteFriend
  <2>3. QED BY <2>1, <2>2 DEF FriendsTypeOK, TypeOK
<1>3. CASE UNCHANGED vars
  BY <1>3 DEF vars, accountVars, FriendsTypeOK, TypeOK
<1>4. QED BY <1>1, <1>2, <1>3 DEF FriendsNext

LEMMA FriendsTypeInit == FriendsInit => FriendsTypeOK
BY AccountsAssumption DEF FriendsInit, Init, FriendsTypeOK, TypeOK

\* Every account has a mid in the range, every row names an account that can be
\* there, and no failure is forgotten, whichever statements of a handler fail
\* (DBOperator.cpp, RegistSystem.cpp).
THEOREM FriendsTypes == FriendsSpec => []FriendsTypeOK
BY FriendsTypeInit, FriendsTypeNext, PTL DEF FriendsSpec

-----------------------------------------------------------------------------
(* Sets whose size the failures bound.                                      *)

\* A set that grows by at most one element, and only when something failed.
LEMMA Grows ==
  ASSUME NEW S, NEW T, NEW x, IsFiniteSet(S), NEW cost \in Nat,
         T \subseteq S \cup {x}, cost = 0 => T \subseteq S
  PROVE  /\ IsFiniteSet(T) /\ Cardinality(T) \in Nat /\ Cardinality(S) \in Nat
         /\ Cardinality(T) <= Cardinality(S) + cost
<1>0. Cardinality(S) \in Nat
  BY FS_CardinalityType
<1>1. CASE cost = 0
  <2>1. T \in SUBSET S
    BY <1>1
  <2>2. IsFiniteSet(T) /\ Cardinality(T) <= Cardinality(S) /\ Cardinality(T) \in Nat
    BY <2>1, FS_Subset, FS_CardinalityType
  <2>3. QED BY <1>0, <1>1, <2>2
<1>2. CASE cost # 0
  <2>1. /\ IsFiniteSet(S \cup {x})
        /\ Cardinality(S \cup {x}) = IF x \in S THEN Cardinality(S) ELSE Cardinality(S) + 1
    BY FS_AddElement
  <2>2. T \in SUBSET (S \cup {x})
    OBVIOUS
  <2>3. IsFiniteSet(T) /\ Cardinality(T) <= Cardinality(S \cup {x})
    BY <2>1, <2>2, FS_Subset
  <2>4. Cardinality(T) \in Nat
    BY <2>3, FS_CardinalityType
  <2>5. QED BY <1>0, <1>2, <2>1, <2>3, <2>4
<1>3. QED BY <1>1, <1>2

LEMMA OneMore ==
  ASSUME NEW S, NEW T, NEW x, IsFiniteSet(S), Cardinality(S) <= faults,
         faults \in Nat, NEW cost \in Nat, faults' = faults + cost,
         T \subseteq S \cup {x}, cost = 0 => T \subseteq S
  PROVE  IsFiniteSet(T) /\ Cardinality(T) <= faults'
<1>1. /\ IsFiniteSet(T) /\ Cardinality(T) \in Nat /\ Cardinality(S) \in Nat
      /\ Cardinality(T) <= Cardinality(S) + cost
  BY Grows
<1>2. QED BY <1>1

-----------------------------------------------------------------------------
(* Friends.                                                                 *)

\* The pairs of users of whom one is more of a friend than the other.
Unequal == {pair \in Names \X Names :
              /\ pair[1] < pair[2]
              /\ memberShip[pair] # memberShip[<<pair[2], pair[1]>>]}

\* An invitation is accepted by one side only when it is no friend: a second row
\* needs a failure, and so does a row without its counterpart.
FriendsInv ==
  /\ IsFiniteSet(Unequal) /\ Cardinality(Unequal) <= faults
  /\ \A a, b \in Names : a # b =>
       /\ memberShip[<<a, b>>] <= 1 + faults
       /\ memberShip[<<b, a>>] = 0 => memberShip[<<a, b>>] <= faults

LEMMA OnlyOnePair ==
  ASSUME NEW me \in Names, NEW f \in Names, me # f, OthersStay(me, f),
         NEW x, x = (IF me < f THEN <<me, f>> ELSE <<f, me>>)
  PROVE  /\ Unequal' \subseteq Unequal \cup {x}
         /\ memberShip'[<<me, f>>] = memberShip'[<<f, me>>] => Unequal' \subseteq Unequal
         /\ (memberShip'[<<me, f>>] # memberShip'[<<f, me>>]
              => memberShip[<<me, f>>] # memberShip[<<f, me>>]) => Unequal' \subseteq Unequal
<1>0. Names \subseteq Nat
  BY FriendsAssumption
<1>1. ASSUME NEW a \in Names, NEW b \in Names, <<a, b>> \in Unequal',
             <<a, b>> \notin Unequal
      PROVE  /\ <<a, b>> = x
             /\ memberShip'[<<me, f>>] # memberShip'[<<f, me>>]
             /\ memberShip[<<me, f>>] = memberShip[<<f, me>>]
  <2>1. a < b /\ memberShip'[<<a, b>>] # memberShip'[<<b, a>>]
    BY <1>1 DEF Unequal
  <2>2. memberShip[<<a, b>>] = memberShip[<<b, a>>]
    BY <1>1, <2>1 DEF Unequal
  <2>3. {b, a} = {a, b}
    OBVIOUS
  <2>4. {a, b} = {me, f}
    BY <2>1, <2>2, <2>3 DEF OthersStay
  <2>5. (a = me /\ b = f) \/ (a = f /\ b = me)
    BY <2>4
  <2>6. CASE a = me /\ b = f
    BY <2>1, <2>2, <2>6
  <2>7. CASE a = f /\ b = me
    <3>1. ~(me < f)
      BY <1>0, <2>1, <2>7
    <3>2. QED BY <2>1, <2>2, <2>7, <3>1
  <2>8. QED BY <2>5, <2>6, <2>7
<1>2. \A pair \in Unequal' : \E a, b \in Names : pair = <<a, b>>
  BY DEF Unequal
<1>3. QED BY <1>1, <1>2

LEMMA AboveZero ==
  ASSUME NEW n \in Nat
  PROVE  0 <= 1 + n /\ 0 <= n
OBVIOUS

LEMMA AcceptFriendsInv ==
  ASSUME FriendsTypeOK, FriendsInv, NEW me \in Names, NEW f \in Names,
         AcceptFriend(me, f) \/ DeleteFriend(me, f)
  PROVE  FriendsInv'
<1>0. faults \in Nat /\ faults' \in Nat /\ faults' >= faults
  <2>1. faults \in 0..MaxFaults /\ MaxFaults \in Nat
    BY AccountsAssumption DEF FriendsTypeOK, TypeOK
  <2>2. faults' \in 0..MaxFaults /\ faults' >= faults
    <3>1. CASE AcceptFriend(me, f)
      BY <3>1, AcceptSteps
    <3>2. CASE DeleteFriend(me, f)
      BY <3>2, DeleteSteps
    <3>3. QED BY <3>1, <3>2
  <2>3. QED BY <2>1, <2>2
<1>1. OthersStay(me, f)
  BY AcceptSteps, DeleteSteps
<1>2. \A a, b \in Names : memberShip[<<a, b>>] \in Nat /\ memberShip'[<<a, b>>] \in Nat
  <2>1. memberShip \in [Names \X Names -> Nat] /\ memberShip' \in [Names \X Names -> Nat]
    BY AcceptSteps, DeleteSteps DEF FriendsTypeOK
  <2>2. QED BY <2>1
<1>3. CASE me = f
  <2>1. \A a, b \in Names : a # b => {a, b} # {me, f}
    BY <1>3
  <2>2. \A a, b \in Names : a # b => memberShip'[<<a, b>>] = memberShip[<<a, b>>]
    BY <1>1, <2>1 DEF OthersStay
  <2>3. \A a, b \in Names : a < b => a # b /\ b # a
    BY FriendsAssumption
  <2>4. Unequal' = Unequal
    <3>1. \A a, b \in Names : <<a, b>> \in Unequal' <=> <<a, b>> \in Unequal
      <4> SUFFICES ASSUME NEW a \in Names, NEW b \in Names
                   PROVE  <<a, b>> \in Unequal' <=> <<a, b>> \in Unequal
        OBVIOUS
      <4>1. <<a, b>> \in Names \X Names /\ <<a, b>>[1] = a /\ <<a, b>>[2] = b
        OBVIOUS
      <4>2. <<a, b>> \in Unequal <=> a < b /\ memberShip[<<a, b>>] # memberShip[<<b, a>>]
        BY <4>1 DEF Unequal
      <4>3. <<a, b>> \in Unequal' <=> a < b /\ memberShip'[<<a, b>>] # memberShip'[<<b, a>>]
        BY <4>1 DEF Unequal
      <4>4. a < b => /\ memberShip'[<<a, b>>] = memberShip[<<a, b>>]
                     /\ memberShip'[<<b, a>>] = memberShip[<<b, a>>]
        BY <2>2, <2>3
      <4>5. QED BY <4>2, <4>3, <4>4
    <3>2. /\ \A pair \in Unequal' : \E a, b \in Names : pair = <<a, b>>
          /\ \A pair \in Unequal : \E a, b \in Names : pair = <<a, b>>
      BY DEF Unequal
    <3>3. QED BY <3>1, <3>2
  <2>5. IsFiniteSet(Unequal') /\ Cardinality(Unequal') <= faults'
    <3>1. Cardinality(Unequal) \in Nat
      BY FS_CardinalityType DEF FriendsInv
    <3>2. QED BY <1>0, <2>4, <3>1 DEF FriendsInv
  <2>6. ASSUME NEW a \in Names, NEW b \in Names, a # b
        PROVE  /\ memberShip'[<<a, b>>] <= 1 + faults'
               /\ memberShip'[<<b, a>>] = 0 => memberShip'[<<a, b>>] <= faults'
    <3>1. memberShip'[<<a, b>>] = memberShip[<<a, b>>]
          /\ memberShip'[<<b, a>>] = memberShip[<<b, a>>]
      BY <2>2, <2>6
    <3>2. memberShip[<<a, b>>] <= 1 + faults
          /\ (memberShip[<<b, a>>] = 0 => memberShip[<<a, b>>] <= faults)
      BY <2>6 DEF FriendsInv
    <3>3. QED BY <1>0, <1>2, <3>1, <3>2
  <2>7. QED BY <2>5, <2>6 DEF FriendsInv
<1>4. CASE me # f
  <2> DEFINE x == IF me < f THEN <<me, f>> ELSE <<f, me>>
  <2>1. /\ Unequal' \subseteq Unequal \cup {x}
        /\ memberShip'[<<me, f>>] = memberShip'[<<f, me>>] => Unequal' \subseteq Unequal
        /\ (memberShip'[<<me, f>>] # memberShip'[<<f, me>>]
             => memberShip[<<me, f>>] # memberShip[<<f, me>>]) => Unequal' \subseteq Unequal
    BY <1>1, <1>4, OnlyOnePair
  <2> HIDE DEF x
  <2>2. faults' = faults => Unequal' \subseteq Unequal
    <3>1. CASE AcceptFriend(me, f)
      <4>1. faults' = faults =>
              /\ memberShip[<<me, f>>] = 0 /\ memberShip'[<<me, f>>] = 1
              /\ memberShip'[<<f, me>>] = memberShip[<<f, me>>] + 1
        BY <1>4, <3>1, AcceptSteps
      <4>2. QED BY <1>2, <2>1, <4>1
    <3>2. CASE DeleteFriend(me, f)
      <4>1. faults' = faults => memberShip'[<<me, f>>] = 0 /\ memberShip'[<<f, me>>] = 0
        BY <3>2, DeleteSteps
      <4>2. QED BY <2>1, <4>1
    <3>3. QED BY <3>1, <3>2
  <2>3. IsFiniteSet(Unequal') /\ Cardinality(Unequal') <= faults'
    <3>1. PICK cost \in Nat : faults' = faults + cost /\ (cost = 0 => faults' = faults)
      <4>1. PICK n \in Nat : faults' = faults + n
        BY <1>0
      <4>2. QED BY <1>0, <4>1
    <3>2. IsFiniteSet(Unequal) /\ Cardinality(Unequal) <= faults
      BY DEF FriendsInv
    <3>3. cost = 0 => Unequal' \subseteq Unequal
      BY <2>2, <3>1
    <3>4. QED BY <1>0, <2>1, <3>1, <3>2, <3>3, OneMore
  <2>4. ASSUME NEW a \in Names, NEW b \in Names, a # b
        PROVE  /\ memberShip'[<<a, b>>] <= 1 + faults'
               /\ memberShip'[<<b, a>>] = 0 => memberShip'[<<a, b>>] <= faults'
    <3>0. /\ memberShip[<<a, b>>] <= 1 + faults
          /\ memberShip[<<b, a>>] = 0 => memberShip[<<a, b>>] <= faults
      BY <2>4 DEF FriendsInv
    <3>4. memberShip'[<<a, b>>] = 0 =>
             /\ memberShip'[<<a, b>>] <= 1 + faults'
             /\ memberShip'[<<b, a>>] = 0 => memberShip'[<<a, b>>] <= faults'
      <4>1. 0 <= 1 + faults' /\ 0 <= faults'
        BY <1>0, AboveZero, Zenon
      <4>2. QED BY <4>1, Zenon
    <3>1. CASE AcceptFriend(me, f)
      <4>1. /\ memberShip[<<a, b>>] <= memberShip'[<<a, b>>]
            /\ memberShip'[<<a, b>>] <= memberShip[<<a, b>>] + 1
            /\ memberShip[<<b, a>>] <= memberShip'[<<b, a>>]
        BY <1>4, <3>1, AcceptSteps
      <4>2. CASE faults' # faults
        <5>1. faults' >= faults + 1
          BY <1>0, <4>2
        <5>2. memberShip'[<<b, a>>] = 0 => memberShip[<<b, a>>] = 0
          BY <1>2, <4>1
        <5>3. QED BY <1>0, <1>2, <3>0, <4>1, <5>1, <5>2
      <4>3. CASE faults' = faults
        <5>1. /\ memberShip[<<me, f>>] = 0 /\ memberShip'[<<me, f>>] = 1
              /\ memberShip'[<<f, me>>] = memberShip[<<f, me>>] + 1
          BY <1>4, <3>1, <4>3, AcceptSteps
        <5>2. memberShip[<<f, me>>] <= faults
          BY <1>4, <5>1 DEF FriendsInv
        <5>3. CASE a = me /\ b = f
          BY <1>0, <1>2, <4>3, <5>1, <5>3
        <5>4. CASE a = f /\ b = me
          BY <1>0, <1>2, <4>3, <5>1, <5>2, <5>4
        <5>5. CASE {a, b} # {me, f}
          <6>1. memberShip'[<<a, b>>] = memberShip[<<a, b>>]
                /\ memberShip'[<<b, a>>] = memberShip[<<b, a>>]
            <7>1. {b, a} = {a, b}
              OBVIOUS
            <7>2. QED BY <1>1, <5>5, <7>1 DEF OthersStay
          <6>2. QED BY <3>0, <4>3, <6>1
        <5>6. QED BY <2>4, <5>3, <5>4, <5>5
      <4>4. QED BY <4>2, <4>3
    <3>2. CASE DeleteFriend(me, f)
      <4>1. /\ memberShip'[<<a, b>>] <= memberShip[<<a, b>>]
            /\ memberShip'[<<b, a>>] <= memberShip[<<b, a>>]
        BY <3>2, DeleteSteps
      <4>2. CASE faults' # faults
        <5>1. faults' >= faults + 1
          BY <1>0, <4>2
        <5>2. QED BY <1>0, <1>2, <3>0, <4>1, <5>1, SMTT(30)
      <4>3. CASE faults' = faults
        <5>1. memberShip'[<<me, f>>] = 0 /\ memberShip'[<<f, me>>] = 0
          BY <3>2, <4>3, DeleteSteps
        <5>2. CASE {a, b} = {me, f}
          <6>1. (a = me /\ b = f) \/ (a = f /\ b = me)
            BY <2>4, <5>2
          <6>2. memberShip'[<<a, b>>] = 0
            BY <5>1, <6>1
          <6>3. QED BY <3>4, <6>2
        <5>3. CASE {a, b} # {me, f}
          <6>1. memberShip'[<<a, b>>] = memberShip[<<a, b>>]
                /\ memberShip'[<<b, a>>] = memberShip[<<b, a>>]
            <7>1. {b, a} = {a, b}
              OBVIOUS
            <7>2. QED BY <1>1, <5>3, <7>1 DEF OthersStay
          <6>2. QED BY <3>0, <4>3, <6>1
        <5>4. QED BY <5>2, <5>3
      <4>4. QED BY <4>2, <4>3
    <3>3. QED BY <3>1, <3>2
  <2>5. QED BY <2>3, <2>4 DEF FriendsInv
<1>5. QED BY <1>3, <1>4

LEMMA FriendsInvNext == FriendsTypeOK /\ FriendsInv /\ [FriendsNext]_vars => FriendsInv'
<1> SUFFICES ASSUME FriendsTypeOK, FriendsInv, [FriendsNext]_vars PROVE FriendsInv'
  OBVIOUS
<1>1. CASE AccountsNext /\ UNCHANGED memberShip
  <2>1. faults \in Nat /\ faults' \in Nat /\ faults' >= faults
    BY <1>1, AccountsFaults DEF FriendsTypeOK
  <2>2. Unequal' = Unequal
    BY <1>1 DEF Unequal
  <2>3. Cardinality(Unequal) \in Nat
    BY FS_CardinalityType DEF FriendsInv
  <2>4. IsFiniteSet(Unequal') /\ Cardinality(Unequal') <= faults'
    BY <2>1, <2>2, <2>3 DEF FriendsInv
  <2>5. ASSUME NEW a \in Names, NEW b \in Names, a # b
        PROVE  /\ memberShip'[<<a, b>>] <= 1 + faults'
               /\ memberShip'[<<b, a>>] = 0 => memberShip'[<<a, b>>] <= faults'
    <3>1. memberShip' = memberShip /\ memberShip[<<a, b>>] \in Nat
      BY <1>1 DEF FriendsTypeOK
    <3>2. /\ memberShip[<<a, b>>] <= 1 + faults
          /\ memberShip[<<b, a>>] = 0 => memberShip[<<a, b>>] <= faults
      BY <2>5 DEF FriendsInv
    <3>3. QED BY <2>1, <3>1, <3>2
  <2>6. QED BY <2>4, <2>5 DEF FriendsInv
<1>2. CASE \E me, f \in Names : AcceptFriend(me, f) \/ DeleteFriend(me, f)
  BY <1>2, AcceptFriendsInv
<1>3. CASE UNCHANGED vars
  BY <1>3 DEF vars, accountVars, FriendsInv, Unequal
<1>4. QED BY <1>1, <1>2, <1>3 DEF FriendsNext

LEMMA FriendsInvInit == FriendsInit => FriendsInv
<1> SUFFICES ASSUME FriendsInit PROVE FriendsInv
  OBVIOUS
<1>1. \A a, b \in Names : memberShip[<<a, b>>] = 0
  BY DEF FriendsInit
<1>2. faults = 0
  BY DEF FriendsInit, Init
<1>3. Unequal = {}
  BY <1>1 DEF Unequal
<1>4. QED BY <1>1, <1>2, <1>3, FS_EmptySet DEF FriendsInv

\* Two users are friends of each other or not at all, and once, but for one pair of
\* them per failed statement or crash between the two INSERTs or the two DELETEs of
\* MemberShip, for any users and any number of them (DBOperator.cpp).
THEOREM FriendsAreMutual == FriendsSpec => []FriendsMutual
<1>1. FriendsInv => FriendsMutual
  BY DEF FriendsInv, FriendsMutual, Unequal
<1>2. QED
  BY <1>1, FriendsTypeInit, FriendsTypeNext, FriendsInvInit, FriendsInvNext, PTL
  DEF FriendsSpec

-----------------------------------------------------------------------------
(* The two tables with the password.                                        *)

\* The names whose passwords differ.
Disagree == {n \in Names : PassesIn(regist, n) # PassesIn(passTable, n)}

PassInv == IsFiniteSet(Disagree) /\ Cardinality(Disagree) <= faults

LEMMA PassesInserted ==
  ASSUME NEW table, NEW row, NEW m
  PROVE  PassesIn(table \cup {row}, m) =
           IF row.name = m THEN PassesIn(table, m) \cup {row.pass} ELSE PassesIn(table, m)
BY DEF PassesIn, RowsOf

\* An UPDATE gives the rows of the name, if there are any, the new password.
LEMMA PassesUpdated ==
  ASSUME NEW table, table \subseteq Regist \/ table \subseteq PassTable,
         NEW n, NEW p, NEW m
  PROVE  /\ m # n => PassesIn(PassSet(table, n, p), m) = PassesIn(table, m)
         /\ RowsOf(table, n) # {} => PassesIn(PassSet(table, n, p), n) = {p}
<1>1. ASSUME NEW r \in table
      PROVE  [r EXCEPT !.pass = p].name = r.name /\ [r EXCEPT !.pass = p].pass = p
  BY DEF Regist, PassTable
<1>2. ASSUME m # n
      PROVE  RowsOf(PassSet(table, n, p), m) = RowsOf(table, m)
  BY <1>1, <1>2 DEF RowsOf, PassSet
<1>3. ASSUME NEW row \in table, row.name = n
      PROVE  PassesIn(PassSet(table, n, p), n) = {p}
  <2>1. \A s \in RowsOf(PassSet(table, n, p), n) : s.pass = p
    BY <1>1 DEF RowsOf, PassSet
  <2>2. [row EXCEPT !.pass = p] \in RowsOf(PassSet(table, n, p), n)
    BY <1>1, <1>3 DEF RowsOf, PassSet
  <2>3. QED BY <2>1, <2>2 DEF PassesIn
<1>4. QED BY <1>2, <1>3 DEF PassesIn, RowsOf

\* The password stays when a Facebook id is bound.
LEMMA PassesBound ==
  ASSUME regist \subseteq Regist, NEW n, NEW f, NEW m
  PROVE  PassesIn(FbSet(n, f), m) = PassesIn(regist, m)
<1> DEFINE bound(r) == IF r.name = n THEN [r EXCEPT !.fb = f] ELSE r
<1>1. ASSUME NEW r \in regist
      PROVE  bound(r).name = r.name /\ bound(r).pass = r.pass
  BY DEF Regist
<1>2. FbSet(n, f) = {bound(r) : r \in regist}
  BY DEF FbSet
<1> HIDE DEF bound
<1>3. ASSUME NEW p
      PROVE  p \in PassesIn(FbSet(n, f), m) <=> p \in PassesIn(regist, m)
  BY <1>1, <1>2 DEF PassesIn, RowsOf
<1>4. QED BY <1>3

\* Two tables that agree on all names but one.
LEMMA OnlyOneName ==
  ASSUME NEW n \in Names,
         \A m \in Names : m # n =>
           /\ PassesIn(regist', m) = PassesIn(regist, m)
           /\ PassesIn(passTable', m) = PassesIn(passTable, m)
  PROVE  /\ Disagree' \subseteq Disagree \cup {n}
         /\ (PassesIn(regist, n) = PassesIn(passTable, n)
              => PassesIn(regist', n) = PassesIn(passTable', n)) => Disagree' \subseteq Disagree
<1>1. Disagree' = {m \in Names : PassesIn(regist', m) # PassesIn(passTable', m)}
  BY DEF Disagree, PassesIn, RowsOf
<1>2. QED BY <1>1 DEF Disagree

\* At most the name of the one who asks comes to differ, and only when a
\* statement failed.
LEMMA PassStep ==
  ASSUME TypeOK, PassInv, NEW n \in Names, NEW cost \in Nat, faults' = faults + cost,
         Disagree' \subseteq Disagree \cup {n}, cost = 0 => Disagree' \subseteq Disagree
  PROVE  PassInv'
<1>1. faults \in Nat
  BY AccountsAssumption DEF TypeOK
<1>2. IsFiniteSet(Disagree') /\ Cardinality(Disagree') <= faults'
  <2>1. IsFiniteSet(Disagree) /\ Cardinality(Disagree) <= faults
    BY DEF PassInv
  <2>2. QED BY <1>1, <2>1, OneMore
<1>3. QED BY <1>2 DEF PassInv

\* Nothing failed but what cost a fault.
LEMMA FaultsKept ==
  ASSUME TypeOK, PassInv, faults' \in Nat, faults' >= faults, Disagree' = Disagree
  PROVE  PassInv'
<1>1. faults \in Nat /\ Cardinality(Disagree) \in Nat
  BY AccountsAssumption, FS_CardinalityType DEF TypeOK, PassInv
<1>2. QED BY <1>1 DEF PassInv

LEMMA RegistPass ==
  ASSUME TypeOK, PassInv, NEW n \in Names, NEW p \in Passwords, RegistUser(n, p)
  PROVE  PassInv'
<1>1. PICK done \in SUBSET (1..4), blind \in BOOLEAN :
        /\ Fails(Cost(4, done) + (IF blind THEN 1 ELSE 0))
        /\ regist' = IF 3 \in done
                     THEN regist \cup {[mid |-> NewMid, name |-> n, pass |-> p, fb |-> Unbound]}
                     ELSE regist
        /\ passTable' = IF 4 \in done
                        THEN passTable \cup {[mid |-> NewMid, name |-> n, pass |-> p]}
                        ELSE passTable
  BY DEF RegistUser
<1> DEFINE cost == Cost(4, done) + (IF blind THEN 1 ELSE 0)
<1>2. cost \in Nat /\ (cost = 0 => 3 \in done /\ 4 \in done)
  <2>1. Cost(4, done) \in Nat /\ (Cost(4, done) = 0 => done = 1..4)
    BY CostProperties
  <2>2. 3 \in 1..4 /\ 4 \in 1..4
    OBVIOUS
  <2>3. QED BY <2>1, <2>2, BlindCost
<1>3. Fails(cost)
  BY <1>1
<1> HIDE DEF cost
<1>4. faults' = faults + cost
  BY <1>3 DEF Fails
<1>5. \A m \in Names : PassesIn(regist', m) =
        IF 3 \in done /\ m = n THEN PassesIn(regist, m) \cup {p} ELSE PassesIn(regist, m)
  <2> DEFINE row == [mid |-> NewMid, name |-> n, pass |-> p, fb |-> Unbound]
  <2>1. row.name = n /\ row.pass = p
    OBVIOUS
  <2>2. regist' = IF 3 \in done THEN regist \cup {row} ELSE regist
    BY <1>1
  <2> HIDE DEF row
  <2>3. \A m : PassesIn(regist \cup {row}, m) =
           IF row.name = m THEN PassesIn(regist, m) \cup {row.pass} ELSE PassesIn(regist, m)
    BY PassesInserted
  <2>4. QED BY <2>1, <2>2, <2>3
<1>6. \A m \in Names : PassesIn(passTable', m) =
        IF 4 \in done /\ m = n THEN PassesIn(passTable, m) \cup {p} ELSE PassesIn(passTable, m)
  <2> DEFINE row == [mid |-> NewMid, name |-> n, pass |-> p]
  <2>1. row.name = n /\ row.pass = p
    OBVIOUS
  <2>2. passTable' = IF 4 \in done THEN passTable \cup {row} ELSE passTable
    BY <1>1
  <2> HIDE DEF row
  <2>3. \A m : PassesIn(passTable \cup {row}, m) =
           IF row.name = m THEN PassesIn(passTable, m) \cup {row.pass} ELSE PassesIn(passTable, m)
    BY PassesInserted
  <2>4. QED BY <2>1, <2>2, <2>3
<1>7. /\ Disagree' \subseteq Disagree \cup {n}
      /\ cost = 0 => Disagree' \subseteq Disagree
  <2>1. /\ Disagree' \subseteq Disagree \cup {n}
        /\ (PassesIn(regist, n) = PassesIn(passTable, n)
              => PassesIn(regist', n) = PassesIn(passTable', n)) => Disagree' \subseteq Disagree
    BY <1>5, <1>6, OnlyOneName
  <2>2. cost = 0 => /\ PassesIn(regist', n) = PassesIn(regist, n) \cup {p}
                    /\ PassesIn(passTable', n) = PassesIn(passTable, n) \cup {p}
    BY <1>2, <1>5, <1>6
  <2>3. QED BY <2>1, <2>2
<1>8. QED BY <1>2, <1>4, <1>7, PassStep

\* When the first UPDATE changes a row and the second finds none, the tables
\* differed before.
LEMMA ChangePass ==
  ASSUME TypeOK, PassInv, NEW n \in Names, NEW old \in Passwords, NEW new \in Passwords,
         ChangePassWord(n, old, new)
  PROVE  PassInv'
<1>0. regist \subseteq Regist /\ passTable \subseteq PassTable
  BY DEF TypeOK, Regist, PassTable
<1>1. PICK done \in SUBSET (1..2) :
        /\ Fails(Cost(2, done))
        /\ regist' = IF 1 \in done THEN PassSet(regist, n, new) ELSE regist
        /\ passTable' = IF 2 \in done /\ (1 \in done => regist' # regist)
                        THEN PassSet(passTable, n, new) ELSE passTable
  BY DEF ChangePassWord
<1>2. Cost(2, done) \in Nat /\ (Cost(2, done) = 0 => 1 \in done /\ 2 \in done)
  <2>1. 1 \in 1..2 /\ 2 \in 1..2
    OBVIOUS
  <2>2. QED BY <2>1, CostProperties
<1>3. faults' = faults + Cost(2, done)
  BY <1>1 DEF Fails
<1>4. \A m \in Names : m # n => /\ PassesIn(regist', m) = PassesIn(regist, m)
                                /\ PassesIn(passTable', m) = PassesIn(passTable, m)
  <2>1. ASSUME NEW m, m # n
        PROVE  PassesIn(PassSet(regist, n, new), m) = PassesIn(regist, m)
    BY <1>0, <2>1, PassesUpdated
  <2>2. ASSUME NEW m, m # n
        PROVE  PassesIn(PassSet(passTable, n, new), m) = PassesIn(passTable, m)
    BY <1>0, <2>2, PassesUpdated
  <2>3. QED BY <1>1, <2>1, <2>2
<1>5. RowsOf(regist, n) # {}
  <2>1. Cardinality({r \in regist : r.name = n /\ r.pass = old}) = 1
    BY DEF ChangePassWord, CheckUser
  <2>2. {r \in regist : r.name = n /\ r.pass = old} # {}
    BY <2>1, FS_EmptySet
  <2>3. QED BY <2>2 DEF RowsOf
<1>6. ASSUME Cost(2, done) = 0, PassesIn(regist, n) = PassesIn(passTable, n)
      PROVE  PassesIn(regist', n) = PassesIn(passTable', n)
  <2>1. CASE regist' = regist
    BY <1>1, <1>2, <1>6, <2>1
  <2>2. CASE regist' # regist
    <3>1. regist' = PassSet(regist, n, new) /\ passTable' = PassSet(passTable, n, new)
      BY <1>1, <1>2, <1>6, <2>2
    <3>2. RowsOf(passTable, n) # {}
      BY <1>5, <1>6 DEF PassesIn
    <3>3. /\ PassesIn(PassSet(regist, n, new), n) = {new}
          /\ PassesIn(PassSet(passTable, n, new), n) = {new}
      BY <1>0, <1>5, <3>2, PassesUpdated
    <3>4. QED BY <3>1, <3>3
  <2>3. QED BY <2>1, <2>2
<1>7. /\ Disagree' \subseteq Disagree \cup {n}
      /\ Cost(2, done) = 0 => Disagree' \subseteq Disagree
  BY <1>4, <1>6, OnlyOneName
<1>8. QED BY <1>2, <1>3, <1>7, PassStep

LEMMA PassInvNext == FriendsTypeOK /\ PassInv /\ [FriendsNext]_vars => PassInv'
<1> SUFFICES ASSUME FriendsTypeOK, PassInv, [FriendsNext]_vars PROVE PassInv'
  OBVIOUS
<1>0. TypeOK
  BY DEF FriendsTypeOK
<1>1. ASSUME UNCHANGED <<regist, passTable>>
      PROVE  Disagree' = Disagree
  BY <1>1 DEF Disagree
<1>2. ASSUME NEW n \in Names, NEW mac \in Macs, IphoneLogin(mac, n), AccountsNext
      PROVE  PassInv'
  <2>1. faults' \in Nat /\ faults' >= faults
    BY <1>0, <1>2, AccountsFaults
  <2>2. UNCHANGED <<regist, passTable>>
    BY <1>2 DEF IphoneLogin
  <2>3. QED BY <1>0, <1>1, <2>1, <2>2, FaultsKept
<1>3. ASSUME NEW n \in Names, NEW p \in Passwords, NEW f \in FbIds,
             BindFb(f, n, p) \/ UnbindFb(f, n, p), AccountsNext
      PROVE  PassInv'
  <2>1. faults' \in Nat /\ faults' >= faults
    BY <1>0, <1>3, AccountsFaults
  <2>2. (regist' = FbSet(n, f) \/ regist' = FbSet(n, Unbound)) /\ passTable' = passTable
    BY <1>3 DEF BindFb, UnbindFb
  <2>3. regist \subseteq Regist
    BY <1>0 DEF TypeOK, Regist
  <2>4. \A m : PassesIn(regist', m) = PassesIn(regist, m)
               /\ PassesIn(passTable', m) = PassesIn(passTable, m)
    BY <2>2, <2>3, PassesBound
  <2>5. Disagree' = {m \in Names : PassesIn(regist', m) # PassesIn(passTable', m)}
    BY DEF Disagree, PassesIn, RowsOf
  <2>6. Disagree' = Disagree
    BY <2>4, <2>5 DEF Disagree
  <2>7. QED BY <1>0, <2>1, <2>6, FaultsKept
<1>4. CASE AccountsNext
  BY <1>0, <1>2, <1>3, <1>4, RegistPass, ChangePass DEF AccountsNext
<1>5. ASSUME NEW me \in Names, NEW f \in Names, AcceptFriend(me, f) \/ DeleteFriend(me, f)
      PROVE  PassInv'
  <2>1. faults' \in 0..MaxFaults /\ faults' >= faults
    BY <1>5, AcceptSteps, DeleteSteps
  <2>2. UNCHANGED <<regist, passTable>>
    BY <1>5 DEF AcceptFriend, DeleteFriend
  <2>3. faults' \in Nat
    BY <2>1, AccountsAssumption
  <2>4. QED BY <1>0, <1>1, <2>1, <2>2, <2>3, FaultsKept
<1>6. CASE UNCHANGED vars
  BY <1>6 DEF vars, accountVars, PassInv, Disagree
<1>7. QED BY <1>4, <1>5, <1>6 DEF FriendsNext

LEMMA PassInvInit == FriendsInit => PassInv
<1> SUFFICES ASSUME FriendsInit PROVE PassInv
  OBVIOUS
<1>1. Disagree = {}
  BY DEF FriendsInit, Init, Disagree, PassesIn, RowsOf
<1>2. faults = 0
  BY DEF FriendsInit, Init
<1>3. QED BY <1>1, <1>2, FS_EmptySet DEF PassInv

\* The password of a name is the same in UserRegistTable and UserPassTable, but for
\* one name per failed statement or crash between the two; a change of the password
\* that succeeds never makes it worse (Handle_User_ChangePassWord and
\* Handle_Regist_User, Server/GameServer.cpp).
THEOREM PasswordsStayTogether == FriendsSpec => []PasswordsAgree
<1>1. PassInv => PasswordsAgree
  BY DEF PassInv, PasswordsAgree, Disagree
<1>2. QED
  BY <1>1, FriendsTypeInit, FriendsTypeNext, PassInvInit, PassInvNext, PTL DEF FriendsSpec

-----------------------------------------------------------------------------
(* Logins.                                                                  *)

\* The accounts of registrations and of phones are there, and never the same.
Homes ==
  /\ \A r \in regist : r.mid \in 1..Len(nickName)
  /\ \A h \in iphones : h.mid \in 1..Len(nickName)
  /\ \A r \in regist, h \in iphones : r.mid # h.mid

\* One row at most has the name, its account has the nickname, and who else
\* has it is a phone.
Straight(n) ==
  /\ \A r, s \in RowsOf(regist, n) : r = s
  /\ \A r \in RowsOf(regist, n) : nickName[r.mid] = n
  /\ \A i \in 1..Len(nickName) : nickName[i] = n =>
       \/ \E r \in RowsOf(regist, n) : r.mid = i
       \/ \E h \in iphones : h.mid = i

Crooked == {n \in Names : ~Straight(n)}

LoginInv == Homes /\ IsFiniteSet(Crooked) /\ Cardinality(Crooked) <= faults

\* The way back from the nickname is the right one, or there is none.
LEMMA StraightLogins ==
  ASSUME TypeOK, Homes, NEW n \in Names, Straight(n)
  PROVE  ~LoginGoesAstray(n)
<1>1. ASSUME NEW r \in RowsOf(regist, n)
      PROVE  LoginMid(n, r.pass) = IF PhonesNamed(n) = {} THEN {r.mid} ELSE {}
  <2>0. /\ r \in regist /\ r.name = n /\ r.mid \in 1..Len(nickName)
        /\ nickName[r.mid] = n
    BY <1>1 DEF RowsOf, Homes, Straight
  <2>1. CheckUser(n, r.pass)
    <3>1. \A s \in regist : s.name = n => s = r
      BY <1>1 DEF RowsOf, Straight
    <3>2. {s \in regist : s.name = n /\ s.pass = r.pass} = {r}
      BY <2>0, <3>1
    <3>3. Cardinality({r}) = 1
      BY FS_Singleton
    <3>4. QED BY <3>2, <3>3 DEF CheckUser
  <2>2. LoginMid(n, r.pass) = GetUSerGid(n)
    BY <2>1 DEF LoginMid
  <2>3. CASE PhonesNamed(n) = {}
    <3>1. ASSUME NEW i \in 1..Len(nickName), nickName[i] = n
          PROVE  i = r.mid
      <4>1. ~ \E h \in iphones : h.mid = i
        BY <2>3, <3>1 DEF PhonesNamed
      <4>2. PICK s \in RowsOf(regist, n) : s.mid = i
        BY <3>1, <4>1 DEF Straight
      <4>3. QED BY <1>1, <4>2 DEF Straight
    <3>2. GetUSerGid(n) = {r.mid}
      BY <2>0, <3>1 DEF GetUSerGid
    <3>3. QED BY <2>2, <2>3, <3>2
  <2>4. CASE PhonesNamed(n) # {}
    <3>1. PICK h \in iphones : nickName[h.mid] = n
      BY <2>4 DEF PhonesNamed
    <3>2. h.mid \in 1..Len(nickName) /\ h.mid # r.mid
      BY <2>0, <3>1 DEF Homes
    <3>3. GetUSerGid(n) = {}
      BY <2>0, <3>1, <3>2 DEF GetUSerGid
    <3>4. QED BY <2>2, <2>4, <3>3
  <2>5. QED BY <2>3, <2>4
<1>2. QED BY <1>1 DEF LoginGoesAstray

\* A handler leaves one name crooked at most, and only when a statement failed.
LEMMA LoginStep ==
  ASSUME TypeOK, LoginInv, NEW n \in Names, NEW cost \in Nat, faults' = faults + cost,
         Homes', \A m \in Names : m # n => (Straight(m) => Straight(m)'),
         cost = 0 => (Straight(n) => Straight(n)')
  PROVE  LoginInv'
<1>1. faults \in Nat
  BY AccountsAssumption DEF TypeOK
<1>2. Crooked' = {m \in Names : ~Straight(m)'}
  BY DEF Crooked
<1>3. Crooked' \subseteq Crooked \cup {n} /\ (cost = 0 => Crooked' \subseteq Crooked)
  BY <1>2 DEF Crooked
<1>4. IsFiniteSet(Crooked) /\ Cardinality(Crooked) <= faults
  BY DEF LoginInv
<1>5. IsFiniteSet(Crooked') /\ Cardinality(Crooked') <= faults'
  BY <1>1, <1>3, <1>4, OneMore
<1>6. QED BY <1>5 DEF LoginInv

LEMMA LoginsKept ==
  ASSUME TypeOK, LoginInv, faults' \in Nat, faults' >= faults,
         Homes', \A m \in Names : Straight(m) => Straight(m)'
  PROVE  LoginInv'
<1>1. faults \in Nat
  BY AccountsAssumption DEF TypeOK
<1>2. Crooked' = {m \in Names : ~Straight(m)'}
  BY DEF Crooked
<1>3. IsFiniteSet(Crooked) /\ Cardinality(Crooked) <= faults
  BY DEF LoginInv
<1>4. /\ IsFiniteSet(Crooked') /\ Cardinality(Crooked') \in Nat
      /\ Cardinality(Crooked) \in Nat /\ Cardinality(Crooked') <= Cardinality(Crooked)
  <2>1. Crooked' \subseteq Crooked
    BY <1>2 DEF Crooked
  <2>2. QED BY <1>3, <2>1, FS_Subset, FS_CardinalityType
<1>5. Cardinality(Crooked') <= faults'
  BY <1>1, <1>3, <1>4
<1>6. QED BY <1>4, <1>5 DEF LoginInv

\* A new account leaves the others as they are.
LEMMA NewAccount ==
  ASSUME TypeOK, NEW x \in Names \cup {NoName}, nickName' = Append(nickName, x)
  PROVE  /\ Len(nickName) \in Nat /\ NewMid = Len(nickName) + 1
         /\ Len(nickName') = NewMid /\ nickName'[NewMid] = x
         /\ \A i \in 1..Len(nickName) : nickName'[i] = nickName[i]
         /\ 1..NewMid = 1..Len(nickName) \cup {NewMid}
         /\ NewMid \notin 1..Len(nickName)
<1>1. nickName \in Seq(Names \cup {NoName}) /\ Len(nickName) \in Nat
  BY DEF TypeOK
<1>2. NewMid = Len(nickName) + 1
  BY DEF NewMid
<1>3. /\ Len(nickName') = Len(nickName) + 1 /\ nickName'[Len(nickName) + 1] = x
      /\ \A i \in 1..Len(nickName) : nickName'[i] = nickName[i]
  BY <1>1
<1>4. QED BY <1>1, <1>2, <1>3

LEMMA PhoneLogins ==
  ASSUME TypeOK, LoginInv, NEW n \in Names, NEW mac \in Macs, IphoneLogin(mac, n)
  PROVE  LoginInv'
<1> DEFINE row == [mid |-> NewMid, mac |-> mac]
<1>1. PICK done \in SUBSET (1..3), blind \in BOOLEAN :
        /\ Fails(Cost(3, done) + (IF blind THEN 1 ELSE 0))
        /\ nickName' = Append(nickName, Named(done, 3, n))
        /\ iphones' = IF 2 \in done THEN iphones \cup {row} ELSE iphones
  BY DEF IphoneLogin
<1> DEFINE cost == Cost(3, done) + (IF blind THEN 1 ELSE 0)
           x == Named(done, 3, n)
<1>2. cost \in Nat /\ (cost = 0 => 2 \in done /\ 3 \in done)
  <2>1. Cost(3, done) \in Nat /\ (Cost(3, done) = 0 => done = 1..3)
    BY CostProperties
  <2>2. 2 \in 1..3 /\ 3 \in 1..3
    OBVIOUS
  <2>3. QED BY <2>1, <2>2, BlindCost
<1>3. Fails(cost)
  BY <1>1
<1>4. x \in {n, NoName} /\ NoName \notin Names
  BY AccountsAssumption DEF Named
<1> HIDE DEF cost, x
<1>5. faults' = faults + cost
  BY <1>3 DEF Fails
<1>6. regist' = regist
  BY DEF IphoneLogin
<1>7. nickName' = Append(nickName, x)
  BY <1>1 DEF x
<1>8. /\ Len(nickName) \in Nat /\ NewMid = Len(nickName) + 1
      /\ Len(nickName') = NewMid /\ nickName'[NewMid] = x
      /\ \A i \in 1..Len(nickName) : nickName'[i] = nickName[i]
      /\ 1..NewMid = 1..Len(nickName) \cup {NewMid}
      /\ NewMid \notin 1..Len(nickName)
  BY <1>4, <1>7, NewAccount
<1>9. row.mid = NewMid
  OBVIOUS
<1> HIDE DEF row
<1>10. Homes
  BY DEF LoginInv
<1>11. Homes'
  BY <1>1, <1>6, <1>8, <1>9, <1>10 DEF Homes
<1>12. ASSUME NEW m \in Names, Straight(m), m # x \/ 2 \in done
       PROVE  Straight(m)'
  <2>1. RowsOf(regist, m)' = RowsOf(regist, m)
    BY <1>6 DEF RowsOf
  <2>2. \A r \in RowsOf(regist, m) : r.mid \in 1..Len(nickName)
    BY <1>10 DEF Homes, RowsOf
  <2>3. \A r \in RowsOf(regist, m) : nickName'[r.mid] = m
    BY <1>8, <1>12, <2>2 DEF Straight
  <2>4. iphones \subseteq iphones'
    BY <1>1
  <2>5. ASSUME NEW i \in 1..Len(nickName'), nickName'[i] = m
        PROVE  \/ \E r \in RowsOf(regist, m) : r.mid = i
               \/ \E h \in iphones' : h.mid = i
    <3>1. CASE i \in 1..Len(nickName)
      BY <1>8, <1>12, <2>4, <2>5, <3>1 DEF Straight
    <3>2. CASE i = NewMid
      <4>1. 2 \in done
        BY <1>8, <1>12, <2>5, <3>2
      <4>2. QED BY <1>1, <1>9, <3>2, <4>1
    <3>3. QED BY <1>8, <2>5, <3>1, <3>2
  <2>6. QED BY <1>12, <2>1, <2>3, <2>5 DEF Straight
<1>13. \A m \in Names : m # n => (Straight(m) => Straight(m)')
  BY <1>4, <1>12
<1>14. cost = 0 => (Straight(n) => Straight(n)')
  BY <1>2, <1>12
<1>15. QED BY <1>2, <1>5, <1>11, <1>13, <1>14, LoginStep

\* A name that was registered without a failure is straight from then on.
LEMMA RegistLogins ==
  ASSUME TypeOK, LoginInv, NEW n \in Names, NEW p \in Passwords, RegistUser(n, p)
  PROVE  LoginInv'
<1> DEFINE row == [mid |-> NewMid, name |-> n, pass |-> p, fb |-> Unbound]
<1>1. PICK done \in SUBSET (1..4), blind \in BOOLEAN :
        /\ Blind(RowsOf(regist, n), blind)
        /\ Fails(Cost(4, done) + (IF blind THEN 1 ELSE 0))
        /\ nickName' = Append(nickName, Named(done, 2, n))
        /\ regist' = IF 3 \in done THEN regist \cup {row} ELSE regist
  BY DEF RegistUser
<1> DEFINE cost == Cost(4, done) + (IF blind THEN 1 ELSE 0)
           x == Named(done, 2, n)
<1>2. cost \in Nat /\ (cost = 0 => 2 \in done /\ 3 \in done /\ ~blind)
  <2>1. Cost(4, done) \in Nat /\ (Cost(4, done) = 0 => done = 1..4)
    BY CostProperties
  <2>2. 2 \in 1..4 /\ 3 \in 1..4
    OBVIOUS
  <2>3. QED BY <2>1, <2>2, BlindCost
<1>3. Fails(cost)
  BY <1>1
<1>4. x \in {n, NoName} /\ NoName \notin Names /\ (2 \in done => x = n)
  BY AccountsAssumption DEF Named
<1> HIDE DEF cost, x
<1>5. faults' = faults + cost
  BY <1>3 DEF Fails
<1>6. iphones' = iphones
  BY DEF RegistUser
<1>7. nickName' = Append(nickName, x)
  BY <1>1 DEF x
<1>8. /\ Len(nickName) \in Nat /\ NewMid = Len(nickName) + 1
      /\ Len(nickName') = NewMid /\ nickName'[NewMid] = x
      /\ \A i \in 1..Len(nickName) : nickName'[i] = nickName[i]
      /\ 1..NewMid = 1..Len(nickName) \cup {NewMid}
      /\ NewMid \notin 1..Len(nickName)
  BY <1>4, <1>7, NewAccount
<1>9. row.mid = NewMid /\ row.name = n
  OBVIOUS
<1> HIDE DEF row
<1>10. Homes
  BY DEF LoginInv
<1>11. Homes'
  BY <1>1, <1>6, <1>8, <1>9, <1>10 DEF Homes
<1>12. ASSUME NEW m \in Names, Straight(m), m # n
       PROVE  Straight(m)'
  <2>1. RowsOf(regist, m)' = RowsOf(regist, m)
    BY <1>1, <1>9, <1>12 DEF RowsOf
  <2>2. \A r \in RowsOf(regist, m) : r.mid \in 1..Len(nickName)
    BY <1>10 DEF Homes, RowsOf
  <2>3. \A r \in RowsOf(regist, m) : nickName'[r.mid] = m
    BY <1>8, <1>12, <2>2 DEF Straight
  <2>4. ASSUME NEW i \in 1..Len(nickName'), nickName'[i] = m
        PROVE  \/ \E r \in RowsOf(regist, m) : r.mid = i
               \/ \E h \in iphones : h.mid = i
    <3>1. i \in 1..Len(nickName)
      BY <1>4, <1>8, <1>12, <2>4
    <3>2. QED BY <1>8, <1>12, <2>4, <3>1 DEF Straight
  <2>5. QED BY <1>6, <1>12, <2>1, <2>3, <2>4 DEF Straight
<1>13. ASSUME cost = 0, Straight(n)
       PROVE  Straight(n)'
  <2>1. RowsOf(regist, n) = {}
    BY <1>1, <1>2, <1>13 DEF Blind
  <2>2. RowsOf(regist, n)' = {row}
    BY <1>1, <1>2, <1>9, <1>13, <2>1 DEF RowsOf
  <2>3. nickName'[row.mid] = n
    BY <1>2, <1>4, <1>8, <1>9, <1>13
  <2>4. ASSUME NEW i \in 1..Len(nickName'), nickName'[i] = n
        PROVE  row.mid = i \/ \E h \in iphones : h.mid = i
    BY <1>8, <1>9, <1>13, <2>1, <2>4 DEF Straight
  <2>5. QED BY <1>6, <2>2, <2>3, <2>4 DEF Straight
<1>14. QED BY <1>2, <1>5, <1>11, <1>12, <1>13, LoginStep

\* UPDATE ... SET PassWord and SET FacebookID leave names and mids alone.
LEMMA UpdateLogins ==
  ASSUME TypeOK, Homes, NEW n, NEW p, NEW f,
         regist' = PassSet(regist, n, p) \/ regist' = FbSet(n, f) \/ regist' = regist,
         UNCHANGED <<nickName, iphones>>
  PROVE  Homes' /\ \A m \in Names : Straight(m) => Straight(m)'
<1>0. regist \subseteq Regist
  BY DEF TypeOK, Regist
<1>1. PICK g \in [regist -> regist'] :
        /\ \A s \in regist' : \E r \in regist : s = g[r]
        /\ \A r \in regist : g[r].mid = r.mid /\ g[r].name = r.name
  <2>1. CASE regist' = PassSet(regist, n, p)
    <3> DEFINE g == [r \in regist |-> IF r.name = n THEN [r EXCEPT !.pass = p] ELSE r]
    <3>1. /\ g \in [regist -> regist']
          /\ \A s \in regist' : \E r \in regist : s = g[r]
      BY <2>1 DEF PassSet
    <3>2. \A r \in regist : g[r].mid = r.mid /\ g[r].name = r.name
      BY <1>0 DEF Regist
    <3>3. QED BY <3>1, <3>2
  <2>2. CASE regist' = FbSet(n, f)
    <3> DEFINE g == [r \in regist |-> IF r.name = n THEN [r EXCEPT !.fb = f] ELSE r]
    <3>1. /\ g \in [regist -> regist']
          /\ \A s \in regist' : \E r \in regist : s = g[r]
      BY <2>2 DEF FbSet
    <3>2. \A r \in regist : g[r].mid = r.mid /\ g[r].name = r.name
      BY <1>0 DEF Regist
    <3>3. QED BY <3>1, <3>2
  <2>3. CASE regist' = regist
    <3> DEFINE g == [r \in regist |-> r]
    <3>1. /\ g \in [regist -> regist']
          /\ \A s \in regist' : \E r \in regist : s = g[r]
          /\ \A r \in regist : g[r].mid = r.mid /\ g[r].name = r.name
      BY <2>3
    <3>2. QED BY <3>1
  <2>4. QED BY <2>1, <2>2, <2>3
<1>2. \A s \in regist' : \E r \in regist : s = g[r] /\ s.mid = r.mid /\ s.name = r.name
  BY <1>1
<1>3. \A r \in regist : g[r] \in regist' /\ g[r].mid = r.mid /\ g[r].name = r.name
  BY <1>1
<1>4. Homes'
  BY <1>2 DEF Homes
<1>5. ASSUME NEW m \in Names, Straight(m)
      PROVE  Straight(m)'
  <2>1. \A s \in RowsOf(regist', m) : \E r \in RowsOf(regist, m) : s = g[r] /\ s.mid = r.mid
    BY <1>2 DEF RowsOf
  <2>2. \A r \in RowsOf(regist, m) : \E s \in RowsOf(regist', m) : s.mid = r.mid
    BY <1>3 DEF RowsOf
  <2>3. \A r, s \in RowsOf(regist', m) : r = s
    BY <1>5, <2>1 DEF Straight
  <2>4. \A r \in RowsOf(regist', m) : nickName'[r.mid] = m
    BY <1>5, <2>1 DEF Straight
  <2>5. ASSUME NEW i \in 1..Len(nickName), nickName[i] = m
        PROVE  \/ \E r \in RowsOf(regist', m) : r.mid = i
               \/ \E h \in iphones : h.mid = i
    BY <1>5, <2>2, <2>5 DEF Straight
  <2>6. RowsOf(regist, m)' = RowsOf(regist', m)
    BY DEF RowsOf
  <2>7. QED BY <2>3, <2>4, <2>5, <2>6 DEF Straight
<1>6. QED BY <1>4, <1>5

LEMMA LoginInvNext == FriendsTypeOK /\ LoginInv /\ [FriendsNext]_vars => LoginInv'
<1> SUFFICES ASSUME FriendsTypeOK, LoginInv, [FriendsNext]_vars PROVE LoginInv'
  OBVIOUS
<1>0. TypeOK /\ Homes
  BY DEF FriendsTypeOK, LoginInv
<1>1. ASSUME NEW n \in Names, NEW p, NEW f,
             regist' = PassSet(regist, n, p) \/ regist' = FbSet(n, f) \/ regist' = regist,
             UNCHANGED <<nickName, iphones>>, faults' \in Nat, faults' >= faults
      PROVE  LoginInv'
  <2>1. Homes' /\ \A m \in Names : Straight(m) => Straight(m)'
    BY <1>0, <1>1, UpdateLogins
  <2>2. QED BY <1>0, <1>1, <2>1, LoginsKept
<1>2. ASSUME NEW n \in Names, NEW p \in Passwords, NEW q \in Passwords,
             ChangePassWord(n, p, q), AccountsNext
      PROVE  LoginInv'
  <2>1. faults' \in Nat /\ faults' >= faults
    BY <1>0, <1>2, AccountsFaults
  <2>2. /\ regist' = PassSet(regist, n, q) \/ regist' = regist
        /\ UNCHANGED <<nickName, iphones>>
    BY <1>2 DEF ChangePassWord
  <2>3. QED BY <1>1, <2>1, <2>2
<1>3. ASSUME NEW n \in Names, NEW p \in Passwords, NEW f \in FbIds,
             BindFb(f, n, p) \/ UnbindFb(f, n, p), AccountsNext
      PROVE  LoginInv'
  <2>1. faults' \in Nat /\ faults' >= faults
    BY <1>0, <1>3, AccountsFaults
  <2>2. /\ regist' = FbSet(n, f) \/ regist' = FbSet(n, Unbound)
        /\ UNCHANGED <<nickName, iphones>>
    BY <1>3 DEF BindFb, UnbindFb
  <2>3. QED BY <1>1, <2>1, <2>2
<1>4. CASE AccountsNext
  BY <1>0, <1>2, <1>3, <1>4, PhoneLogins, RegistLogins DEF AccountsNext
<1>5. ASSUME NEW me \in Names, NEW f \in Names, AcceptFriend(me, f) \/ DeleteFriend(me, f)
      PROVE  LoginInv'
  <2>1. faults' \in 0..MaxFaults /\ faults' >= faults
    BY <1>5, AcceptSteps, DeleteSteps
  <2>2. UNCHANGED <<regist, nickName, iphones>>
    BY <1>5 DEF AcceptFriend, DeleteFriend
  <2>3. faults' \in Nat
    BY <2>1, AccountsAssumption
  <2>4. QED BY <1>1, <2>1, <2>2, <2>3
<1>6. CASE UNCHANGED vars
  BY <1>6 DEF vars, accountVars, LoginInv, Homes, Crooked, Straight, RowsOf
<1>7. QED BY <1>4, <1>5, <1>6 DEF FriendsNext

LEMMA LoginInvInit == FriendsInit => LoginInv
<1> SUFFICES ASSUME FriendsInit PROVE LoginInv
  OBVIOUS
<1>1. nickName = <<>> /\ regist = {} /\ iphones = {} /\ faults = 0
  BY DEF FriendsInit, Init
<1>2. Crooked = {}
  BY <1>1 DEF Crooked, Straight, RowsOf
<1>3. QED BY <1>1, <1>2, FS_EmptySet DEF LoginInv, Homes

\* The right password leads to the account that was registered with it, or, when
\* a phone has the name for a nickname, nowhere; what is otherwise has cost a
\* failed statement or a crash, one for each name (Handle_User_Login,
\* Server/GameServer.cpp).
THEOREM LoginsLeadHome == FriendsSpec => []StrayLoginsCostAFailure
<1>1. TypeOK /\ LoginInv => StrayLoginsCostAFailure
  <2> SUFFICES ASSUME TypeOK, LoginInv PROVE StrayLoginsCostAFailure
    OBVIOUS
  <2> DEFINE stray == {n \in Names : LoginGoesAstray(n)}
  <2>1. stray \subseteq Crooked
    BY StraightLogins DEF LoginInv, Crooked
  <2>2. faults \in Nat
    BY AccountsAssumption DEF TypeOK
  <2> HIDE DEF stray
  <2>3. /\ Cardinality(stray) \in Nat /\ Cardinality(Crooked) \in Nat
        /\ Cardinality(stray) <= Cardinality(Crooked)
    BY <2>1, FS_Subset, FS_CardinalityType DEF LoginInv
  <2>4. QED BY <2>2, <2>3 DEF LoginInv, StrayLoginsCostAFailure, stray
<1>2. FriendsTypeOK => TypeOK
  BY DEF FriendsTypeOK
<1>3. QED
  BY <1>1, <1>2, FriendsTypeInit, FriendsTypeNext, LoginInvInit, LoginInvNext, PTL
     DEF FriendsSpec

-----------------------------------------------------------------------------
(* What a key of the tables would forbid.                                   *)

NamesOf(rows) == {r.name : r \in rows}

TwicePhones == {mac \in Macs : Cardinality(MacRows(mac)) > 1}
TwiceNames  == {n \in Names : Cardinality(RowsOf(regist, n)) > 1}
TwiceBound  == {f \in FbIds : Cardinality(NamesOf(FbRows(f))) > 1}

AmbInv ==
  /\ IsFiniteSet(regist) /\ IsFiniteSet(iphones)
  /\ IsFiniteSet(TwicePhones) /\ IsFiniteSet(TwiceNames) /\ IsFiniteSet(TwiceBound)
  /\ Cardinality(TwicePhones) + Cardinality(TwiceNames) + Cardinality(TwiceBound) <= faults

\* The image of a finite set.
LEMMA ImageOf ==
  ASSUME NEW S, IsFiniteSet(S), NEW f, f = [x \in S |-> f[x]], NEW T, T = {f[x] : x \in S}
  PROVE  /\ IsFiniteSet(T) /\ Cardinality(T) \in Nat /\ Cardinality(S) \in Nat
         /\ Cardinality(T) <= Cardinality(S)
<1>1. f \in Surjection(S, T)
  BY DEF Surjection
<1>2. QED BY <1>1, FS_Surjection, FS_CardinalityType

LEMMA PartOf ==
  ASSUME NEW S, IsFiniteSet(S), NEW T, T \subseteq S
  PROVE  /\ IsFiniteSet(T) /\ Cardinality(T) \in Nat /\ Cardinality(S) \in Nat
         /\ Cardinality(T) <= Cardinality(S)
<1>1. T \in SUBSET S
  OBVIOUS
<1>2. QED BY <1>1, FS_Subset, FS_CardinalityType

LEMMA NamesFinite ==
  ASSUME NEW S, IsFiniteSet(S)
  PROVE  IsFiniteSet(NamesOf(S))
<1> DEFINE f == [r \in S |-> r.name]
<1>1. f = [x \in S |-> f[x]] /\ NamesOf(S) = {f[x] : x \in S}
  BY DEF NamesOf
<1> HIDE DEF f
<1>2. QED BY <1>1, ImageOf

\* An UPDATE leaves the table finite and makes no name more frequent.
LEMMA RowsUpdated ==
  ASSUME NEW S, IsFiniteSet(S), NEW T, NEW f \in Surjection(S, T),
         \A r \in S : f[r].name = r.name, NEW m
  PROVE  /\ IsFiniteSet(T)
         /\ Cardinality(RowsOf(T, m)) > 1 => Cardinality(RowsOf(S, m)) > 1
<1> DEFINE part == RowsOf(S, m)
           g == [r \in part |-> f[r]]
<1>1. f \in [S -> T] /\ \A t \in T : \E r \in S : f[r] = t
  BY DEF Surjection
<1>2. g \in Surjection(part, RowsOf(T, m))
  BY <1>1 DEF RowsOf, Surjection
<1>3. IsFiniteSet(part)
  BY PartOf DEF RowsOf
<1> HIDE DEF g, part
<1>4. /\ IsFiniteSet(RowsOf(T, m))
      /\ Cardinality(RowsOf(T, m)) <= Cardinality(part)
  BY <1>2, <1>3, FS_Surjection
<1>5. Cardinality(RowsOf(T, m)) \in Nat /\ Cardinality(part) \in Nat
  BY <1>3, <1>4, FS_CardinalityType
<1>6. IsFiniteSet(T)
  BY FS_Surjection
<1>7. QED BY <1>4, <1>5, <1>6 DEF part

\* The two UPDATEs of UserRegistTable.
LEMMA RegistUpdated ==
  ASSUME regist \subseteq Regist, IsFiniteSet(regist), NEW n, NEW p, NEW f
  PROVE  /\ IsFiniteSet(PassSet(regist, n, p)) /\ IsFiniteSet(FbSet(n, f))
         /\ \A m : Cardinality(RowsOf(PassSet(regist, n, p), m)) > 1
                     => Cardinality(RowsOf(regist, m)) > 1
         /\ \A m : Cardinality(RowsOf(FbSet(n, f), m)) > 1
                     => Cardinality(RowsOf(regist, m)) > 1
<1>1. /\ IsFiniteSet(PassSet(regist, n, p))
      /\ \A m : Cardinality(RowsOf(PassSet(regist, n, p), m)) > 1
                  => Cardinality(RowsOf(regist, m)) > 1
  <2> DEFINE g == [r \in regist |-> IF r.name = n THEN [r EXCEPT !.pass = p] ELSE r]
             T == PassSet(regist, n, p)
  <2>1. g \in Surjection(regist, T)
    BY DEF PassSet, Surjection
  <2>2. \A r \in regist : g[r].name = r.name
    BY DEF Regist
  <2> HIDE DEF g, T
  <2>3. IsFiniteSet(regist)
    OBVIOUS
  <2>4. ASSUME NEW m
        PROVE  /\ IsFiniteSet(T)
               /\ Cardinality(RowsOf(T, m)) > 1 => Cardinality(RowsOf(regist, m)) > 1
    BY <2>1, <2>2, <2>3, RowsUpdated
  <2>5. QED BY <2>4 DEF T
<1>2. /\ IsFiniteSet(FbSet(n, f))
      /\ \A m : Cardinality(RowsOf(FbSet(n, f), m)) > 1
                  => Cardinality(RowsOf(regist, m)) > 1
  <2> DEFINE g == [r \in regist |-> IF r.name = n THEN [r EXCEPT !.fb = f] ELSE r]
             T == FbSet(n, f)
  <2>1. g \in Surjection(regist, T)
    BY DEF FbSet, Surjection
  <2>2. \A r \in regist : g[r].name = r.name
    BY DEF Regist
  <2> HIDE DEF g, T
  <2>3. IsFiniteSet(regist)
    OBVIOUS
  <2>4. ASSUME NEW m
        PROVE  /\ IsFiniteSet(T)
               /\ Cardinality(RowsOf(T, m)) > 1 => Cardinality(RowsOf(regist, m)) > 1
    BY <2>1, <2>2, <2>3, RowsUpdated
  <2>5. QED BY <2>4 DEF T
<1>3. QED BY <1>1, <1>2

\* The names a Facebook id leads to after the UPDATEs.
LEMMA NamesAfterPass ==
  ASSUME regist \subseteq Regist, NEW n, NEW p, NEW g
  PROVE  NamesOf({r \in PassSet(regist, n, p) : r.fb = g}) = NamesOf(FbRows(g))
<1> DEFINE set(r) == IF r.name = n THEN [r EXCEPT !.pass = p] ELSE r
<1>1. ASSUME NEW r \in regist
      PROVE  set(r).name = r.name /\ set(r).fb = r.fb
  BY DEF Regist
<1>2. PassSet(regist, n, p) = {set(r) : r \in regist}
  BY DEF PassSet
<1> HIDE DEF set
<1>3. ASSUME NEW x
      PROVE  x \in NamesOf({r \in PassSet(regist, n, p) : r.fb = g}) <=> x \in NamesOf(FbRows(g))
  BY <1>1, <1>2 DEF NamesOf, FbRows
<1>4. QED BY <1>3

LEMMA NamesAfterBind ==
  ASSUME regist \subseteq Regist, NEW n, NEW f, NEW g
  PROVE  /\ g # f => NamesOf({r \in FbSet(n, f) : r.fb = g}) \subseteq NamesOf(FbRows(g))
         /\ NamesOf({r \in FbSet(n, f) : r.fb = g}) \subseteq NamesOf(FbRows(g)) \cup {n}
<1> DEFINE bound(r) == IF r.name = n THEN [r EXCEPT !.fb = f] ELSE r
<1>1. ASSUME NEW r \in regist
      PROVE  /\ bound(r).name = r.name
             /\ bound(r).fb = IF r.name = n THEN f ELSE r.fb
  BY DEF Regist
<1>2. FbSet(n, f) = {bound(r) : r \in regist}
  BY DEF FbSet
<1> HIDE DEF bound
<1>3. ASSUME NEW s \in FbSet(n, f), s.fb = g
      PROVE  /\ g # f => s.name \in NamesOf(FbRows(g))
             /\ s.name \in NamesOf(FbRows(g)) \cup {n}
  BY <1>1, <1>2, <1>3 DEF NamesOf, FbRows
<1>4. QED BY <1>3 DEF NamesOf

\* A SELECT that failed is part of what the handler costs.
LEMMA BlindAndCost ==
  ASSUME NEW n \in Nat, NEW done \in SUBSET (1..n), NEW blind \in BOOLEAN, NEW rows,
         Blind(rows, blind), Fails(Cost(n, done) + (IF blind THEN 1 ELSE 0))
  PROVE  \E cost \in Nat : faults' = faults + cost /\ (cost = 0 => rows = {})
<1> DEFINE cost == Cost(n, done) + (IF blind THEN 1 ELSE 0)
<1>1. cost \in Nat /\ (cost = 0 => ~ blind)
  BY CostProperties, BlindCost
<1>2. faults' = faults + cost
  BY DEF Fails
<1> HIDE DEF cost
<1>3. QED BY <1>1, <1>2 DEF Blind

\* A phone gets a second row only when the SELECT for the first failed.
LEMMA PhoneAmb ==
  ASSUME TypeOK, AmbInv, NEW n \in Names, NEW mac \in Macs, IphoneLogin(mac, n)
  PROVE  AmbInv'
<1>1. PICK done \in SUBSET (1..3), blind \in BOOLEAN :
        /\ Blind(MacRows(mac), blind)
        /\ Fails(Cost(3, done) + (IF blind THEN 1 ELSE 0))
        /\ iphones' = IF 2 \in done THEN iphones \cup {[mid |-> NewMid, mac |-> mac]}
                      ELSE iphones
  BY DEF IphoneLogin
<1>2. PICK cost \in Nat : faults' = faults + cost /\ (cost = 0 => MacRows(mac) = {})
  BY <1>1, BlindAndCost
<1>3. regist' = regist
  BY DEF IphoneLogin
<1>4. TwiceNames' = TwiceNames /\ TwiceBound' = TwiceBound
  BY <1>3 DEF TwiceNames, TwiceBound, FbRows
<1> DEFINE row == [mid |-> NewMid, mac |-> mac]
<1>5. row.mac = mac /\ (iphones' = iphones \cup {row} \/ iphones' = iphones)
  BY <1>1
<1> HIDE DEF row
<1>6. IsFiniteSet(iphones')
  BY <1>5, FS_AddElement DEF AmbInv
<1>7. ASSUME NEW m \in TwicePhones', m \notin TwicePhones
      PROVE  m = mac /\ cost # 0
  <2>1. m \in Macs /\ Cardinality(MacRows(m)') > 1 /\ ~(Cardinality(MacRows(m)) > 1)
    BY <1>7 DEF TwicePhones
  <2>2. m = mac
    <3>1. m # mac => MacRows(m)' = MacRows(m)
      BY <1>5 DEF MacRows
    <3>2. QED BY <2>1, <3>1
  <2>3. ASSUME MacRows(mac) = {}
        PROVE  FALSE
    <3>1. MacRows(mac)' \subseteq {row}
      BY <1>5, <2>3 DEF MacRows
    <3>2. IsFiniteSet({row}) /\ Cardinality({row}) = 1
      BY FS_Singleton
    <3>3. Cardinality(MacRows(mac)') <= 1 /\ Cardinality(MacRows(mac)') \in Nat
      BY <3>1, <3>2, PartOf
    <3>4. QED BY <2>1, <2>2, <3>3
  <2>4. QED BY <1>2, <2>2, <2>3
<1>8. /\ TwicePhones' \subseteq TwicePhones \cup {mac}
      /\ cost = 0 => TwicePhones' \subseteq TwicePhones
  BY <1>7
<1>9. /\ IsFiniteSet(TwicePhones') /\ Cardinality(TwicePhones') \in Nat
      /\ Cardinality(TwicePhones) \in Nat
      /\ Cardinality(TwicePhones') <= Cardinality(TwicePhones) + cost
  BY <1>8, Grows DEF AmbInv
<1>10. Cardinality(TwiceNames) \in Nat /\ Cardinality(TwiceBound) \in Nat /\ faults \in Nat
  BY FS_CardinalityType, AccountsAssumption DEF AmbInv, TypeOK
<1>11. QED BY <1>2, <1>3, <1>4, <1>6, <1>9, <1>10 DEF AmbInv

\* A name is registered a second time only when the SELECT for the first failed.
LEMMA RegistAmb ==
  ASSUME TypeOK, AmbInv, NEW n \in Names, NEW p \in Passwords, RegistUser(n, p)
  PROVE  AmbInv'
<1>1. PICK done \in SUBSET (1..4), blind \in BOOLEAN :
        /\ Blind(RowsOf(regist, n), blind)
        /\ Fails(Cost(4, done) + (IF blind THEN 1 ELSE 0))
        /\ regist' = IF 3 \in done
                     THEN regist \cup {[mid |-> NewMid, name |-> n, pass |-> p, fb |-> Unbound]}
                     ELSE regist
  BY DEF RegistUser
<1>2. PICK cost \in Nat : faults' = faults + cost /\ (cost = 0 => RowsOf(regist, n) = {})
  BY <1>1, BlindAndCost
<1>3. iphones' = iphones
  BY DEF RegistUser
<1> DEFINE row == [mid |-> NewMid, name |-> n, pass |-> p, fb |-> Unbound]
<1>4. /\ row.name = n /\ row.fb = Unbound
      /\ regist' = regist \cup {row} \/ regist' = regist
  BY <1>1
<1> HIDE DEF row
<1>5. TwicePhones' = TwicePhones
  BY <1>3 DEF TwicePhones, MacRows
<1>6. TwiceBound' = TwiceBound
  <2>1. \A f \in FbIds : FbRows(f)' = FbRows(f)
    BY <1>4, AccountsAssumption DEF FbRows
  <2>2. TwiceBound' = {f \in FbIds : Cardinality(NamesOf(FbRows(f)')) > 1}
    BY DEF TwiceBound, NamesOf
  <2>3. QED BY <2>1, <2>2 DEF TwiceBound
<1>7. IsFiniteSet(regist')
  BY <1>4, FS_AddElement DEF AmbInv
<1>8. ASSUME NEW m \in TwiceNames', m \notin TwiceNames
      PROVE  m = n /\ cost # 0
  <2>1. m \in Names /\ Cardinality(RowsOf(regist', m)) > 1 /\ ~(Cardinality(RowsOf(regist, m)) > 1)
    BY <1>8 DEF TwiceNames, RowsOf
  <2>2. m = n
    <3>1. m # n => RowsOf(regist', m) = RowsOf(regist, m)
      BY <1>4 DEF RowsOf
    <3>2. QED BY <2>1, <3>1
  <2>3. ASSUME RowsOf(regist, n) = {}
        PROVE  FALSE
    <3>1. RowsOf(regist', n) \subseteq {row}
      BY <1>4, <2>3 DEF RowsOf
    <3>2. IsFiniteSet({row}) /\ Cardinality({row}) = 1
      BY FS_Singleton
    <3>3. Cardinality(RowsOf(regist', n)) <= 1 /\ Cardinality(RowsOf(regist', n)) \in Nat
      BY <3>1, <3>2, PartOf
    <3>4. QED BY <2>1, <2>2, <3>3
  <2>4. QED BY <1>2, <2>2, <2>3
<1>9. /\ TwiceNames' \subseteq TwiceNames \cup {n}
      /\ cost = 0 => TwiceNames' \subseteq TwiceNames
  BY <1>8
<1>10. /\ IsFiniteSet(TwiceNames') /\ Cardinality(TwiceNames') \in Nat
       /\ Cardinality(TwiceNames) \in Nat
       /\ Cardinality(TwiceNames') <= Cardinality(TwiceNames) + cost
  BY <1>9, Grows DEF AmbInv
<1>11. Cardinality(TwicePhones) \in Nat /\ Cardinality(TwiceBound) \in Nat /\ faults \in Nat
  BY FS_CardinalityType, AccountsAssumption DEF AmbInv, TypeOK
<1>12. QED BY <1>2, <1>3, <1>5, <1>6, <1>7, <1>10, <1>11 DEF AmbInv

\* The same for the two UPDATEs: the rows of a name become no more, and only the
\* id that is bound can get a second name.
LEMMA UpdateAmb ==
  ASSUME TypeOK, AmbInv, iphones' = iphones, IsFiniteSet(regist'),
         NEW cost \in Nat, faults' = faults + cost, NEW f,
         \A m : Cardinality(RowsOf(regist', m)) > 1 => Cardinality(RowsOf(regist, m)) > 1,
         \A g \in FbIds : g # f \/ cost = 0 =>
           (Cardinality(NamesOf(FbRows(g)')) > 1 => Cardinality(NamesOf(FbRows(g))) > 1)
  PROVE  AmbInv'
<1>1. TwicePhones' = TwicePhones
  BY DEF TwicePhones, MacRows
<1>2. TwiceNames' \subseteq TwiceNames
  BY DEF TwiceNames, RowsOf
<1>3. IsFiniteSet(TwiceNames') /\ Cardinality(TwiceNames') \in Nat
      /\ Cardinality(TwiceNames) \in Nat /\ Cardinality(TwiceNames') <= Cardinality(TwiceNames)
  BY <1>2, PartOf DEF AmbInv
<1>4. ASSUME NEW g \in TwiceBound', g \notin TwiceBound
      PROVE  g = f /\ cost # 0
  BY <1>4 DEF TwiceBound, NamesOf
<1>5. /\ IsFiniteSet(TwiceBound') /\ Cardinality(TwiceBound') \in Nat
      /\ Cardinality(TwiceBound) \in Nat
      /\ Cardinality(TwiceBound') <= Cardinality(TwiceBound) + cost
  <2>1. /\ TwiceBound' \subseteq TwiceBound \cup {f}
        /\ cost = 0 => TwiceBound' \subseteq TwiceBound
    BY <1>4
  <2>2. QED BY <2>1, Grows DEF AmbInv
<1>6. Cardinality(TwicePhones) \in Nat /\ faults \in Nat
  BY FS_CardinalityType, AccountsAssumption DEF AmbInv, TypeOK
<1>7. QED BY <1>1, <1>3, <1>5, <1>6 DEF AmbInv

LEMMA ChangePassAmb ==
  ASSUME TypeOK, AmbInv, NEW n \in Names, NEW old \in Passwords, NEW new \in Passwords,
         ChangePassWord(n, old, new)
  PROVE  AmbInv'
<1>0. regist \subseteq Regist /\ IsFiniteSet(regist)
  BY DEF TypeOK, Regist, AmbInv
<1>1. PICK cost \in Nat : faults' = faults + cost
  <2>1. PICK done \in SUBSET (1..2) : Fails(Cost(2, done))
    BY DEF ChangePassWord
  <2>2. Cost(2, done) \in Nat
    BY CostProperties
  <2>3. QED BY <2>1, <2>2 DEF Fails
<1>2. iphones' = iphones /\ (regist' = PassSet(regist, n, new) \/ regist' = regist)
  BY DEF ChangePassWord
<1>3. IsFiniteSet(PassSet(regist, n, new))
      /\ \A m : Cardinality(RowsOf(PassSet(regist, n, new), m)) > 1
                  => Cardinality(RowsOf(regist, m)) > 1
  BY <1>0, RegistUpdated
<1>4. ASSUME NEW g
      PROVE  NamesOf(FbRows(g)') = NamesOf(FbRows(g))
  <2>1. FbRows(g)' = {r \in regist' : r.fb = g} /\ FbRows(g) = {r \in regist : r.fb = g}
    BY DEF FbRows
  <2>2. NamesOf({r \in PassSet(regist, n, new) : r.fb = g}) = NamesOf(FbRows(g))
    BY <1>0, NamesAfterPass
  <2>3. QED BY <1>2, <2>1, <2>2
<1>5. /\ IsFiniteSet(regist')
      /\ \A m : Cardinality(RowsOf(regist', m)) > 1 => Cardinality(RowsOf(regist, m)) > 1
  BY <1>0, <1>2, <1>3
<1>6. \A g \in FbIds : Cardinality(NamesOf(FbRows(g)')) > 1 => Cardinality(NamesOf(FbRows(g))) > 1
  BY <1>4
<1>7. QED BY <1>1, <1>2, <1>5, <1>6, UpdateAmb

LEMMA BindAmb ==
  ASSUME TypeOK, AmbInv, NEW n \in Names, NEW p \in Passwords, NEW f \in FbIds,
         BindFb(f, n, p) \/ UnbindFb(f, n, p)
  PROVE  AmbInv'
<1>0. regist \subseteq Regist /\ IsFiniteSet(regist) /\ faults \in Nat
  BY AccountsAssumption DEF TypeOK, Regist, AmbInv
<1>1. PICK new \in {f, Unbound}, cost \in Nat :
        /\ faults' = faults + cost /\ regist' = FbSet(n, new)
        /\ cost = 0 /\ new = f => FbRows(f) = {}
  <2>1. CASE BindFb(f, n, p)
    <3>1. PICK blind \in BOOLEAN : /\ Blind(FbRows(f), blind)
                                   /\ Fails(IF blind THEN 1 ELSE 0)
                                   /\ regist' = FbSet(n, f)
      BY <2>1 DEF BindFb
    <3>2. PICK cost \in Nat : cost = IF blind THEN 1 ELSE 0
      OBVIOUS
    <3>3. faults' = faults + cost /\ (cost = 0 => FbRows(f) = {})
      BY <3>1, <3>2 DEF Fails, Blind
    <3>4. QED BY <3>1, <3>3
  <2>2. CASE UnbindFb(f, n, p)
    <3>1. faults' = faults + 0 /\ regist' = FbSet(n, Unbound) /\ Unbound # f
      BY <1>0, <2>2, AccountsAssumption DEF UnbindFb
    <3>2. QED BY <3>1
  <2>3. QED BY <2>1, <2>2
<1>2. iphones' = iphones
  BY DEF BindFb, UnbindFb
<1>3. /\ IsFiniteSet(regist')
      /\ \A m : Cardinality(RowsOf(regist', m)) > 1 => Cardinality(RowsOf(regist, m)) > 1
  <2>1. /\ IsFiniteSet(FbSet(n, new))
        /\ \A m : Cardinality(RowsOf(FbSet(n, new), m)) > 1
                    => Cardinality(RowsOf(regist, m)) > 1
    BY <1>0, RegistUpdated
  <2>2. QED BY <1>1, <2>1
<1>4. ASSUME NEW g \in FbIds, g # f \/ cost = 0, Cardinality(NamesOf(FbRows(g)')) > 1
      PROVE  Cardinality(NamesOf(FbRows(g))) > 1
  <2>1. NamesOf(FbRows(g)') = NamesOf({r \in FbSet(n, new) : r.fb = g})
    BY <1>1 DEF FbRows
  <2>2. /\ g # new => NamesOf(FbRows(g)') \subseteq NamesOf(FbRows(g))
        /\ NamesOf(FbRows(g)') \subseteq NamesOf(FbRows(g)) \cup {n}
    BY <1>0, <2>1, NamesAfterBind
  <2>3. g # Unbound
    BY AccountsAssumption
  <2>4. IsFiniteSet(NamesOf(FbRows(g)))
    <3>1. FbRows(g) \subseteq regist
      BY DEF FbRows
    <3>2. QED BY <1>0, <3>1, PartOf, NamesFinite
  <2>5. CASE g # new
    <3>1. /\ Cardinality(NamesOf(FbRows(g)')) \in Nat /\ Cardinality(NamesOf(FbRows(g))) \in Nat
          /\ Cardinality(NamesOf(FbRows(g)')) <= Cardinality(NamesOf(FbRows(g)))
      BY <2>2, <2>4, <2>5, PartOf
    <3>2. QED BY <1>4, <3>1
  <2>6. CASE g = new
    <3>1. FbRows(g) = {}
      BY <1>1, <1>4, <2>3, <2>6
    <3>2. NamesOf(FbRows(g)') \subseteq {n}
      BY <2>2, <3>1 DEF NamesOf
    <3>3. IsFiniteSet({n}) /\ Cardinality({n}) = 1
      BY FS_Singleton
    <3>4. Cardinality(NamesOf(FbRows(g)')) <= 1 /\ Cardinality(NamesOf(FbRows(g)')) \in Nat
      BY <3>2, <3>3, PartOf
    <3>5. QED BY <1>4, <3>4
  <2>7. QED BY <2>5, <2>6
<1>5. faults' = faults + cost
  BY <1>1
<1>6. \A g \in FbIds : g # f \/ cost = 0 =>
        (Cardinality(NamesOf(FbRows(g)')) > 1 => Cardinality(NamesOf(FbRows(g))) > 1)
  BY <1>4
<1>7. QED BY <1>2, <1>3, <1>5, <1>6, UpdateAmb

LEMMA AmbInvNext == FriendsTypeOK /\ AmbInv /\ [FriendsNext]_vars => AmbInv'
<1> SUFFICES ASSUME FriendsTypeOK, AmbInv, [FriendsNext]_vars PROVE AmbInv'
  OBVIOUS
<1>0. TypeOK
  BY DEF FriendsTypeOK
<1>1. CASE AccountsNext
  BY <1>0, <1>1, PhoneAmb, RegistAmb, ChangePassAmb, BindAmb DEF AccountsNext
<1>2. ASSUME NEW me \in Names, NEW f \in Names, AcceptFriend(me, f) \/ DeleteFriend(me, f)
      PROVE  AmbInv'
  <2>1. faults' \in 0..MaxFaults /\ faults' >= faults
    BY <1>2, AcceptSteps, DeleteSteps
  <2>2. UNCHANGED <<regist, iphones>>
    BY <1>2 DEF AcceptFriend, DeleteFriend
  <2>3. TwicePhones' = TwicePhones /\ TwiceNames' = TwiceNames /\ TwiceBound' = TwiceBound
    BY <2>2 DEF TwicePhones, TwiceNames, TwiceBound, MacRows, FbRows
  <2>4. /\ faults \in Nat /\ faults' \in Nat /\ Cardinality(TwicePhones) \in Nat
        /\ Cardinality(TwiceNames) \in Nat /\ Cardinality(TwiceBound) \in Nat
    BY <1>0, <2>1, FS_CardinalityType, AccountsAssumption DEF AmbInv, TypeOK
  <2>5. QED BY <2>1, <2>2, <2>3, <2>4 DEF AmbInv
<1>3. CASE UNCHANGED vars
  BY <1>3 DEF vars, accountVars, AmbInv, TwicePhones, TwiceNames, TwiceBound, MacRows, FbRows
<1>4. QED BY <1>1, <1>2, <1>3 DEF FriendsNext

LEMMA AmbInvInit == FriendsInit => AmbInv
<1> SUFFICES ASSUME FriendsInit PROVE AmbInv
  OBVIOUS
<1>1. /\ IsFiniteSet({}) /\ Cardinality({}) = 0
      /\ regist = {} /\ iphones = {} /\ faults = 0
  BY FS_EmptySet DEF FriendsInit, Init
<1>2. TwicePhones = {} /\ TwiceNames = {} /\ TwiceBound = {}
  <2>1. \A x : MacRows(x) = {} /\ RowsOf(regist, x) = {} /\ NamesOf(FbRows(x)) = {}
    BY <1>1 DEF MacRows, RowsOf, NamesOf, FbRows
  <2>2. QED BY <1>1, <2>1 DEF TwicePhones, TwiceNames, TwiceBound
<1>3. QED BY <1>1, <1>2 DEF AmbInv

\* Two rows of a phone, two of a name and two names of a Facebook id: each of them
\* costs a SELECT that failed and was taken for one without rows, for any number of
\* phones, names and ids (CheckAndAddUser, Handle_Regist_User,
\* Handle_User_FBBINGDING).
THEOREM OneRowUnlessBlind == FriendsSpec => []AmbiguityCostsAFailure
<1>1. AmbInv => AmbiguityCostsAFailure
  BY DEF AmbInv, AmbiguityCostsAFailure, TwicePhones, TwiceNames, TwiceBound, NamesOf
<1>2. QED
  BY <1>1, FriendsTypeInit, FriendsTypeNext, AmbInvInit, AmbInvNext, PTL DEF FriendsSpec

--------------------------------------------------------------------------------
(* Pages of a list.                                                         *)

PageSizePositive == PageSize \in Nat /\ PageSize >= 1

LEMMA Positive == PageSizePositive
BY FriendsAssumption DEF PageSizePositive

LEMMA Multiples ==
  ASSUME NEW x \in Int, NEW y \in Int, x <= y
  PROVE  PageSize * x \in Int /\ PageSize * y \in Int /\ PageSize * x <= PageSize * y
<1>1. PICK d \in Nat : y = x + d
  <2>1. y - x \in Nat /\ y = x + (y - x)
    OBVIOUS
  <2>2. QED BY <2>1
<1>2. PageSize * d \in Nat /\ PageSize * x \in Int
  BY Positive DEF PageSizePositive
<1>3. PageSize * (x + d) = PageSize * x + PageSize * d
  BY Positive DEF PageSizePositive
<1>4. QED BY <1>1, <1>2, <1>3

LEMMA NextMultiple ==
  ASSUME NEW x \in Int
  PROVE  PageSize * (x + 1) = PageSize * x + PageSize /\ PageSize * x \in Int
BY Positive DEF PageSizePositive

(* As many pages as are needed, and no more.                                *)
LEMMA PagesNeeded ==
  ASSUME NEW n \in Nat
  PROVE  /\ PageNums(n) \in Nat /\ n <= PageSize * PageNums(n)
         /\ PageSize * PageNums(n) < n + PageSize
<1> USE Positive DEF PageSizePositive
<1>1. PICK q, r : q = n \div PageSize /\ r = n % PageSize
  OBVIOUS
<1>2. q \in Int /\ r \in Int /\ 0 <= r /\ r < PageSize /\ n = PageSize * q + r
  BY <1>1
<1>3. q >= 0
  <2>1. q <= -1 => PageSize * q <= PageSize * (-1)
    BY <1>2, Multiples
  <2>2. PageSize * (-1) = -PageSize
    OBVIOUS
  <2>3. QED BY <1>2, <2>1, <2>2
<1>4. CASE r = 0
  <2>1. PageNums(n) = q
    BY <1>1, <1>2, <1>4 DEF PageNums
  <2>2. QED BY <1>2, <1>3, <1>4, <2>1
<1>5. CASE r # 0
  <2>1. PageNums(n) = q + 1
    BY <1>1, <1>2, <1>5 DEF PageNums
  <2>2. PageSize * (q + 1) = PageSize * q + PageSize
    BY <1>2, NextMultiple
  <2>3. QED BY <1>2, <1>3, <1>5, <2>1, <2>2
<1>6. QED BY <1>4, <1>5

LEMMA PageIs ==
  ASSUME NEW S, NEW list \in Seq(S), NEW i \in 1..PageNums(Len(list))
  PROVE  LET before == PageSize * (i - 1)
             page == Page(list, i)
         IN  /\ before \in Nat /\ before < Len(list)
             /\ Len(page) = Smaller(PageSize, Len(list) - before)
             /\ \A j \in 1..Len(page) : page[j] = list[before + j]
<1> DEFINE n == Len(list)
           before == PageSize * (i - 1)
           last == Smaller(PageSize * i, n)
<1>0. n \in Nat /\ PageNums(n) \in Nat /\ PageSize \in Nat /\ PageSize >= 1
  BY PagesNeeded, Positive DEF PageSizePositive
<1>1. i \in Nat /\ i - 1 \in Nat /\ i <= PageNums(n)
  BY <1>0
<1>2. PageSize * i = before + PageSize /\ before \in Int
  <2>1. PICK x \in Int : x = i - 1
    BY <1>1
  <2>2. x + 1 = i
    BY <1>1, <2>1
  <2>3. PageSize * (x + 1) = PageSize * x + PageSize /\ PageSize * x \in Int
    BY NextMultiple
  <2>4. QED BY <2>1, <2>2, <2>3
<1>3. before >= 0
  <2>1. PageSize * 0 <= PageSize * (i - 1) /\ PageSize * 0 = 0
    BY <1>0, <1>1, Multiples
  <2>2. QED BY <2>1
<1>4. before < n
  <2>1. PageSize * i <= PageSize * PageNums(n) /\ PageSize * i \in Int
        /\ PageSize * PageNums(n) \in Int
    BY <1>0, <1>1, Multiples
  <2>2. PageSize * PageNums(n) < n + PageSize
    BY <1>0, PagesNeeded
  <2>3. QED BY <1>0, <1>2, <2>1, <2>2
<1>5. Page(list, i) = SubSeq(list, before + 1, last)
  BY DEF Page
<1> HIDE DEF before
<1>6. last \in Nat /\ before < last /\ last <= n /\ last - before = Smaller(PageSize, n - before)
  BY <1>0, <1>2, <1>3, <1>4 DEF Smaller
<1> HIDE DEF last
<1>7. Len(SubSeq(list, before + 1, last)) = last - before
  BY <1>0, <1>2, <1>3, <1>6
<1>8. \A j \in 1..last - before : SubSeq(list, before + 1, last)[j] = list[before + j]
  BY <1>0, <1>2, <1>3, <1>6
<1>9. before \in Nat
  BY <1>2, <1>3
<1>10. /\ before \in Nat /\ before < n
       /\ Len(Page(list, i)) = Smaller(PageSize, n - before)
       /\ \A j \in 1..Len(Page(list, i)) : Page(list, i)[j] = list[before + j]
  BY <1>4, <1>5, <1>6, <1>7, <1>8, <1>9
<1>11. QED BY <1>10 DEF before

(* A list of any length, in pages of any size: no page is empty, all but    *)
(* the last are full, page i goes on where page i - 1 has ended, and every  *)
(* entry is on a page.                                                      *)
THEOREM PagesCoverAnyList ==
  ASSUME NEW S, NEW list \in Seq(S)
  PROVE  /\ \A i \in 1..PageNums(Len(list)) :
              /\ Len(Page(list, i)) \in 1..PageSize
              /\ i < PageNums(Len(list)) => Len(Page(list, i)) = PageSize
              /\ \A j \in 1..Len(Page(list, i)) :
                   Page(list, i)[j] = list[PageSize * (i - 1) + j]
         /\ \A k \in 1..Len(list) : \E i \in 1..PageNums(Len(list)) :
              \E j \in 1..Len(Page(list, i)) : k = PageSize * (i - 1) + j
<1> DEFINE n == Len(list)
<1>0. n \in Nat /\ PageNums(n) \in Nat /\ PageSize \in Nat /\ PageSize >= 1
  BY PagesNeeded, Positive DEF PageSizePositive
<1>1. n <= PageSize * PageNums(n) /\ PageSize * PageNums(n) < n + PageSize
  BY <1>0, PagesNeeded
<1>2. ASSUME NEW i \in 1..PageNums(n)
      PROVE  /\ Len(Page(list, i)) \in 1..PageSize
             /\ i < PageNums(n) => Len(Page(list, i)) = PageSize
             /\ \A j \in 1..Len(Page(list, i)) :
                  Page(list, i)[j] = list[PageSize * (i - 1) + j]
  <2> DEFINE before == PageSize * (i - 1)
  <2>1. /\ before \in Nat /\ before < n
        /\ Len(Page(list, i)) = Smaller(PageSize, n - before)
        /\ \A j \in 1..Len(Page(list, i)) : Page(list, i)[j] = list[before + j]
    BY PageIs
  <2> HIDE DEF before
  <2>2. Len(Page(list, i)) \in 1..PageSize
    BY <1>0, <2>1 DEF Smaller
  <2>3. ASSUME i < PageNums(n) PROVE PageSize <= n - before
    <3>1. PICK m \in Int : m = PageNums(n) - 1
      BY <1>0
    <3>2. i \in Int /\ i <= m /\ PageNums(n) = m + 1
      BY <1>0, <2>3, <3>1
    <3>3. PageSize * i <= PageSize * m /\ PageSize * i \in Int /\ PageSize * m \in Int
      BY <3>2, Multiples
    <3>4. PageSize * PageNums(n) = PageSize * m + PageSize
      BY <3>2, NextMultiple
    <3>5. PageSize * i = before + PageSize
      <4>1. i = (i - 1) + 1 /\ i - 1 \in Int
        BY <3>2
      <4>2. PageSize * ((i - 1) + 1) = PageSize * (i - 1) + PageSize
        BY <4>1, NextMultiple
      <4>3. QED BY <4>1, <4>2 DEF before
    <3>6. before + PageSize < n
      <4>1. PICK a, b, c : a = PageSize * m /\ b = PageSize * i /\ c = PageSize * PageNums(n)
        OBVIOUS
      <4>2. a \in Int /\ b \in Int /\ b <= a /\ c = a + PageSize /\ b = before + PageSize
            /\ c < n + PageSize
        BY <1>1, <3>3, <3>4, <3>5, <4>1
      <4>3. a < n
        BY <1>0, <4>2
      <4>4. QED BY <1>0, <2>1, <4>2, <4>3
    <3>7. QED BY <1>0, <2>1, <3>6
  <2>4. i < PageNums(n) => Len(Page(list, i)) = PageSize
    BY <1>0, <2>1, <2>3 DEF Smaller
  <2>5. \A j \in 1..Len(Page(list, i)) : Page(list, i)[j] = list[PageSize * (i - 1) + j]
    BY <2>1 DEF before
  <2>6. QED BY <2>2, <2>4, <2>5
<1>3. ASSUME NEW k \in 1..n
      PROVE  \E i \in 1..PageNums(n) : \E j \in 1..Len(Page(list, i)) : k = PageSize * (i - 1) + j
  <2>1. PICK u, v : u = (k - 1) \div PageSize /\ v = (k - 1) % PageSize
    OBVIOUS
  <2>2. u \in Int /\ v \in Int /\ 0 <= v /\ v < PageSize /\ k - 1 = PageSize * u + v
    BY <1>0, <2>1
  <2>3. PageSize * u \in Int
    BY <1>0, <2>2
  <2>4. u >= 0
    <3>1. u <= -1 => PageSize * u <= PageSize * (-1)
      BY <2>2, Multiples
    <3>2. PageSize * (-1) = -PageSize
      BY <1>0
    <3>3. QED BY <1>0, <2>2, <2>3, <3>1, <3>2
  <2>5. u < PageNums(n)
    <3>1. u >= PageNums(n) => PageSize * PageNums(n) <= PageSize * u
      BY <1>0, <2>2, Multiples
    <3>2. PageSize * u < n
      BY <1>0, <2>2, <2>3
    <3>3. PageSize * PageNums(n) \in Int
      BY <1>0
    <3>4. QED BY <1>0, <1>1, <2>2, <2>3, <3>1, <3>2, <3>3
  <2>6. PICK i \in 1..PageNums(n) : i = u + 1
    BY <1>0, <2>2, <2>4, <2>5
  <2>7. i - 1 = u
    BY <2>2, <2>6
  <2>8. Len(Page(list, i)) = Smaller(PageSize, n - PageSize * u)
    BY <2>7, PageIs
  <2>9. v + 1 \in 1..Len(Page(list, i))
    BY <1>0, <2>2, <2>3, <2>8 DEF Smaller
  <2>10. k = PageSize * (i - 1) + (v + 1)
    BY <2>2, <2>3, <2>7
  <2>11. QED BY <2>9, <2>10
<1>4. QED BY <1>2, <1>3

(* Induction on the numbers of pages.                                       *)
LEMMA Induction ==
  ASSUME NEW S \in SUBSET Nat, 0 \in S, \A n \in S : n + 1 \in S
  PROVE  S = Nat
<1> DEFINE R == OpToRel(<, Nat)
<1> SUFFICES ASSUME Nat \ S # {} PROVE FALSE
  OBVIOUS
<1>1. \A i, j \in Nat : i < j => <<i, j>> \in R
  BY DEF OpToRel
<1>2. IsWellFoundedOn(R, Nat)
  BY NatLessThanWellFounded
<1> HIDE DEF R
<1>3. PICK x \in Nat \ S : \A y \in Nat \ S : ~ (<<y, x>> \in R)
  BY <1>2, WFMin
<1>4. x - 1 \in Nat /\ x - 1 < x
  <2>1. x # 0
    OBVIOUS
  <2>2. QED BY <1>3, <2>1
<1>5. x - 1 \in S
  BY <1>1, <1>3, <1>4
<1>6. QED BY <1>3, <1>4, <1>5

(* What the first pages have shown: a beginning of the list.                *)
Shown(list, i) == SubSeq(list, 1, Smaller(PageSize * i, Len(list)))

LEMMA ShownFirst ==
  ASSUME NEW S, NEW list \in Seq(S) PROVE Shown(list, 0) = <<>>
<1>1. PageSize * 0 = 0 /\ Len(list) \in Nat
  BY Positive DEF PageSizePositive
<1>2. Smaller(PageSize * 0, Len(list)) = 0
  BY <1>1 DEF Smaller
<1>3. QED BY <1>2 DEF Shown

LEMMA ShownLast ==
  ASSUME NEW S, NEW list \in Seq(S) PROVE Shown(list, PageNums(Len(list))) = list
<1> DEFINE n == Len(list)
<1>1. n \in Nat /\ n <= PageSize * PageNums(n) /\ PageSize * PageNums(n) \in Int
  <2>1. n \in Nat
    OBVIOUS
  <2>2. QED BY <2>1, PagesNeeded, Positive DEF PageSizePositive
<1>2. Smaller(PageSize * PageNums(n), n) = n
  BY <1>1 DEF Smaller
<1>3. SubSeq(list, 1, n) = list
  OBVIOUS
<1>4. QED BY <1>2, <1>3 DEF Shown

LEMMA ShownNext ==
  ASSUME NEW S, NEW list \in Seq(S), NEW i \in 1..PageNums(Len(list))
  PROVE  Shown(list, i) = Shown(list, i - 1) \o Page(list, i)
<1> DEFINE n == Len(list)
           before == PageSize * (i - 1)
           page == Page(list, i)
<1>0. n \in Nat /\ PageSize \in Nat /\ PageSize >= 1 /\ i \in Int
  BY PagesNeeded, Positive DEF PageSizePositive
<1>1. /\ before \in Nat /\ before < n
      /\ Len(page) = Smaller(PageSize, n - before)
      /\ \A j \in 1..Len(page) : page[j] = list[before + j]
  BY PageIs
<1>2. PageSize * i = before + PageSize
  <2>1. PICK x \in Int : x = i - 1
    BY <1>0
  <2>2. x + 1 = i
    BY <1>0, <2>1
  <2>3. PageSize * (x + 1) = PageSize * x + PageSize
    BY NextMultiple
  <2>4. QED BY <2>1, <2>2, <2>3
<1>3. page \in Seq(S)
  <2>1. page = SubSeq(list, before + 1, Smaller(PageSize * i, n))
    BY DEF Page
  <2> HIDE DEF before
  <2>2. Smaller(PageSize * i, n) \in before + 1..n
    BY <1>0, <1>1, <1>2 DEF Smaller
  <2>3. \A m \in 1..n, l \in 1..n : SubSeq(list, m, l) \in Seq(S)
    OBVIOUS
  <2>4. QED BY <1>0, <1>1, <2>1, <2>2, <2>3
<1> HIDE DEF before, page
<1>4. PICK k : k = Smaller(PageSize * i, n)
  OBVIOUS
<1>5. k \in Nat /\ k <= n /\ k = before + Len(page) /\ Len(page) \in Nat
  BY <1>0, <1>1, <1>2, <1>4, SMTT(30) DEF Smaller
<1>6. Shown(list, i) = SubSeq(list, 1, k)
  BY <1>4 DEF Shown
<1>7. Shown(list, i - 1) = SubSeq(list, 1, before)
  <2>1. Smaller(before, n) = before
    BY <1>0, <1>1 DEF Smaller
  <2>2. QED BY <2>1 DEF Shown, before
<1>8. SubSeq(list, 1, k) \in Seq(S) /\ Len(SubSeq(list, 1, k)) = k
      /\ \A j \in 1..k : SubSeq(list, 1, k)[j] = list[j]
  BY <1>0, <1>5, SMTT(30)
<1>9. SubSeq(list, 1, before) \in Seq(S) /\ Len(SubSeq(list, 1, before)) = before
      /\ \A j \in 1..before : SubSeq(list, 1, before)[j] = list[j]
  BY <1>0, <1>1
<1>10. PICK a \in Seq(S) : a = SubSeq(list, 1, before)
  BY <1>9
<1>11. PICK b \in Seq(S) : b = SubSeq(list, 1, k)
  BY <1>8
<1>12. a \o page \in Seq(S) /\ Len(a \o page) = k
  BY <1>3, <1>5, <1>9, <1>10
<1>13. ASSUME NEW j \in 1..k PROVE (a \o page)[j] = b[j]
  <2>1. b[j] = list[j]
    BY <1>8, <1>11
  <2>2. CASE j <= before
    <3>1. j \in 1..Len(a) /\ a[j] = list[j]
      BY <1>1, <1>5, <1>9, <1>10, <2>2
    <3>2. (a \o page)[j] = a[j]
      BY <1>3, <3>1
    <3>3. QED BY <2>1, <3>1, <3>2
  <2>3. CASE j > before
    <3>1. j - before \in 1..Len(page) /\ before + (j - before) = j /\ Len(a) = before
      BY <1>1, <1>5, <1>9, <1>10, <2>3
    <3>2. (a \o page)[j] = page[j - before]
      <4>1. \A m \in 1..Len(a) + Len(page) : m > Len(a) => (a \o page)[m] = page[m - Len(a)]
        BY <1>3
      <4>2. j \in 1..Len(a) + Len(page) /\ j > Len(a)
        BY <1>5, <2>3, <3>1
      <4>3. QED BY <3>1, <4>1, <4>2
    <3>3. page[j - before] = list[j]
      BY <1>1, <3>1
    <3>4. QED BY <2>1, <3>2, <3>3
  <2>4. j <= before \/ j > before
    BY <1>1, <1>5
  <2>5. QED BY <2>2, <2>3, <2>4
<1>14. Len(b) = k
  BY <1>8, <1>11
<1>15. a \o page = b
  BY <1>12, <1>13, <1>14
<1>16. QED BY <1>6, <1>7, <1>10, <1>11, <1>15 DEF page

(* Page after page shows the list, whatever it is.                          *)
LEMMA AllIsSeen ==
  ASSUME NEW S, NEW list \in Seq(S) PROVE Seen(list) = list
<1> DEFINE last == PageNums(Len(list))
           Step(f, i) == IF i = 0 THEN <<>> ELSE f[i - 1] \o Page(list, i)
           seen == CHOOSE f : f = [i \in 0..last |->
                     IF i = 0 THEN <<>> ELSE f[i - 1] \o Page(list, i)]
           shown == [i \in 0..last |-> Shown(list, i)]
<1>0. last \in Nat
  BY PagesNeeded
<1>1. Seen(list) = seen[last]
  BY DEF Seen
<1>2. ASSUME NEW i \in 0..last PROVE shown[i] = Step(shown, i)
  <2>1. CASE i = 0
    BY <2>1, ShownFirst
  <2>2. CASE i # 0
    <3>1. i \in 1..last /\ i - 1 \in 0..last
      BY <1>0, <2>2
    <3>2. Shown(list, i) = Shown(list, i - 1) \o Page(list, i)
      BY <3>1, ShownNext
    <3>3. QED BY <2>2, <3>1, <3>2
  <2>3. QED BY <2>1, <2>2
<1> HIDE DEF last
<1>3. shown = [i \in 0..last |-> Step(shown, i)]
  BY <1>2
<1>4. \E f : f = [i \in 0..last |-> IF i = 0 THEN <<>> ELSE f[i - 1] \o Page(list, i)]
  BY <1>3
<1>5. seen = [i \in 0..last |-> IF i = 0 THEN <<>> ELSE seen[i - 1] \o Page(list, i)]
  BY <1>4, Zenon
<1> HIDE DEF seen
<1>6. \A i \in 0..last : seen[i] = Step(seen, i)
  BY <1>5
<1> DEFINE T == {i \in Nat : i <= last => seen[i] = Shown(list, i)}
<1>7. 0 \in T
  <2>1. seen[0] = <<>>
    BY <1>0, <1>6
  <2>2. QED BY <2>1, ShownFirst
<1>8. ASSUME NEW i \in T PROVE i + 1 \in T
  <2> SUFFICES ASSUME i + 1 <= last PROVE seen[i + 1] = Shown(list, i + 1)
    BY <1>8
  <2>1. i + 1 \in 1..last /\ i + 1 \in 0..last /\ (i + 1) - 1 = i /\ i + 1 # 0 /\ i <= last
    BY <1>0
  <2>2. seen[i + 1] = seen[i] \o Page(list, i + 1)
    BY <1>6, <2>1
  <2>3. seen[i] = Shown(list, i)
    BY <1>8, <2>1
  <2>4. Shown(list, i + 1) = Shown(list, (i + 1) - 1) \o Page(list, i + 1)
    BY <2>1, ShownNext DEF last
  <2>5. QED BY <2>1, <2>2, <2>3, <2>4
<1>9. T = Nat
  <2> HIDE DEF T
  <2>1. T \in SUBSET Nat
    BY DEF T
  <2>2. QED BY <1>7, <1>8, <2>1, Induction
<1>10. seen[last] = Shown(list, last)
  <2>1. last \in T
    BY <1>0, <1>9
  <2>2. QED BY <1>0, <2>1
<1>11. QED BY <1>1, <1>10, ShownLast DEF last

--------------------------------------------------------------------------------
(* Finite sets in order: the elements are counted by those before them.     *)

\* A finite set in some order: what is before each of its elements.
Orders(set, before) ==
  /\ IsFiniteSet(set) /\ before \in [set -> SUBSET set]
  /\ \A r, s \in set :
       /\ r # s => r \in before[s] \/ s \in before[r]
       /\ r \in before[s] => before[r] \cup {r} \subseteq before[s]
  /\ \A r \in set : r \notin before[r]

LEMMA Ranks ==
  ASSUME NEW set, NEW before, Orders(set, before), NEW r \in set
  PROVE  /\ Cardinality(before[r]) \in Nat /\ Cardinality(set) \in Nat
         /\ Cardinality(before[r]) < Cardinality(set)
         /\ \A s \in set : r \in before[s] =>
              /\ Cardinality(before[s]) \in Nat
              /\ Cardinality(before[r]) < Cardinality(before[s])
<1>1. \A s \in set : IsFiniteSet(before[s]) /\ Cardinality(before[s]) \in Nat
  <2>1. ASSUME NEW s \in set PROVE before[s] \subseteq set
    BY DEF Orders
  <2>2. QED BY <2>1, PartOf DEF Orders
<1>2. r \notin before[r]
  BY DEF Orders
<1>3. IsFiniteSet(before[r] \cup {r})
      /\ Cardinality(before[r] \cup {r}) = Cardinality(before[r]) + 1
  BY <1>1, <1>2, FS_AddElement
<1>4. Cardinality(set) \in Nat /\ Cardinality(before[r]) + 1 <= Cardinality(set)
  <2>1. before[r] \cup {r} \subseteq set
    BY DEF Orders
  <2>2. QED BY <1>3, <2>1, PartOf DEF Orders
<1>5. ASSUME NEW s \in set, r \in before[s]
      PROVE  Cardinality(before[r]) + 1 <= Cardinality(before[s])
  <2>1. before[r] \cup {r} \subseteq before[s]
    BY <1>5 DEF Orders
  <2>2. QED BY <1>1, <1>3, <2>1, PartOf
<1>6. QED BY <1>1, <1>4, <1>5

\* There are as many elements as places, so that every place has its own.
LEMMA AtEveryPlace ==
  ASSUME NEW set, NEW before, Orders(set, before)
  PROVE  /\ Cardinality(set) \in Nat
         /\ \A i \in 1..Cardinality(set) : \E r \in set :
              Cardinality(before[r]) = i - 1
         /\ \A r, s \in set :
              Cardinality(before[r]) = Cardinality(before[s]) => r = s
<1> DEFINE n == Cardinality(set)
           rank == [r \in set |-> Cardinality(before[r])]
<1>1. n \in Nat
  BY FS_CardinalityType DEF Orders
<1>2. \A r \in set : Cardinality(before[r]) \in 0..n - 1
  <2>1. ASSUME NEW r \in set PROVE Cardinality(before[r]) \in 0..n - 1
    <3>1. Cardinality(before[r]) \in Nat /\ Cardinality(before[r]) < n
      BY Ranks
    <3>2. QED BY <1>1, <3>1
  <2>2. QED BY <2>1
<1>3. ASSUME NEW r \in set, NEW s \in set,
             Cardinality(before[r]) = Cardinality(before[s])
      PROVE  r = s
  <2>1. r \notin before[s] /\ s \notin before[r]
    <3>1. r \in before[s] =>
            /\ Cardinality(before[r]) \in Nat /\ Cardinality(before[s]) \in Nat
            /\ Cardinality(before[r]) < Cardinality(before[s])
      BY Ranks
    <3>2. s \in before[r] =>
            /\ Cardinality(before[r]) \in Nat /\ Cardinality(before[s]) \in Nat
            /\ Cardinality(before[s]) < Cardinality(before[r])
      BY Ranks
    <3>3. QED BY <1>3, <3>1, <3>2
  <2>2. QED BY <2>1 DEF Orders
<1>4. IsFiniteSet(0..n - 1) /\ Cardinality(0..n - 1) = n
  <2>1. 0 \in Int /\ n - 1 \in Int
    BY <1>1
  <2>2. IsFiniteSet(0..n - 1) /\ Cardinality(0..n - 1) = IF 0 > n - 1 THEN 0 ELSE n - 1 - 0 + 1
    BY <2>1, FS_Interval
  <2>3. QED BY <1>1, <2>2
<1>5. rank \in [set -> 0..n - 1]
  BY <1>2
<1>6. rank \in Injection(set, 0..n - 1)
  <2>1. \A r, s \in set : rank[r] = rank[s] => r = s
    BY <1>3
  <2> HIDE DEF rank
  <2>2. QED BY <1>5, <2>1 DEF Injection, IsInjective
<1> HIDE DEF n
<1>7. rank \in Surjection(set, 0..n - 1)
  <2> HIDE DEF rank
  <2>1. QED BY <1>4, <1>6, FS_Injection DEF n
<1>8. \A i \in 0..n - 1 : \E r \in set : rank[r] = i
  <2> HIDE DEF rank
  <2>1. QED BY <1>7 DEF Surjection
<1>9. ASSUME NEW i \in 1..n PROVE \E r \in set : Cardinality(before[r]) = i - 1
  <2>1. i - 1 \in 0..n - 1
    BY <1>1
  <2>2. QED BY <1>8, <2>1
<1>10. QED BY <1>1, <1>3, <1>9 DEF n

--------------------------------------------------------------------------------
(* The sorted list of a user's rows: the rows are counted by the rows that  *)
(* each has before it.                                                      *)

Rows(rows) == IsFiniteSet(rows) /\ rows \subseteq Names \X Nat

LEMMA NamesAreNumbers == \A n \in Names : n \in Int
BY FriendsAssumption

LEMMA BeforeOrders ==
  ASSUME NEW rows, Rows(rows), NEW r \in rows, NEW s \in rows
  PROVE  /\ r # s => r \in Before(rows, s) \/ s \in Before(rows, r)
         /\ r \in Before(rows, s) => Before(rows, r) \cup {r} \subseteq Before(rows, s)
         /\ r \notin Before(rows, r)
<1>1. ASSUME NEW x \in rows PROVE x = <<x[1], x[2]>> /\ x[1] \in Int /\ x[2] \in Int
  <2>1. x \in Names \X Nat
    BY DEF Rows
  <2>2. x = <<x[1], x[2]>> /\ x[1] \in Names /\ x[2] \in Nat
    BY <2>1
  <2>3. QED BY <2>2, NamesAreNumbers
<1>2. r # s => r \in Before(rows, s) \/ s \in Before(rows, r)
  <2>1. r # s => r[1] # s[1] \/ r[2] # s[2]
    BY <1>1
  <2>2. QED BY <1>1, <2>1 DEF Before
<1>3. r \notin Before(rows, r)
  BY <1>1 DEF Before
<1>4. ASSUME r \in Before(rows, s), NEW q \in Before(rows, r) PROVE q \in Before(rows, s)
  <2>1. q \in rows /\ (q[1] < r[1] \/ (q[1] = r[1] /\ q[2] < r[2]))
    BY <1>4 DEF Before
  <2>2. r[1] < s[1] \/ (r[1] = s[1] /\ r[2] < s[2])
    BY <1>4 DEF Before
  <2>3. q[1] < s[1] \/ (q[1] = s[1] /\ q[2] < s[2])
    BY <1>1, <2>1, <2>2
  <2>4. QED BY <2>1, <2>3 DEF Before
<1>5. QED BY <1>2, <1>3, <1>4

LEMMA RowRanks ==
  ASSUME NEW rows, Rows(rows)
  PROVE  /\ Cardinality(rows) \in Nat
         /\ \A i \in 1..Cardinality(rows) : \E r \in rows :
              Cardinality(Before(rows, r)) = i - 1
         /\ \A r, s \in rows :
              Cardinality(Before(rows, r)) = Cardinality(Before(rows, s)) => r = s
         /\ \A r \in rows : /\ Cardinality(Before(rows, r)) \in Nat
                             /\ Cardinality(Before(rows, r)) < Cardinality(rows)
         /\ \A r, s \in rows : r \in Before(rows, s) =>
              Cardinality(Before(rows, r)) < Cardinality(Before(rows, s))
<1> DEFINE before == [r \in rows |-> Before(rows, r)]
<1>1. before \in [rows -> SUBSET rows] /\ \A r \in rows : before[r] = Before(rows, r)
  BY DEF Before
<1> HIDE DEF before
<1>2. Orders(rows, before)
  BY <1>1, BeforeOrders DEF Orders, Rows
<1>3. /\ Cardinality(rows) \in Nat
      /\ \A i \in 1..Cardinality(rows) : \E r \in rows : Cardinality(before[r]) = i - 1
      /\ \A r, s \in rows : Cardinality(before[r]) = Cardinality(before[s]) => r = s
  BY <1>2, AtEveryPlace
<1>4. ASSUME NEW r \in rows
      PROVE  /\ Cardinality(before[r]) \in Nat /\ Cardinality(before[r]) < Cardinality(rows)
             /\ \A s \in rows : r \in before[s] => Cardinality(before[r]) < Cardinality(before[s])
  BY <1>2, Ranks
<1>5. QED BY <1>1, <1>3, <1>4

\* The list of the names of rows: sorted, and every row has an entry.
InOrder(rows) ==
  [i \in 1..Cardinality(rows) |->
     (CHOOSE row \in rows : Cardinality(Before(rows, row)) = i - 1)[1]]

ListOf(list, rows) ==
  /\ list \in Seq(Names)
  /\ \A i \in 1..Len(list) - 1 : list[i] <= list[i + 1]
  /\ \A i \in 1..Len(list) : \E r \in rows : list[i] = r[1]
  /\ \A r \in rows : \E i \in 1..Len(list) : list[i] = r[1]

LEMMA SortedRows ==
  ASSUME NEW rows, Rows(rows)
  PROVE  ListOf(InOrder(rows), rows)
<1>0. PICK list : list = InOrder(rows)
  OBVIOUS
<1> DEFINE n == Cardinality(rows)
           At(i) == CHOOSE row \in rows : Cardinality(Before(rows, row)) = i - 1
<1>1. n \in Nat
  BY RowRanks
<1>2. ASSUME NEW i \in 1..n PROVE At(i) \in rows /\ Cardinality(Before(rows, At(i))) = i - 1
  <2>1. \E r \in rows : Cardinality(Before(rows, r)) = i - 1
    BY RowRanks
  <2>2. QED BY <2>1
<1>3. list = [i \in 1..n |-> At(i)[1]]
  BY <1>0 DEF InOrder
<1> HIDE DEF n, At
<1>4. \A i \in 1..n : list[i] = At(i)[1]
  BY <1>3
<1>5. ASSUME NEW r \in rows PROVE r[1] \in Names /\ r[1] \in Int
  <2>1. r \in Names \X Nat
    BY DEF Rows
  <2>2. r[1] \in Names
    BY <2>1
  <2>3. QED BY <2>2, NamesAreNumbers
<1>6. list \in Seq(Names) /\ Len(list) = n
  <2>1. list \in [1..n -> Names]
    BY <1>2, <1>3, <1>5
  <2>2. list \in Seq(Names)
    BY <1>1, <2>1
  <2>3. Len(list) = n
    BY <1>1, <2>1, <2>2
  <2>4. QED BY <2>2, <2>3
<1>7. ASSUME NEW i \in 1..n - 1 PROVE list[i] <= list[i + 1]
  <2>1. i \in 1..n /\ i + 1 \in 1..n /\ i - 1 \in Int
    BY <1>1
  <2>2. PICK r, s : r = At(i) /\ s = At(i + 1)
    OBVIOUS
  <2>3. r \in rows /\ s \in rows
    BY <1>2, <2>1, <2>2
  <2>4. Cardinality(Before(rows, r)) = i - 1 /\ Cardinality(Before(rows, s)) = i
    <3>1. (i + 1) - 1 = i
      BY <2>1
    <3>2. Cardinality(Before(rows, At(i + 1))) = (i + 1) - 1
      BY <1>2, <2>1
    <3>3. QED BY <1>2, <2>1, <2>2, <3>1, <3>2
  <2>5. s \notin Before(rows, r)
    <3>1. s \in Before(rows, r) => Cardinality(Before(rows, s)) < Cardinality(Before(rows, r))
      BY <2>3, RowRanks
    <3>2. QED BY <2>1, <2>4, <3>1
  <2>6. ~(s[1] < r[1])
    BY <2>3, <2>5 DEF Before
  <2>7. r[1] <= s[1]
    BY <1>5, <2>3, <2>6
  <2>8. QED BY <1>4, <2>1, <2>2, <2>7
<1>8. ASSUME NEW r \in rows PROVE \E i \in 1..n : list[i] = r[1]
  <2>1. PICK k : k = Cardinality(Before(rows, r))
    OBVIOUS
  <2>2. k \in Nat /\ k < n
    BY <2>1, RowRanks DEF n
  <2>3. k + 1 \in 1..n /\ (k + 1) - 1 = k
    BY <1>1, <2>2
  <2>4. At(k + 1) \in rows /\ Cardinality(Before(rows, At(k + 1))) = k
    BY <1>2, <2>3
  <2>5. At(k + 1) = r
    BY <2>1, <2>4, RowRanks
  <2>6. QED BY <1>4, <2>3, <2>5
<1>9. QED BY <1>0, <1>2, <1>4, <1>6, <1>7, <1>8 DEF ListOf

-----------------------------------------------------------------------------
(* The table never has more than finitely many rows.                       *)

Pairs == {pair \in Names \X Names : memberShip[pair] > 0}

FewRows == IsFiniteSet(Pairs)

LEMMA FewRowsNext == FriendsTypeOK /\ FewRows /\ [FriendsNext]_vars => FewRows'
<1> SUFFICES ASSUME FriendsTypeOK, FewRows, [FriendsNext]_vars PROVE FewRows'
  OBVIOUS
<1>1. CASE UNCHANGED memberShip
  BY <1>1 DEF FewRows, Pairs
<1>2. ASSUME NEW me \in Names, NEW f \in Names, AcceptFriend(me, f) \/ DeleteFriend(me, f)
      PROVE  FewRows'
  <2>1. OthersStay(me, f)
    BY <1>2, AcceptSteps, DeleteSteps
  <2>2. IsFiniteSet((Pairs \cup {<<me, f>>}) \cup {<<f, me>>})
    <3>1. IsFiniteSet(Pairs \cup {<<me, f>>})
      BY FS_AddElement DEF FewRows
    <3>2. QED BY <3>1, FS_AddElement
  <2>3. Pairs' \subseteq (Pairs \cup {<<me, f>>}) \cup {<<f, me>>}
    BY <2>1 DEF Pairs, OthersStay
  <2>4. QED BY <2>2, <2>3, PartOf DEF FewRows
<1>3. QED BY <1>1, <1>2 DEF FriendsNext, vars

LEMMA FewRowsInit == FriendsInit => FewRows
<1> SUFFICES ASSUME FriendsInit PROVE FewRows
  OBVIOUS
<1>1. Pairs = {}
  BY DEF FriendsInit, Pairs
<1>2. QED BY <1>1, FS_EmptySet DEF FewRows

LEMMA FriendRowsAre ==
  ASSUME FriendsTypeOK, FewRows, NEW me \in Names
  PROVE  /\ Rows(FriendRows(me))
         /\ \A r \in FriendRows(me) : r[1] \in Names /\ IsAFriend(me, r[1])
         /\ \A f \in Names : IsAFriend(me, f) => <<f, 1>> \in FriendRows(me)
<1> DEFINE friends == {f \in Names : memberShip[<<me, f>>] > 0}
           second == [pair \in Pairs |-> pair[2]]
           RowsOfOne(f) == {f} \X (1..memberShip[<<me, f>>])
           row == [f \in friends |-> RowsOfOne(f)]
           products == {row[f] : f \in friends}
<1>0. \A f \in Names : memberShip[<<me, f>>] \in Nat
  BY DEF FriendsTypeOK
<1>1. IsFiniteSet(friends)
  <2>1. IsFiniteSet({second[pair] : pair \in Pairs})
    <3>1. second = [pair \in Pairs |-> second[pair]]
      OBVIOUS
    <3> HIDE DEF second
    <3>2. QED BY <3>1, ImageOf DEF FewRows
  <2>2. ASSUME NEW f \in friends PROVE f \in {second[pair] : pair \in Pairs}
    <3>1. <<me, f>> \in Pairs
      BY DEF Pairs
    <3>2. second[<<me, f>>] = f
      BY <3>1
    <3>3. QED BY <3>1, <3>2
  <2>3. friends \subseteq {second[pair] : pair \in Pairs}
    BY <2>2
  <2>4. QED BY <2>1, <2>3, PartOf
<1>2. IsFiniteSet(products)
  <2>1. row = [f \in friends |-> row[f]]
    OBVIOUS
  <2> HIDE DEF row, friends
  <2>2. QED BY <1>1, <2>1, ImageOf
<1>3. ASSUME NEW f \in friends PROVE IsFiniteSet(RowsOfOne(f))
  <2>1. IsFiniteSet(1..memberShip[<<me, f>>])
    <3>1. memberShip[<<me, f>>] \in Int /\ 1 \in Int
      BY <1>0
    <3>2. QED BY <3>1, FS_Interval
  <2>2. IsFiniteSet({f})
    BY FS_Singleton
  <2>3. QED BY <2>1, <2>2, FS_Product
<1>4. \A P \in products : IsFiniteSet(P)
  BY <1>3
<1>5. IsFiniteSet(UNION products)
  BY <1>2, <1>4, FS_UNION
<1>6. ASSUME NEW r \in FriendRows(me)
      PROVE  \E f \in Names : \E k \in 1..memberShip[<<me, f>>] : r = <<f, k>> /\ f \in friends
  <2>1. PICK f \in Names : r \in {f} \X (1..memberShip[<<me, f>>])
    BY DEF FriendRows
  <2>2. PICK k \in 1..memberShip[<<me, f>>] : r = <<f, k>>
    BY <2>1
  <2>3. memberShip[<<me, f>>] > 0
    BY <1>0, <2>2
  <2>4. QED BY <2>2, <2>3
<1>7. FriendRows(me) \subseteq UNION products
  <2>1. ASSUME NEW r \in FriendRows(me) PROVE r \in UNION products
    <3>1. PICK f \in friends : \E k \in 1..memberShip[<<me, f>>] : r = <<f, k>>
      BY <1>6
    <3>2. r \in RowsOfOne(f)
      BY <3>1
    <3>3. RowsOfOne(f) \in products
      BY <3>1
    <3>4. QED BY <3>2, <3>3
  <2>2. QED BY <2>1
<1> HIDE DEF products
<1>8. IsFiniteSet(FriendRows(me))
  BY <1>5, <1>7, PartOf
<1>9. ASSUME NEW r \in FriendRows(me)
      PROVE  r \in Names \X Nat /\ r[1] \in Names /\ IsAFriend(me, r[1])
  <2>0. PICK f \in Names : \E k \in 1..memberShip[<<me, f>>] : r = <<f, k>> /\ f \in friends
    BY <1>6
  <2>1. PICK k \in 1..memberShip[<<me, f>>] : r = <<f, k>> /\ f \in friends
    BY <2>0
  <2>2. k \in Nat
    BY <1>0
  <2>3. r \in Names \X Nat
    BY <2>1, <2>2
  <2>4. r[1] = f
    BY <2>1
  <2>5. QED BY <2>1, <2>3, <2>4 DEF IsAFriend
<1>10. FriendRows(me) \subseteq Names \X Nat
  BY <1>9
<1>11. ASSUME NEW f \in Names, IsAFriend(me, f) PROVE <<f, 1>> \in FriendRows(me)
  <2>1. 1 \in 1..memberShip[<<me, f>>]
    BY <1>0, <1>11 DEF IsAFriend
  <2>2. <<f, 1>> \in {f} \X (1..memberShip[<<me, f>>])
    BY <2>1
  <2>3. QED BY <2>2 DEF FriendRows
<1>12. QED BY <1>8, <1>9, <1>10, <1>11 DEF Rows

LEMMA ListsAreCovered == FriendsTypeOK /\ FewRows => PagesCover
<1> SUFFICES ASSUME FriendsTypeOK, FewRows, NEW me \in Names
             PROVE  LET list == FriendList(me)
                    IN  /\ Seen(list) = list
                        /\ \A i \in 1..PageNums(Len(list)) : Page(list, i) # <<>>
                        /\ \A i \in 1..Len(list) - 1 : list[i] <= list[i + 1]
                        /\ \A f \in Names :
                             IsAFriend(me, f) <=> \E i \in 1..Len(list) : list[i] = f
  BY DEF PagesCover
<1>1. Rows(FriendRows(me))
  BY FriendRowsAre
<1>2. PICK list : list = FriendList(me)
  OBVIOUS
<1>3. /\ list \in Seq(Names)
      /\ \A i \in 1..Len(list) - 1 : list[i] <= list[i + 1]
      /\ \A i \in 1..Len(list) : \E r \in FriendRows(me) : list[i] = r[1]
      /\ \A r \in FriendRows(me) : \E i \in 1..Len(list) : list[i] = r[1]
  <2>1. FriendList(me) = InOrder(FriendRows(me))
    BY DEF FriendList, InOrder
  <2>2. ListOf(list, FriendRows(me))
    BY <1>1, <1>2, <2>1, SortedRows
  <2>3. QED BY <2>2 DEF ListOf
<1>4. Seen(list) = list
  BY <1>3, AllIsSeen
<1>5. ASSUME NEW i \in 1..PageNums(Len(list)) PROVE Page(list, i) # <<>>
  <2>1. Len(Page(list, i)) \in 1..PageSize
    BY <1>3, PagesCoverAnyList
  <2>2. QED BY <2>1
<1>6. ASSUME NEW f \in Names
      PROVE  IsAFriend(me, f) <=> \E i \in 1..Len(list) : list[i] = f
  <2>1. ASSUME IsAFriend(me, f) PROVE \E i \in 1..Len(list) : list[i] = f
    <3>1. <<f, 1>> \in FriendRows(me)
      BY <2>1, FriendRowsAre
    <3>2. <<f, 1>>[1] = f
      OBVIOUS
    <3>3. QED BY <1>3, <3>1, <3>2
  <2>2. ASSUME NEW i \in 1..Len(list), list[i] = f PROVE IsAFriend(me, f)
    <3>1. PICK r \in FriendRows(me) : list[i] = r[1]
      BY <1>3
    <3>2. QED BY <2>2, <3>1, FriendRowsAre
  <2>3. QED BY <2>1, <2>2
<1>7. QED BY <1>2, <1>3, <1>4, <1>5, <1>6

\* A client that asks for page after page of its friends until one is empty has
\* seen the whole list, whatever its length and the size of a page, sorted and
\* with each friend and nobody else on it (CDBOperator::GetFriendList,
\* Handle_User_Get_Friend_List).
THEOREM EveryFriendIsSeen == FriendsSpec => []PagesCover
<1>1. FriendsTypeOK /\ FewRows /\ [FriendsNext]_vars => (FriendsTypeOK /\ FewRows)'
  BY FriendsTypeNext, FewRowsNext
<1>2. QED
  BY <1>1, FriendsTypeInit, FewRowsInit, ListsAreCovered, PTL DEF FriendsSpec

--------------------------------------------------------------------------------
(* The ids of a user's messages, in order.                                  *)

Ids(ids) == IsFiniteSet(ids) /\ ids \subseteq Nat

Rank(ids, id) == Cardinality(Below(ids, id))

LEMMA IdRanks ==
  ASSUME NEW ids, Ids(ids)
  PROVE  /\ Cardinality(ids) \in Nat
         /\ \A k \in 1..Cardinality(ids) : \E id \in ids : Rank(ids, id) = k - 1
         /\ \A i, j \in ids : Rank(ids, i) = Rank(ids, j) => i = j
         /\ \A i \in ids : Rank(ids, i) \in Nat /\ Rank(ids, i) < Cardinality(ids)
         /\ \A i, j \in ids : i < j => Rank(ids, i) < Rank(ids, j)
<1> DEFINE before == [id \in ids |-> Below(ids, id)]
<1>1. before \in [ids -> SUBSET ids] /\ \A id \in ids : before[id] = Below(ids, id)
  BY DEF Below
<1> HIDE DEF before
<1>2. \A i \in ids : i \in Int
  BY DEF Ids
<1>3. ASSUME NEW i \in ids, NEW j \in ids
      PROVE  /\ i # j => i \in before[j] \/ j \in before[i]
             /\ i \in before[j] => before[i] \cup {i} \subseteq before[j]
             /\ i \notin before[i]
             /\ i < j => i \in before[j]
  <2>1. before[i] = {m \in ids : m < i} /\ before[j] = {m \in ids : m < j}
    BY <1>1 DEF Below
  <2>2. QED BY <1>2, <2>1
<1>4. Orders(ids, before)
  BY <1>1, <1>3 DEF Orders, Ids
<1>5. /\ Cardinality(ids) \in Nat
      /\ \A k \in 1..Cardinality(ids) : \E id \in ids : Cardinality(before[id]) = k - 1
      /\ \A i, j \in ids : Cardinality(before[i]) = Cardinality(before[j]) => i = j
  BY <1>4, AtEveryPlace
<1>6. ASSUME NEW i \in ids
      PROVE  /\ Cardinality(before[i]) \in Nat /\ Cardinality(before[i]) < Cardinality(ids)
             /\ \A j \in ids : i \in before[j] => Cardinality(before[i]) < Cardinality(before[j])
  BY <1>4, Ranks
<1>7. \A id \in ids : Rank(ids, id) = Cardinality(before[id])
  BY <1>1 DEF Rank
<1>8. QED BY <1>3, <1>5, <1>6, <1>7

LEMMA RanksOrder ==
  ASSUME NEW ids, Ids(ids), NEW i \in ids, NEW j \in ids, Rank(ids, i) < Rank(ids, j)
  PROVE  i < j
<1>1. i \in Int /\ j \in Int
  BY DEF Ids
<1>2. Rank(ids, i) \in Nat /\ Rank(ids, j) \in Nat
  BY IdRanks
<1>3. ~(j < i)
  <2>1. j < i => Rank(ids, j) < Rank(ids, i)
    BY IdRanks
  <2>2. QED BY <1>2, <2>1
<1>4. i # j
  BY <1>2
<1>5. QED BY <1>1, <1>3, <1>4

\* The sorted list.
IdList(ids) ==
  [k \in 1..Cardinality(ids) |->
     CHOOSE id \in ids : Cardinality(Below(ids, id)) = k - 1]

LEMMA IdListIs ==
  ASSUME NEW ids, Ids(ids)
  PROVE  /\ IdList(ids) \in Seq(ids) /\ Len(IdList(ids)) = Cardinality(ids)
         /\ \A k \in 1..Cardinality(ids) :
              IdList(ids)[k] \in ids /\ Rank(ids, IdList(ids)[k]) = k - 1
         /\ \A id \in ids : /\ Rank(ids, id) + 1 \in 1..Cardinality(ids)
                            /\ IdList(ids)[Rank(ids, id) + 1] = id
<1> DEFINE n == Cardinality(ids)
           At(k) == CHOOSE id \in ids : Cardinality(Below(ids, id)) = k - 1
<1>1. n \in Nat
  BY IdRanks
<1>2. ASSUME NEW k \in 1..n PROVE At(k) \in ids /\ Rank(ids, At(k)) = k - 1
  <2>1. \E id \in ids : Cardinality(Below(ids, id)) = k - 1
    BY IdRanks DEF Rank
  <2>2. QED BY <2>1 DEF Rank
<1>3. IdList(ids) = [k \in 1..n |-> At(k)]
  BY DEF IdList
<1> HIDE DEF n, At
<1>4. IdList(ids) \in [1..n -> ids] /\ \A k \in 1..n : IdList(ids)[k] = At(k)
  BY <1>2, <1>3
<1>5. IdList(ids) \in Seq(ids)
  BY <1>1, <1>4
<1>6. Len(IdList(ids)) = n
  BY <1>1, <1>4, <1>5
<1>7. ASSUME NEW id \in ids
      PROVE  Rank(ids, id) + 1 \in 1..n /\ IdList(ids)[Rank(ids, id) + 1] = id
  <2>1. PICK r : r = Rank(ids, id)
    OBVIOUS
  <2>2. r \in Nat /\ r < n
    BY <2>1, IdRanks DEF n
  <2>3. r + 1 \in 1..n /\ (r + 1) - 1 = r
    BY <1>1, <2>2
  <2>4. At(r + 1) \in ids /\ Rank(ids, At(r + 1)) = r
    BY <1>2, <2>3
  <2>5. At(r + 1) = id
    BY <2>1, <2>4, IdRanks
  <2>6. QED BY <1>4, <2>1, <2>3, <2>5
<1>8. QED BY <1>2, <1>4, <1>5, <1>6, <1>7 DEF n

\* The first k of them, as many as there are.
First(ids, k) == {id \in ids : Rank(ids, id) < k}

LEMMA FirstCounts ==
  ASSUME NEW ids, Ids(ids), NEW k \in Nat
  PROVE  /\ IsFiniteSet(First(ids, k)) /\ Cardinality(First(ids, k)) \in Nat
         /\ Cardinality(First(ids, k)) <= k
         /\ k <= Cardinality(ids) => Cardinality(First(ids, k)) = k
         /\ k >= Cardinality(ids) => First(ids, k) = ids
<1> DEFINE F == First(ids, k)
           rank == [id \in F |-> Rank(ids, id)]
<1>1. F \subseteq ids
  BY DEF First
<1>2. IsFiniteSet(F) /\ Cardinality(F) \in Nat
  BY <1>1, PartOf DEF Ids
<1>3. IsFiniteSet(0..k - 1) /\ Cardinality(0..k - 1) = k
  <2>1. 0 \in Int /\ k - 1 \in Int
    OBVIOUS
  <2>2. IsFiniteSet(0..k - 1) /\ Cardinality(0..k - 1) = IF 0 > k - 1 THEN 0 ELSE k - 1 - 0 + 1
    BY <2>1, FS_Interval
  <2>3. QED BY <2>2
<1>4. \A id \in F : Rank(ids, id) \in 0..k - 1
  <2>1. ASSUME NEW id \in F PROVE Rank(ids, id) \in 0..k - 1
    <3>1. id \in ids /\ Rank(ids, id) < k
      BY DEF First
    <3>2. Rank(ids, id) \in Nat
      BY <3>1, IdRanks
    <3>3. QED BY <3>1, <3>2
  <2>2. QED BY <2>1
<1>5. \A i, j \in F : Rank(ids, i) = Rank(ids, j) => i = j
  BY <1>1, IdRanks
<1> HIDE DEF F
<1>6. rank \in Injection(F, 0..k - 1)
  <2>1. rank \in [F -> 0..k - 1] /\ \A i, j \in F : rank[i] = rank[j] => i = j
    BY <1>4, <1>5
  <2> HIDE DEF rank
  <2>2. QED BY <2>1 DEF Injection, IsInjective
<1>7. Cardinality(F) <= k
  <2> HIDE DEF rank
  <2>1. QED BY <1>3, <1>6, FS_Injection
<1>8. ASSUME k <= Cardinality(ids) PROVE Cardinality(F) = k
  <2>1. ASSUME NEW i \in 0..k - 1 PROVE \E id \in F : rank[id] = i
    <3>1. i + 1 \in 1..Cardinality(ids) /\ (i + 1) - 1 = i
      BY <1>8, IdRanks
    <3>2. PICK id \in ids : Rank(ids, id) = i
      BY <3>1, IdRanks
    <3>3. id \in F
      BY <3>2 DEF F, First
    <3>4. QED BY <3>2, <3>3
  <2>2. rank \in Surjection(F, 0..k - 1)
    <3>1. rank \in [F -> 0..k - 1]
      BY <1>4
    <3> HIDE DEF rank
    <3>2. QED BY <2>1, <3>1 DEF Surjection
  <2>3. k <= Cardinality(F)
    <3> HIDE DEF rank
    <3>1. QED BY <1>2, <1>3, <2>2, FS_Surjection
  <2>4. QED BY <1>2, <1>7, <2>3
<1>9. ASSUME k >= Cardinality(ids) PROVE F = ids
  <2>1. ASSUME NEW id \in ids PROVE id \in F
    <3>1. Rank(ids, id) \in Nat /\ Rank(ids, id) < Cardinality(ids) /\ Cardinality(ids) \in Nat
      BY IdRanks
    <3>2. QED BY <1>9, <3>1 DEF F, First
  <2>2. QED BY <1>1, <2>1
<1>10. QED BY <1>2, <1>7, <1>8, <1>9 DEF F

\* Deleting some lets others move up, but no more than were deleted.
LEMMA MoveUp ==
  ASSUME NEW ids, Ids(ids), NEW rest, rest \subseteq ids, NEW k \in Nat
  PROVE  /\ Ids(rest)
         /\ First(ids, k) \cap rest \subseteq First(rest, k)
         /\ IsFiniteSet(First(rest, k) \ First(ids, k))
         /\ Cardinality(First(rest, k) \ First(ids, k)) \in Nat
         /\ Cardinality(ids \ rest) \in Nat
         /\ Cardinality(First(rest, k) \ First(ids, k)) <= Cardinality(ids \ rest)
<1> DEFINE F == First(ids, k)
           G == First(rest, k)
           D == ids \ rest
<1>1. Ids(rest)
  BY PartOf DEF Ids
<1>2. F \subseteq ids /\ G \subseteq rest /\ D \subseteq ids
  BY DEF First
<1>3. F \cap rest \subseteq G
  <2>1. ASSUME NEW id \in F \cap rest PROVE id \in G
    <3>1. Below(rest, id) \subseteq Below(ids, id) /\ Below(ids, id) \subseteq ids
      BY DEF Below
    <3>2. IsFiniteSet(Below(ids, id)) /\ Cardinality(Below(ids, id)) \in Nat
      BY <3>1, PartOf DEF Ids
    <3>3. Cardinality(Below(rest, id)) \in Nat
          /\ Cardinality(Below(rest, id)) <= Cardinality(Below(ids, id))
      BY <3>1, <3>2, PartOf
    <3>4. Cardinality(Below(ids, id)) < k
      BY <2>1 DEF First, Rank
    <3>5. Cardinality(Below(rest, id)) < k
      BY <3>2, <3>3, <3>4
    <3>6. QED BY <2>1, <3>5 DEF First, Rank
  <2>2. QED BY <2>1
<1>4. /\ IsFiniteSet(F) /\ Cardinality(F) \in Nat /\ Cardinality(F) <= k
      /\ k <= Cardinality(ids) => Cardinality(F) = k
      /\ k >= Cardinality(ids) => F = ids
  BY FirstCounts
<1>5. IsFiniteSet(G) /\ Cardinality(G) \in Nat /\ Cardinality(G) <= k
  BY <1>1, FirstCounts
<1>6. Cardinality(ids) \in Nat
  BY IdRanks
<1> HIDE DEF F, G
<1>7. IsFiniteSet(D) /\ Cardinality(D) \in Nat
  BY <1>2, PartOf DEF Ids
<1>8. IsFiniteSet(G \ F) /\ Cardinality(G \ F) \in Nat
  <2>1. G \ F \subseteq G
    OBVIOUS
  <2>2. QED BY <1>5, <2>1, PartOf
<1>9. CASE k >= Cardinality(ids)
  <2>1. G \ F = {}
    BY <1>2, <1>4, <1>9
  <2>2. Cardinality(G \ F) = 0
    BY <2>1, FS_EmptySet
  <2>3. QED BY <1>1, <1>3, <1>7, <1>8, <2>2 DEF F, G
<1>10. CASE k < Cardinality(ids)
  <2>1. Cardinality(F) = k
    BY <1>4, <1>6, <1>10
  <2>2. PICK U : U = F \cap rest
    OBVIOUS
  <2>3. IsFiniteSet(U) /\ Cardinality(U) \in Nat
    <3>1. U \subseteq F
      BY <2>2
    <3>2. QED BY <1>4, <3>1, PartOf
  <2>4. Cardinality(F) <= Cardinality(U) + Cardinality(D)
    <3>1. F \subseteq U \cup D
      BY <1>2, <2>2
    <3>2. IsFiniteSet(U \cup D)
          /\ Cardinality(U \cup D) = Cardinality(U) + Cardinality(D) - Cardinality(U \cap D)
      BY <1>7, <2>3, FS_Union
    <3>3. U \cap D = {}
      BY <2>2
    <3>4. Cardinality(U \cap D) = 0
      BY <3>3, FS_EmptySet
    <3>5. Cardinality(F) <= Cardinality(U \cup D)
      BY <3>1, <3>2, PartOf
    <3>6. QED BY <1>4, <1>7, <2>3, <3>2, <3>4, <3>5
  <2>5. Cardinality(U) + Cardinality(G \ F) <= Cardinality(G)
    <3>1. U \cup (G \ F) \subseteq G /\ U \cap (G \ F) = {}
      BY <1>3, <2>2
    <3>2. IsFiniteSet(U \cup (G \ F)) /\ Cardinality(U \cup (G \ F))
            = Cardinality(U) + Cardinality(G \ F) - Cardinality(U \cap (G \ F))
      BY <1>8, <2>3, FS_Union
    <3>3. Cardinality(U \cap (G \ F)) = 0
      BY <3>1, FS_EmptySet
    <3>4. Cardinality(U \cup (G \ F)) <= Cardinality(G)
      BY <1>5, <3>1, PartOf
    <3>5. QED BY <1>5, <1>8, <2>3, <3>2, <3>3, <3>4
  <2>6. Cardinality(G \ F) <= Cardinality(D)
    BY <1>5, <1>7, <1>8, <2>1, <2>3, <2>4, <2>5
  <2>7. QED BY <1>1, <1>3, <1>7, <1>8, <2>6 DEF F, G
<1>11. QED BY <1>6, <1>9, <1>10

--------------------------------------------------------------------------------
(* An app that reads.  What is behind the pages it asked for is newer than  *)
(* all it has shown; and of those on the pages it asked for it has missed   *)
(* no more than were deleted.                                               *)

Asked(app) == PageSize * (app.page - 1)

Unseen(app, ids) ==
  {id \in ids \cap app.there : \A k \in 1..Len(app.shown) : app.shown[k] # id}

InOrderSoFar(app, ids, last) ==
  /\ \A i, j \in 1..Len(app.shown) : i < j => app.shown[i] < app.shown[j]
  /\ \A k \in 1..Len(app.shown) : app.shown[k] <= last
  /\ app.there \subseteq 1..last
  /\ \A id \in ids \ First(ids, Asked(app)) : \A k \in 1..Len(app.shown) : app.shown[k] < id

FewMissed(app, ids) ==
  LET missed == IF app.over THEN Unseen(app, ids)
                ELSE Unseen(app, ids) \cap First(ids, Asked(app))
  IN  Cardinality(missed) <= app.removed

ReadInv(app, ids, last) == InOrderSoFar(app, ids, last) /\ FewMissed(app, ids)

LEMMA Elements ==
  ASSUME NEW S, NEW s \in Seq(S)
  PROVE  Len(s) \in Nat /\ \A k \in 1..Len(s) : s[k] \in S
OBVIOUS

LEMMA LargerSeq ==
  ASSUME NEW S, NEW T, S \subseteq T, NEW s \in Seq(S)
  PROVE  s \in Seq(T)
<1>1. Len(s) \in Nat /\ s \in [1..Len(s) -> S]
  OBVIOUS
<1>2. s \in [1..Len(s) -> T]
  BY <1>1
<1>3. QED BY <1>1, <1>2

LEMMA AppTypes ==
  ASSUME NEW app \in Reading
  PROVE  /\ Asked(app) \in Nat /\ app.page \in Nat /\ app.page >= 1
         /\ app.shown \in Seq(1..MaxMessages) /\ Len(app.shown) \in Nat
         /\ \A k \in 1..Len(app.shown) : app.shown[k] \in Nat
         /\ app.removed \in Nat /\ app.over \in BOOLEAN
<1>1. /\ app.page \in Nat \ {0} /\ app.shown \in Seq(1..MaxMessages)
      /\ app.removed \in Nat /\ app.over \in BOOLEAN
  BY DEF Reading
<1>2. Len(app.shown) \in Nat /\ \A k \in 1..Len(app.shown) : app.shown[k] \in Nat
  <2>1. PICK shown \in Seq(1..MaxMessages) : shown = app.shown
    BY <1>1
  <2>2. Len(shown) \in Nat /\ \A k \in 1..Len(shown) : shown[k] \in 1..MaxMessages
    BY Elements
  <2>3. \A k \in 1..Len(shown) : shown[k] \in Nat
    BY <2>2, MessagesAssumption
  <2>4. QED BY <2>1, <2>2, <2>3
<1>3. PICK m \in Nat : m = app.page - 1
  BY <1>1
<1>4. PageSize * m \in Nat
  BY Positive DEF PageSizePositive
<1>5. QED BY <1>1, <1>2, <1>3, <1>4 DEF Asked

\* A message arrives: behind all others, and not one of those that were there.
LEMMA Arrives ==
  ASSUME NEW app \in Reading, NEW last \in Nat, NEW ids, Ids(ids), ids \subseteq 1..last,
         ReadInv(app, ids, last)
  PROVE  ReadInv(app, ids \cup {last + 1}, last + 1) /\ ReadInv(app, ids, last + 1)
<1> DEFINE more == ids \cup {last + 1}
           k == Asked(app)
<1>1. \A id \in ids : id \in Nat /\ id <= last
  BY DEF Ids
<1>2. Ids(more)
  BY FS_AddElement DEF Ids
<1>3. k \in Nat
  BY AppTypes
<1>4. ASSUME NEW id \in ids PROVE Rank(more, id) = Rank(ids, id)
  <2>1. Below(more, id) = Below(ids, id)
    BY <1>1 DEF Below
  <2>2. QED BY <2>1 DEF Rank
<1> HIDE DEF k
<1>5. First(more, k) \cap ids = First(ids, k)
  BY <1>4 DEF First
<1>6. /\ \A i, j \in 1..Len(app.shown) : i < j => app.shown[i] < app.shown[j]
      /\ \A i \in 1..Len(app.shown) : app.shown[i] <= last
      /\ app.there \subseteq 1..last
      /\ \A id \in ids \ First(ids, k) : \A i \in 1..Len(app.shown) : app.shown[i] < id
  BY DEF ReadInv, InOrderSoFar, k
<1>7. \A i \in 1..Len(app.shown) : app.shown[i] <= last + 1 /\ app.shown[i] < last + 1
  <2>1. ASSUME NEW i \in 1..Len(app.shown) PROVE app.shown[i] <= last + 1 /\ app.shown[i] < last + 1
    <3>1. app.shown[i] \in Nat /\ app.shown[i] <= last
      BY <1>6, AppTypes
    <3>2. QED BY <3>1
  <2>2. QED BY <2>1
<1>8. app.there \subseteq 1..last + 1 /\ last + 1 \notin app.there
  <2>1. 1..last \subseteq 1..last + 1 /\ last + 1 \notin 1..last
    OBVIOUS
  <2>2. QED BY <1>6, <2>1
<1>9. InOrderSoFar(app, more, last + 1) /\ InOrderSoFar(app, ids, last + 1)
  <2>1. \A id \in more \ First(more, k) : \A i \in 1..Len(app.shown) : app.shown[i] < id
    BY <1>5, <1>6, <1>7
  <2>2. QED BY <1>6, <1>7, <1>8, <2>1 DEF InOrderSoFar, k
<1>10. Unseen(app, more) = Unseen(app, ids)
  BY <1>8 DEF Unseen
<1>11. Unseen(app, ids) \subseteq ids
  BY DEF Unseen
<1>12. Unseen(app, more) \cap First(more, k) = Unseen(app, ids) \cap First(ids, k)
  BY <1>5, <1>10, <1>11
<1>13. FewMissed(app, more)
  BY <1>10, <1>12 DEF ReadInv, FewMissed, k
<1>14. QED BY <1>9, <1>13 DEF ReadInv

\* Some are deleted: as many may move onto pages already asked for.
LEMMA Deletes ==
  ASSUME NEW app \in Reading, NEW last \in Nat, NEW ids, Ids(ids), ReadInv(app, ids, last),
         NEW rest, rest \subseteq ids, NEW d \in Nat, Cardinality(ids \ rest) <= d
  PROVE  /\ app.over => ReadInv(app, rest, last)
         /\ ~app.over => ReadInv([app EXCEPT !.removed = @ + d], rest, last)
<1> DEFINE k == Asked(app)
           Missed(set) == Unseen(app, set) \cap First(set, k)
<1>1. k \in Nat /\ app.removed \in Nat
  BY AppTypes
<1>2. /\ Ids(rest) /\ First(ids, k) \cap rest \subseteq First(rest, k)
      /\ IsFiniteSet(First(rest, k) \ First(ids, k))
      /\ Cardinality(First(rest, k) \ First(ids, k)) \in Nat
      /\ Cardinality(ids \ rest) \in Nat
      /\ Cardinality(First(rest, k) \ First(ids, k)) <= Cardinality(ids \ rest)
  BY <1>1, MoveUp
<1> HIDE DEF k
<1>3. /\ \A i, j \in 1..Len(app.shown) : i < j => app.shown[i] < app.shown[j]
      /\ \A i \in 1..Len(app.shown) : app.shown[i] <= last
      /\ app.there \subseteq 1..last
      /\ \A id \in ids \ First(ids, k) : \A i \in 1..Len(app.shown) : app.shown[i] < id
  BY DEF ReadInv, InOrderSoFar, k
<1>4. \A id \in rest \ First(rest, k) : \A i \in 1..Len(app.shown) : app.shown[i] < id
  BY <1>2, <1>3
<1>5. IsFiniteSet(Unseen(app, ids)) /\ Unseen(app, rest) \subseteq Unseen(app, ids)
  <2>1. Unseen(app, ids) \subseteq ids /\ Unseen(app, rest) \subseteq Unseen(app, ids)
    BY DEF Unseen
  <2>2. QED BY <2>1, PartOf DEF Ids
<1>6. ASSUME app.over PROVE ReadInv(app, rest, last)
  <2>1. InOrderSoFar(app, rest, last)
    BY <1>3, <1>4 DEF InOrderSoFar, k
  <2>2. Cardinality(Unseen(app, ids)) <= app.removed
    BY <1>6 DEF ReadInv, FewMissed
  <2>3. Cardinality(Unseen(app, rest)) <= app.removed
    <3>1. /\ Cardinality(Unseen(app, rest)) \in Nat /\ Cardinality(Unseen(app, ids)) \in Nat
          /\ Cardinality(Unseen(app, rest)) <= Cardinality(Unseen(app, ids))
      BY <1>5, PartOf
    <3>2. QED BY <1>1, <2>2, <3>1
  <2>4. QED BY <1>6, <2>1, <2>3 DEF ReadInv, FewMissed
<1>7. ASSUME ~app.over PROVE ReadInv([app EXCEPT !.removed = @ + d], rest, last)
  <2>1. PICK next : next = [app EXCEPT !.removed = @ + d]
    OBVIOUS
  <2>2. /\ next.page = app.page /\ next.shown = app.shown /\ next.there = app.there
        /\ next.over = app.over /\ next.removed = app.removed + d
    BY <2>1 DEF Reading
  <2>3. Asked(next) = k
    BY <2>2 DEF Asked, k
  <2>4. InOrderSoFar(next, rest, last)
    BY <1>3, <1>4, <2>2, <2>3 DEF InOrderSoFar
  <2>5. Unseen(next, rest) = Unseen(app, rest)
    BY <2>2 DEF Unseen
  <2>6. Cardinality(Missed(ids)) <= app.removed
    BY <1>7 DEF ReadInv, FewMissed, k
  <2>7. Missed(rest) \subseteq Missed(ids) \cup (First(rest, k) \ First(ids, k))
    BY <1>5
  <2>8. IsFiniteSet(Missed(ids)) /\ Cardinality(Missed(ids)) \in Nat
    <3>1. Missed(ids) \subseteq Unseen(app, ids)
      OBVIOUS
    <3>2. QED BY <1>5, <3>1, PartOf
  <2> HIDE DEF Missed
  <2>9. Cardinality(Missed(rest)) <= Cardinality(Missed(ids))
          + Cardinality(First(rest, k) \ First(ids, k))
    <3>1. PICK A, B : A = Missed(ids) /\ B = First(rest, k) \ First(ids, k)
      OBVIOUS
    <3>2. /\ IsFiniteSet(A \cup B)
          /\ Cardinality(A \cup B) = Cardinality(A) + Cardinality(B) - Cardinality(A \cap B)
      BY <1>2, <2>8, <3>1, FS_Union
    <3>3. Cardinality(A \cap B) \in Nat
      <4>1. A \cap B \subseteq A
        OBVIOUS
      <4>2. QED BY <2>8, <3>1, <4>1, PartOf
    <3>4. Cardinality(Missed(rest)) \in Nat /\ Cardinality(Missed(rest)) <= Cardinality(A \cup B)
          /\ Cardinality(A \cup B) \in Nat
      BY <2>7, <3>1, <3>2, PartOf
    <3>5. Cardinality(A) \in Nat /\ Cardinality(B) \in Nat
      BY <1>2, <2>8, <3>1
    <3>6. Cardinality(Missed(rest)) <= Cardinality(A) + Cardinality(B)
      BY <3>2, <3>3, <3>4, <3>5
    <3>7. QED BY <3>1, <3>6
  <2>10. Cardinality(Missed(rest)) \in Nat
    <3>1. Missed(rest) \subseteq Unseen(app, ids)
      BY <1>5 DEF Missed
    <3>2. QED BY <1>5, <3>1, PartOf
  <2>11. Cardinality(Missed(rest)) <= app.removed + d
    BY <1>1, <1>2, <2>6, <2>8, <2>9, <2>10
  <2>12. FewMissed(next, rest)
    BY <1>7, <2>2, <2>3, <2>5, <2>11 DEF FewMissed, Missed
  <2>13. QED BY <2>1, <2>4, <2>12 DEF ReadInv
<1>8. QED BY <1>6, <1>7

\* The first page is asked for.
LEMMA Starts ==
  ASSUME NEW last \in Nat, NEW ids, Ids(ids), ids \subseteq 1..last
  PROVE  ReadInv(FirstPage(ids), ids, last)
<1>1. PICK app : app = FirstPage(ids)
  OBVIOUS
<1>2. /\ app.page = 1 /\ app.shown = <<>> /\ app.there = ids /\ app.removed = 0
      /\ app.over = FALSE
  BY <1>1 DEF FirstPage
<1>3. Asked(app) = 0
  <2>1. PageSize * 0 = 0 /\ 1 - 1 = 0
    BY Positive DEF PageSizePositive
  <2>2. QED BY <1>2, <2>1 DEF Asked
<1>4. First(ids, 0) = {}
  BY IdRanks DEF First
<1>5. 1..Len(app.shown) = {}
  BY <1>2
<1>6. InOrderSoFar(app, ids, last)
  BY <1>2, <1>5 DEF InOrderSoFar
<1>7. Cardinality(Unseen(app, ids) \cap First(ids, 0)) = 0
  <2>1. Unseen(app, ids) \cap First(ids, 0) = {}
    BY <1>4
  <2>2. QED BY <2>1, FS_EmptySet
<1>8. FewMissed(app, ids)
  BY <1>2, <1>3, <1>7 DEF FewMissed
<1>9. QED BY <1>1, <1>6, <1>8 DEF ReadInv

\* What is on the next page: not shown before, in order, and the last that
\* were missing on the pages asked for.
LEMMA NextEntries ==
  ASSUME NEW app \in Reading, NEW last \in Nat, NEW ids, Ids(ids), ReadInv(app, ids, last),
         app.page <= PageNums(Cardinality(ids))
  PROVE  LET page == Page(IdList(ids), app.page)
             k == Asked(app)
         IN  /\ page \in Seq(ids)
             /\ Len(page) = Smaller(PageSize, Cardinality(ids) - k)
             /\ \A j \in 1..Len(page) : /\ page[j] \in ids /\ Rank(ids, page[j]) = k + j - 1
                                        /\ \A i \in 1..Len(app.shown) : app.shown[i] < page[j]
             /\ \A i, j \in 1..Len(page) : i < j => page[i] < page[j]
             /\ \A id \in ids : Rank(ids, id) >= k /\ Rank(ids, id) < k + PageSize =>
                  \E j \in 1..Len(page) : page[j] = id
<1> DEFINE page == Page(IdList(ids), app.page)
           k == Asked(app)
           n == Cardinality(ids)
<1>1. k \in Nat /\ app.page \in Nat /\ app.page >= 1 /\ n \in Nat
      /\ PageSize \in Nat /\ PageSize >= 1 /\ PageNums(n) \in Nat
  BY AppTypes, IdRanks, PagesNeeded, Positive DEF PageSizePositive
<1>2. /\ IdList(ids) \in Seq(ids) /\ Len(IdList(ids)) = n
      /\ \A i \in 1..n : IdList(ids)[i] \in ids /\ Rank(ids, IdList(ids)[i]) = i - 1
      /\ \A id \in ids : /\ Rank(ids, id) + 1 \in 1..n
                         /\ IdList(ids)[Rank(ids, id) + 1] = id
  BY IdListIs
<1>3. app.page \in 1..PageNums(Len(IdList(ids)))
  BY <1>1, <1>2
<1>4. /\ k < n /\ Len(page) = Smaller(PageSize, n - k)
      /\ \A j \in 1..Len(page) : page[j] = IdList(ids)[k + j]
  <2>1. PICK list \in Seq(ids) : list = IdList(ids)
    BY <1>2
  <2>2. PICK i \in 1..PageNums(Len(list)) : i = app.page
    BY <1>3, <2>1
  <2>3. LET before == PageSize * (i - 1)
            p == Page(list, i)
        IN  /\ before \in Nat /\ before < Len(list)
            /\ Len(p) = Smaller(PageSize, Len(list) - before)
            /\ \A j \in 1..Len(p) : p[j] = list[before + j]
    BY PageIs
  <2>4. QED BY <1>2, <2>1, <2>2, <2>3 DEF Asked
<1>5. page \in Seq(ids)
  <2>1. PICK first, end :
          first = PageSize * (app.page - 1) + 1 /\ end = Smaller(PageSize * app.page, n)
    OBVIOUS
  <2>2. page = SubSeq(IdList(ids), first, end)
    BY <1>2, <1>3, <2>1 DEF Page
  <2>3. first = k + 1 /\ PageSize * app.page = k + PageSize
    <3>1. PICK x \in Int : x = app.page - 1
      BY <1>1
    <3>2. x + 1 = app.page
      BY <1>1, <3>1
    <3>3. PageSize * (x + 1) = PageSize * x + PageSize
      BY NextMultiple
    <3>4. QED BY <2>1, <3>1, <3>2, <3>3 DEF Asked
  <2>4. first \in 1..n /\ end \in 1..n
    <3>1. end = Smaller(k + PageSize, n)
      BY <2>1, <2>3
    <3> HIDE DEF k, n
    <3>2. QED BY <1>1, <1>4, <2>3, <3>1 DEF Smaller
  <2>5. \A a \in 1..n, b \in 1..n : SubSeq(IdList(ids), a, b) \in Seq(ids)
    BY <1>2
  <2>6. QED BY <2>2, <2>4, <2>5
<1> HIDE DEF page, k, n
<1>6. Len(page) \in Nat /\ Len(page) <= PageSize /\ Len(page) <= n - k
      /\ (Len(page) = PageSize \/ Len(page) = n - k)
  BY <1>1, <1>4 DEF Smaller
<1>7. ASSUME NEW j \in 1..Len(page)
      PROVE  /\ page[j] \in ids /\ Rank(ids, page[j]) = k + j - 1
             /\ \A i \in 1..Len(app.shown) : app.shown[i] < page[j]
  <2>1. PICK i \in 1..n : i = k + j
    BY <1>1, <1>6
  <2>2. page[j] \in ids /\ Rank(ids, page[j]) = k + j - 1
    <3>1. page[j] = IdList(ids)[i]
      BY <1>4, <2>1
    <3>2. IdList(ids)[i] \in ids /\ Rank(ids, IdList(ids)[i]) = i - 1
      BY <1>2
    <3>3. i - 1 = k + j - 1
      BY <1>1, <1>6, <2>1
    <3>4. QED BY <3>1, <3>2, <3>3
  <2>3. ~(Rank(ids, page[j]) < k)
    BY <1>1, <1>6, <2>2
  <2>4. page[j] \in ids \ First(ids, k)
    BY <2>2, <2>3 DEF First
  <2>5. QED BY <2>2, <2>4 DEF ReadInv, InOrderSoFar, k
<1>8. ASSUME NEW i \in 1..Len(page), NEW j \in 1..Len(page), i < j
      PROVE  page[i] < page[j]
  <2>1. Rank(ids, page[i]) < Rank(ids, page[j])
    BY <1>1, <1>6, <1>7, <1>8
  <2>2. QED BY <1>7, <2>1, RanksOrder
<1>9. ASSUME NEW id \in ids, Rank(ids, id) >= k, Rank(ids, id) < k + PageSize
      PROVE  \E j \in 1..Len(page) : page[j] = id
  <2>1. PICK r : r = Rank(ids, id)
    OBVIOUS
  <2>2. r \in Nat /\ r < n /\ r >= k /\ r < k + PageSize
    BY <1>9, <2>1, IdRanks DEF n
  <2>3. r - k + 1 \in 1..Len(page) /\ k + (r - k + 1) = r + 1
    BY <1>1, <1>6, <2>2
  <2>4. page[r - k + 1] = IdList(ids)[r + 1]
    BY <1>4, <2>3
  <2>5. QED BY <1>2, <2>1, <2>3, <2>4
<1>10. Len(page) = Smaller(PageSize, n - k)
  BY <1>4
<1>11. QED BY <1>5, <1>7, <1>8, <1>9, <1>10 DEF page, k, n

Turned(app, page) == [app EXCEPT !.page = app.page + 1, !.shown = @ \o page]

LEMMA TurnsPage ==
  ASSUME NEW app \in Reading, NEW last \in Nat, last <= MaxMessages,
         NEW ids, Ids(ids), ids \subseteq 1..last, ReadInv(app, ids, last), ~app.over,
         app.page <= PageNums(Cardinality(ids))
  PROVE  LET next == Turned(app, Page(IdList(ids), app.page))
         IN  next \in Reading /\ ReadInv(next, ids, last)
<1>0. PICK page : page = Page(IdList(ids), app.page)
  OBVIOUS
<1>1. PICK k : k = Asked(app)
  OBVIOUS
<1>2. /\ page \in Seq(ids)
      /\ \A j \in 1..Len(page) : /\ page[j] \in ids /\ Rank(ids, page[j]) = k + j - 1
                                 /\ \A i \in 1..Len(app.shown) : app.shown[i] < page[j]
      /\ \A i, j \in 1..Len(page) : i < j => page[i] < page[j]
      /\ \A id \in ids : Rank(ids, id) >= k /\ Rank(ids, id) < k + PageSize =>
           \E j \in 1..Len(page) : page[j] = id
      /\ Len(page) = Smaller(PageSize, Cardinality(ids) - k)
  BY <1>0, <1>1, NextEntries
<1>3. PICK next : next = Turned(app, page)
  OBVIOUS
<1>4. /\ next.page = app.page + 1 /\ next.shown = app.shown \o page
      /\ next.there = app.there /\ next.removed = app.removed /\ next.over = app.over
  BY <1>3 DEF Turned, Reading
<1>5. /\ k \in Nat /\ app.page \in Nat /\ app.shown \in Seq(1..MaxMessages)
      /\ Len(app.shown) \in Nat /\ \A i \in 1..Len(app.shown) : app.shown[i] \in Nat
      /\ PageSize \in Nat /\ PageSize >= 1
  BY <1>1, AppTypes, Positive DEF PageSizePositive
<1>6. Asked(next) = k + PageSize
  <2>1. PICK x \in Int : x = app.page - 1
    BY <1>5
  <2>2. next.page - 1 = x + 1
    BY <1>4, <1>5, <2>1
  <2>3. PageSize * (x + 1) = PageSize * x + PageSize
    BY NextMultiple
  <2>4. QED BY <1>1, <2>1, <2>2, <2>3 DEF Asked
<1>7. ids \subseteq 1..MaxMessages
  <2>1. 1..last \subseteq 1..MaxMessages
    BY MessagesAssumption
  <2>2. QED BY <2>1
<1>8. page \in Seq(1..MaxMessages) /\ Len(page) \in Nat
  BY <1>2, <1>7, LargerSeq, Elements
<1>9. /\ app.shown \o page \in Seq(1..MaxMessages)
      /\ Len(app.shown \o page) = Len(app.shown) + Len(page)
      /\ \A i \in 1..Len(app.shown) : (app.shown \o page)[i] = app.shown[i]
      /\ \A i \in 1..Len(app.shown) + Len(page) : i > Len(app.shown) =>
           (app.shown \o page)[i] = page[i - Len(app.shown)]
  <2>1. PICK a \in Seq(1..MaxMessages), b \in Seq(1..MaxMessages) : a = app.shown /\ b = page
    BY <1>5, <1>8
  <2>2. /\ a \o b \in Seq(1..MaxMessages) /\ Len(a \o b) = Len(a) + Len(b)
        /\ \A i \in 1..Len(a) : (a \o b)[i] = a[i]
        /\ \A i \in 1..Len(a) + Len(b) : i > Len(a) => (a \o b)[i] = b[i - Len(a)]
    OBVIOUS
  <2>3. QED BY <2>1, <2>2
<1>10. next \in Reading
  <2>1. app.page + 1 \in Nat \ {0}
    BY <1>5
  <2>2. QED BY <1>3, <1>9, <2>1 DEF Turned, Reading
<1>11. PICK m : m = Len(app.shown)
  OBVIOUS
<1>12. /\ m \in Nat /\ Len(next.shown) = m + Len(page)
       /\ \A i \in 1..m : next.shown[i] = app.shown[i] /\ app.shown[i] \in Nat
       /\ \A i \in 1..m + Len(page) : i > m => /\ next.shown[i] = page[i - m]
                                               /\ i - m \in 1..Len(page)
  BY <1>4, <1>5, <1>8, <1>9, <1>11
<1>13. /\ \A i, j \in 1..m : i < j => app.shown[i] < app.shown[j]
       /\ \A i \in 1..m : app.shown[i] <= last
       /\ app.there \subseteq 1..last
       /\ \A id \in ids \ First(ids, k) : \A i \in 1..m : app.shown[i] < id
  BY <1>1, <1>11 DEF ReadInv, InOrderSoFar
<1>14. ASSUME NEW i \in 1..Len(next.shown), NEW j \in 1..Len(next.shown), i < j
       PROVE  next.shown[i] < next.shown[j]
  <2>0. i \in 1..m + Len(page) /\ j \in 1..m + Len(page) /\ i \in Int /\ j \in Int
    BY <1>12
  <2>1. CASE j <= m
    <3>1. i \in 1..m /\ j \in 1..m
      BY <1>12, <1>14, <2>0, <2>1
    <3>2. QED BY <1>12, <1>13, <1>14, <3>1
  <2>2. CASE i <= m /\ j > m
    <3>1. i \in 1..m /\ j - m \in 1..Len(page) /\ next.shown[j] = page[j - m]
      BY <1>12, <2>0, <2>2
    <3>2. QED BY <1>2, <1>11, <1>12, <3>1
  <2>3. CASE i > m
    <3>1. j > m
      BY <1>12, <1>14, <2>0, <2>3
    <3>2. /\ i - m \in 1..Len(page) /\ next.shown[i] = page[i - m]
          /\ j - m \in 1..Len(page) /\ next.shown[j] = page[j - m]
      BY <1>12, <2>0, <2>3, <3>1
    <3>3. i - m < j - m
      BY <1>12, <1>14, <2>0
    <3>4. QED BY <1>2, <3>2, <3>3
  <2>4. QED BY <1>12, <2>0, <2>1, <2>2, <2>3
<1>15. ASSUME NEW i \in 1..Len(next.shown) PROVE next.shown[i] <= last
  <2>1. i \in 1..m + Len(page) /\ i \in Int
    BY <1>12
  <2>2. CASE i <= m
    BY <1>12, <1>13, <2>1, <2>2
  <2>3. CASE i > m
    <3>1. next.shown[i] = page[i - m] /\ i - m \in 1..Len(page)
      BY <1>12, <2>1, <2>3
    <3>2. next.shown[i] \in 1..last
      BY <1>2, <3>1
    <3>3. QED BY <3>2
  <2>4. QED BY <1>12, <2>1, <2>2, <2>3
<1>16. ASSUME NEW id \in ids \ First(ids, k + PageSize), NEW i \in 1..Len(next.shown)
       PROVE  next.shown[i] < id
  <2>1. i \in 1..m + Len(page) /\ i \in Int
    BY <1>12
  <2>2. id \in ids /\ Rank(ids, id) \in Nat /\ Rank(ids, id) >= k + PageSize
    <3>1. Rank(ids, id) \in Nat
      BY IdRanks
    <3>2. ~(Rank(ids, id) < k + PageSize)
      BY DEF First
    <3>3. QED BY <1>5, <3>1, <3>2
  <2>3. CASE i <= m
    <3>1. id \notin First(ids, k)
      BY <1>5, <2>2 DEF First
    <3>2. QED BY <1>12, <1>13, <2>1, <2>2, <2>3, <3>1
  <2>4. CASE i > m
    <3>1. next.shown[i] = page[i - m] /\ i - m \in 1..Len(page)
      BY <1>12, <2>1, <2>4
    <3>2. page[i - m] \in ids /\ Rank(ids, page[i - m]) = k + (i - m) - 1
      BY <1>2, <3>1
    <3>3. i - m <= PageSize /\ i - m \in Int
      <4>1. PICK x, n : x = i - m /\ n = Cardinality(ids)
        OBVIOUS
      <4>2. n \in Nat
        BY <4>1, IdRanks
      <4>3. Len(page) <= PageSize
        BY <1>2, <1>5, <4>1, <4>2 DEF Smaller
      <4>4. x \in 1..Len(page)
        BY <3>1, <4>1
      <4>5. QED BY <1>5, <1>8, <4>1, <4>3, <4>4
    <3>4. Rank(ids, page[i - m]) < Rank(ids, id)
      BY <1>5, <2>2, <3>2, <3>3
    <3>5. page[i - m] < id
      BY <2>2, <3>2, <3>4, RanksOrder
    <3>6. QED BY <3>1, <3>5
  <2>5. QED BY <1>12, <2>1, <2>3, <2>4
<1>17. InOrderSoFar(next, ids, last)
  BY <1>4, <1>6, <1>13, <1>14, <1>15, <1>16 DEF InOrderSoFar
<1>18. ASSUME NEW id \in Unseen(next, ids) \cap First(ids, k + PageSize)
       PROVE  id \in Unseen(app, ids) \cap First(ids, k)
  <2>1. /\ id \in ids \cap app.there /\ \A i \in 1..m + Len(page) : next.shown[i] # id
        /\ Rank(ids, id) < k + PageSize
    BY <1>4, <1>12 DEF Unseen, First
  <2>2. \A i \in 1..m : app.shown[i] # id
    <3>1. \A i \in 1..m : i \in 1..m + Len(page)
      BY <1>8, <1>12
    <3>2. QED BY <1>12, <2>1, <3>1
  <2>3. ~(Rank(ids, id) >= k)
    <3>1. SUFFICES ASSUME Rank(ids, id) >= k PROVE FALSE
      OBVIOUS
    <3>2. PICK j \in 1..Len(page) : page[j] = id
      BY <1>2, <2>1, <3>1
    <3>3. m + j \in 1..m + Len(page) /\ m + j > m /\ (m + j) - m = j
      BY <1>8, <1>12
    <3>4. next.shown[m + j] = page[j]
      BY <1>12, <3>3
    <3>5. QED BY <2>1, <3>2, <3>3, <3>4
  <2>4. Rank(ids, id) < k
    <3>1. Rank(ids, id) \in Nat
      BY <2>1, IdRanks
    <3>2. QED BY <1>5, <2>3, <3>1
  <2>5. QED BY <1>11, <2>1, <2>2, <2>4 DEF Unseen, First
<1>19. Cardinality(Unseen(next, ids) \cap First(ids, k + PageSize)) <= app.removed
  <2>1. Cardinality(Unseen(app, ids) \cap First(ids, k)) <= app.removed
    BY <1>1 DEF ReadInv, FewMissed
  <2>2. IsFiniteSet(Unseen(app, ids) \cap First(ids, k))
    <3>1. Unseen(app, ids) \cap First(ids, k) \subseteq ids
      BY DEF Unseen
    <3>2. QED BY <3>1, PartOf DEF Ids
  <2>3. Unseen(next, ids) \cap First(ids, k + PageSize) \subseteq Unseen(app, ids) \cap First(ids, k)
    BY <1>18
  <2>4. PICK a, b : /\ a = Cardinality(Unseen(next, ids) \cap First(ids, k + PageSize))
                    /\ b = Cardinality(Unseen(app, ids) \cap First(ids, k))
    OBVIOUS
  <2>5. a \in Nat /\ b \in Nat /\ a <= b
    BY <2>2, <2>3, <2>4, PartOf
  <2>6. b <= app.removed /\ app.removed \in Nat
    BY <2>1, <2>4, AppTypes
  <2>7. QED BY <2>4, <2>5, <2>6
<1>20. FewMissed(next, ids)
  BY <1>4, <1>6, <1>19 DEF FewMissed
<1>21. QED BY <1>0, <1>3, <1>10, <1>17, <1>20 DEF ReadInv

\* An empty page: all that is there is on the pages asked for.
LEMMA Ends ==
  ASSUME NEW app \in Reading, NEW last \in Nat, NEW ids, Ids(ids), ReadInv(app, ids, last),
         ~app.over, app.page > PageNums(Cardinality(ids))
  PROVE  LET next == [app EXCEPT !.over = TRUE]
         IN  next \in Reading /\ ReadInv(next, ids, last)
<1>1. PICK next : next = [app EXCEPT !.over = TRUE]
  OBVIOUS
<1>2. /\ next.page = app.page /\ next.shown = app.shown /\ next.there = app.there
      /\ next.removed = app.removed /\ next.over = TRUE /\ next \in Reading
  BY <1>1 DEF Reading
<1>3. PICK k, n : k = Asked(app) /\ n = Cardinality(ids)
  OBVIOUS
<1>4. n \in Nat /\ k \in Nat /\ PageNums(n) \in Nat /\ app.page \in Nat
      /\ PageSize \in Nat /\ PageSize * PageNums(n) \in Int /\ n <= PageSize * PageNums(n)
  <2>1. n \in Nat /\ k \in Nat /\ app.page \in Nat
    BY <1>3, IdRanks, AppTypes
  <2>2. PageNums(n) \in Nat /\ n <= PageSize * PageNums(n)
    BY <2>1, PagesNeeded
  <2>3. QED BY <2>1, <2>2, Positive DEF PageSizePositive
<1>5. n <= k
  <2>1. PICK x \in Int : x = app.page - 1
    BY <1>4
  <2>2. PageNums(n) <= x /\ PageNums(n) \in Int
    BY <1>3, <1>4, <2>1
  <2>3. PageSize * PageNums(n) <= PageSize * x /\ PageSize * x \in Int
    BY <2>2, Multiples
  <2>4. k = PageSize * x
    BY <1>3, <2>1 DEF Asked
  <2>5. QED BY <1>4, <2>3, <2>4
<1>6. First(ids, k) = ids
  <2>1. k >= Cardinality(ids)
    BY <1>3, <1>4, <1>5
  <2>2. QED BY <1>4, <2>1, FirstCounts
<1>7. Unseen(next, ids) = Unseen(app, ids) \cap First(ids, k)
  BY <1>2, <1>6 DEF Unseen
<1>8. FewMissed(next, ids)
  BY <1>2, <1>3, <1>7 DEF ReadInv, FewMissed
<1>9. InOrderSoFar(next, ids, last)
  <2>1. Asked(next) = Asked(app)
    BY <1>2 DEF Asked
  <2>2. QED BY <1>2, <2>1 DEF ReadInv, InOrderSoFar
<1>10. QED BY <1>1, <1>2, <1>8, <1>9 DEF ReadInv

--------------------------------------------------------------------------------
(* The steps.                                                               *)

MessagesInv ==
  /\ MessagesTypeOK
  /\ \A me \in Names : ReadInv(reading[me], IdsOf(MessagesOf(me)), lastId)

\* What MessagesTypeOK says of the ids.
LEMMA IdsAre ==
  ASSUME MessagesTypeOK, NEW me \in Names
  PROVE  /\ Ids(IdsOf(MessagesOf(me))) /\ IdsOf(MessagesOf(me)) \subseteq 1..lastId
         /\ lastId \in Nat /\ lastId <= MaxMessages /\ reading[me] \in Reading
         /\ MessageList(me) = IdList(IdsOf(MessagesOf(me)))
<1>1. lastId \in Nat /\ lastId <= MaxMessages /\ reading[me] \in Reading
  BY MessagesAssumption DEF MessagesTypeOK
<1>2. ASSUME NEW r \in userMessage PROVE r.messageid \in 1..lastId
  <2>1. r.messageid \in 1..MaxMessages /\ r.messageid <= lastId
    BY DEF MessagesTypeOK, MessageRow
  <2>2. QED BY <1>1, <2>1, MessagesAssumption
<1>3. IdsOf(MessagesOf(me)) \subseteq 1..lastId
  BY <1>2 DEF IdsOf, MessagesOf
<1>4. IsFiniteSet(1..lastId)
  <2>1. 1 \in Int /\ lastId \in Int
    BY <1>1
  <2>2. QED BY <2>1, FS_Interval
<1>5. Ids(IdsOf(MessagesOf(me)))
  <2>1. 1..lastId \subseteq Nat
    BY <1>1
  <2>2. QED BY <1>3, <1>4, <2>1, PartOf DEF Ids
<1>6. QED BY <1>1, <1>3, <1>5 DEF MessageList, IdList

\* The statements of friends and accounts leave the messages alone.
LEMMA MessagesUnchanged ==
  ASSUME MessagesInv, FriendsTypeOK', UNCHANGED messageVars
  PROVE  MessagesInv'
<1>1. userMessage' = userMessage /\ lastId' = lastId /\ reading' = reading
  BY DEF messageVars
<1>2. MessagesTypeOK'
  BY <1>1 DEF MessagesInv, MessagesTypeOK
<1>3. \A me \in Names : IdsOf(MessagesOf(me))' = IdsOf(MessagesOf(me))
  BY <1>1 DEF IdsOf, MessagesOf
<1>4. QED BY <1>1, <1>2, <1>3 DEF MessagesInv

\* A step that leaves the tables of friends and accounts alone.
LEMMA TablesStay ==
  ASSUME FriendsTypeOK, UNCHANGED <<nickName, regist, passTable, iphones, memberShip>>,
         faults' \in 0..MaxFaults
  PROVE  FriendsTypeOK'
BY DEF FriendsTypeOK, TypeOK

LEMMA OneMoreFault ==
  ASSUME TypeOK, Fails(1) \/ Fails(0) \/ UNCHANGED faults
  PROVE  faults' \in 0..MaxFaults
BY AccountsAssumption DEF TypeOK, Fails

LEMMA MessageArrives ==
  ASSUME MessagesInv, NEW to \in Names, NEW from \in Names, AddMessage(to, from),
         faults' \in 0..MaxFaults
  PROVE  MessagesInv'
<1>1. /\ lastId < MaxMessages /\ lastId' = lastId + 1 /\ reading' = reading
      /\ UNCHANGED <<nickName, regist, passTable, iphones, memberShip>>
  BY DEF AddMessage
<1>2. PICK new : new = [messageid |-> lastId + 1, recename |-> to, sendername |-> from,
                        state |-> Unread]
  OBVIOUS
<1>3. userMessage' = userMessage \cup {new}
  BY <1>2 DEF AddMessage
<1>4. MessagesTypeOK
  BY DEF MessagesInv
<1>5. lastId \in Nat /\ lastId + 1 \in 1..MaxMessages
  BY <1>1, <1>4, MessagesAssumption DEF MessagesTypeOK
<1>6. /\ new \in MessageRow /\ new.messageid = lastId + 1 /\ new.recename = to
  BY <1>2, <1>5 DEF MessageRow
<1>7. \A r \in userMessage : r.messageid \in Nat /\ r.messageid <= lastId
  <2>1. ASSUME NEW r \in userMessage PROVE r.messageid \in Nat /\ r.messageid <= lastId
    <3>1. r.messageid \in 1..MaxMessages /\ r.messageid <= lastId
      BY <1>4 DEF MessagesTypeOK, MessageRow
    <3>2. QED BY <3>1, MessagesAssumption
  <2>2. QED BY <2>1
<1>8. FriendsTypeOK'
  BY <1>1, <1>4, TablesStay DEF MessagesTypeOK
<1>9. MessagesTypeOK'
  <2>1. userMessage' \subseteq MessageRow
    BY <1>3, <1>4, <1>6 DEF MessagesTypeOK
  <2>2. ASSUME NEW r \in userMessage', NEW s \in userMessage', r.messageid = s.messageid
        PROVE  r = s
    <3>1. CASE r \in userMessage /\ s \in userMessage
      BY <1>4, <2>2, <3>1 DEF MessagesTypeOK
    <3>2. CASE r = new /\ s = new
      BY <3>2
    <3>3. CASE r = new /\ s \in userMessage
      BY <1>5, <1>6, <1>7, <2>2, <3>3
    <3>4. CASE r \in userMessage /\ s = new
      BY <1>5, <1>6, <1>7, <2>2, <3>4
    <3>5. QED BY <1>3, <3>1, <3>2, <3>3, <3>4
  <2>3. lastId' \in 0..MaxMessages /\ \A r \in userMessage' : r.messageid <= lastId'
    <3>1. lastId + 1 \in 0..MaxMessages
      BY <1>5, MessagesAssumption
    <3>2. ASSUME NEW r \in userMessage' PROVE r.messageid <= lastId + 1
      <4>1. CASE r \in userMessage
        BY <1>5, <1>7, <4>1
      <4>2. CASE r = new
        BY <1>5, <1>6, <4>2
      <4>3. QED BY <1>3, <4>1, <4>2
    <3>3. QED BY <1>1, <3>1, <3>2
  <2>4. reading' \in [Names -> Reading]
    BY <1>1, <1>4 DEF MessagesTypeOK
  <2>5. QED BY <1>8, <2>1, <2>2, <2>3, <2>4 DEF MessagesTypeOK
<1>10. ASSUME NEW me \in Names
       PROVE  ReadInv(reading[me], IdsOf(MessagesOf(me)), lastId)'
  <2>1. PICK ids : ids = IdsOf(MessagesOf(me))
    OBVIOUS
  <2>2. Ids(ids) /\ ids \subseteq 1..lastId /\ reading[me] \in Reading
        /\ ReadInv(reading[me], ids, lastId)
    BY <1>4, <2>1, IdsAre DEF MessagesInv
  <2>3. ReadInv(reading[me], ids \cup {lastId + 1}, lastId + 1)
        /\ ReadInv(reading[me], ids, lastId + 1)
    BY <1>5, <2>2, Arrives
  <2>4. IdsOf(MessagesOf(me))' = IF me = to THEN ids \cup {lastId + 1} ELSE ids
    <3>1. MessagesOf(me)' = IF me = to THEN MessagesOf(me) \cup {new} ELSE MessagesOf(me)
      BY <1>3, <1>6 DEF MessagesOf
    <3>2. CASE me = to
      <4>1. MessagesOf(me)' = MessagesOf(me) \cup {new}
        BY <3>1, <3>2
      <4>2. IdsOf(MessagesOf(me))' = {r.messageid : r \in MessagesOf(me) \cup {new}}
        BY <4>1 DEF IdsOf
      <4>3. QED BY <1>6, <2>1, <3>2, <4>2 DEF IdsOf
    <3>3. CASE me # to
      BY <2>1, <3>1, <3>3 DEF IdsOf
    <3>4. QED BY <3>2, <3>3
  <2>5. CASE me = to
    BY <1>1, <2>3, <2>4, <2>5
  <2>6. CASE me # to
    BY <1>1, <2>3, <2>4, <2>6
  <2>7. QED BY <2>5, <2>6
<1>11. QED BY <1>9, <1>10 DEF MessagesInv

LEMMA RowsCounted ==
  ASSUME MessagesTypeOK, NEW rows, rows \subseteq userMessage
  PROVE  /\ IsFiniteSet(rows) /\ Cardinality(rows) \in Nat
         /\ IsFiniteSet(IdsOf(rows)) /\ Cardinality(IdsOf(rows)) \in Nat
         /\ Cardinality(IdsOf(rows)) <= Cardinality(rows)
<1> DEFINE id == [r \in userMessage |-> r.messageid]
<1>1. \A r \in userMessage : r.messageid \in 1..MaxMessages
  BY DEF MessagesTypeOK, MessageRow
<1>2. id \in Injection(userMessage, 1..MaxMessages)
  <2>1. id \in [userMessage -> 1..MaxMessages]
    BY <1>1
  <2>2. \A r, s \in userMessage : id[r] = id[s] => r = s
    BY DEF MessagesTypeOK
  <2> HIDE DEF id
  <2>3. QED BY <2>1, <2>2 DEF Injection, IsInjective
<1>3. IsFiniteSet(userMessage)
  <2>1. IsFiniteSet(1..MaxMessages)
    <3>1. 1 \in Int /\ MaxMessages \in Int
      BY MessagesAssumption
    <3>2. QED BY <3>1, FS_Interval
  <2> HIDE DEF id
  <2>2. QED BY <1>2, <2>1, FS_Injection
<1>4. IsFiniteSet(rows)
  BY <1>3, PartOf
<1> DEFINE g == [r \in rows |-> r.messageid]
<1>5. g = [r \in rows |-> g[r]] /\ IdsOf(rows) = {g[r] : r \in rows}
  BY DEF IdsOf
<1> HIDE DEF g
<1>6. QED BY <1>4, <1>5, ImageOf

LEMMA StateChanges ==
  ASSUME MessagesInv, NEW me \in Names, NEW f \in Names, NEW flag \in Flags,
         ChangeMessageState(me, f, flag)
  PROVE  MessagesInv'
<1> DEFINE rows == Between(me, f)
           Set(r) == [r EXCEPT !.state = flag]
<1>0. MessagesTypeOK
  BY DEF MessagesInv
<1>1. /\ userMessage' = (userMessage \ rows) \cup (IF flag = 0 THEN {} ELSE {Set(r) : r \in rows})
      /\ lastId' = lastId /\ UNCHANGED vars
      /\ reading' = IF flag = 0 /\ ~reading[me].over
                    THEN [reading EXCEPT ![me].removed = @ + Cardinality(rows)]
                    ELSE reading
  BY DEF ChangeMessageState
<1>2. /\ rows \subseteq userMessage /\ \A r \in rows : r.recename = me
      /\ \A r \in userMessage : r.recename # me => r \notin rows
  BY DEF Between
<1>3. IsFiniteSet(rows) /\ Cardinality(rows) \in Nat /\ IsFiniteSet(IdsOf(rows))
      /\ Cardinality(IdsOf(rows)) \in Nat /\ Cardinality(IdsOf(rows)) <= Cardinality(rows)
  BY <1>0, <1>2, RowsCounted
<1> HIDE DEF rows
<1>4. \A r \in userMessage : r \in MessageRow
  BY <1>0 DEF MessagesTypeOK
<1>5. ASSUME NEW r \in userMessage
      PROVE  /\ Set(r).messageid = r.messageid /\ Set(r).recename = r.recename
             /\ flag # 0 => Set(r) \in MessageRow
  BY <1>4 DEF MessageRow
<1>6. FriendsTypeOK'
  <2>1. UNCHANGED <<nickName, regist, passTable, iphones, memberShip>> /\ faults' = faults
    BY <1>1 DEF vars, accountVars
  <2>2. FriendsTypeOK /\ faults \in 0..MaxFaults
    BY <1>0 DEF MessagesTypeOK, FriendsTypeOK, TypeOK
  <2>3. QED BY <2>1, <2>2, TablesStay
\* Each row that is left is one that was there, but for the state.
<1>7. ASSUME NEW s \in userMessage'
      PROVE  \E r \in userMessage : /\ r.messageid = s.messageid /\ r.recename = s.recename
                                    /\ ((s = r /\ r \notin rows) \/ (flag # 0 /\ s = Set(r) /\ r \in rows))
  <2>1. CASE s \in userMessage \ rows
    BY <2>1
  <2>2. CASE flag # 0 /\ s \in {Set(r) : r \in rows}
    <3>1. PICK r \in rows : s = Set(r)
      BY <2>2
    <3>2. r \in userMessage
      BY <1>2
    <3>3. QED BY <1>5, <2>2, <3>1, <3>2
  <2>3. QED BY <1>1, <2>1, <2>2
<1>8. reading' \in [Names -> Reading]
  <2>1. reading \in [Names -> Reading]
    BY <1>0 DEF MessagesTypeOK
  <2>2. [reading[me] EXCEPT !.removed = @ + Cardinality(rows)] \in Reading
    <3>1. PICK app \in Reading : app = reading[me]
      BY <2>1
    <3>2. app.removed + Cardinality(rows) \in Nat
      BY <1>3, <3>1, AppTypes
    <3>3. [app EXCEPT !.removed = app.removed + Cardinality(rows)] \in Reading
      BY <3>2 DEF Reading
    <3>4. QED BY <3>1, <3>3
  <2>3. [reading EXCEPT ![me].removed = @ + Cardinality(rows)] \in [Names -> Reading]
    BY <2>1, <2>2
  <2>4. QED BY <1>1, <2>1, <2>3
<1>9. MessagesTypeOK'
  <2>1. userMessage' \subseteq MessageRow
    BY <1>4, <1>5, <1>7
  <2>2. ASSUME NEW a \in userMessage', NEW b \in userMessage', a.messageid = b.messageid
        PROVE  a = b
    <3>1. PICK r \in userMessage : /\ r.messageid = a.messageid
                                   /\ ((a = r /\ r \notin rows) \/ (flag # 0 /\ a = Set(r) /\ r \in rows))
      BY <1>7
    <3>2. PICK s \in userMessage : /\ s.messageid = b.messageid
                                   /\ ((b = s /\ s \notin rows) \/ (flag # 0 /\ b = Set(s) /\ s \in rows))
      BY <1>7
    <3>3. r = s
      BY <1>0, <2>2, <3>1, <3>2 DEF MessagesTypeOK
    <3>4. QED BY <3>1, <3>2, <3>3
  <2>3. lastId' \in 0..MaxMessages /\ \A r \in userMessage' : r.messageid <= lastId'
    <3>1. lastId \in 0..MaxMessages /\ \A r \in userMessage : r.messageid <= lastId
      BY <1>0 DEF MessagesTypeOK
    <3>2. QED BY <1>1, <1>7, <3>1
  <2>4. QED BY <1>6, <1>8, <2>1, <2>2, <2>3 DEF MessagesTypeOK
<1>10. ASSUME NEW x \in Names
       PROVE  /\ IdsOf(MessagesOf(x))' \subseteq IdsOf(MessagesOf(x))
              /\ flag # 0 \/ x # me => IdsOf(MessagesOf(x))' = IdsOf(MessagesOf(x))
              /\ IdsOf(MessagesOf(x)) \ IdsOf(MessagesOf(x))' \subseteq IdsOf(rows)
  <2>1. ASSUME NEW id \in IdsOf(MessagesOf(x))' PROVE id \in IdsOf(MessagesOf(x))
    <3>1. PICK s \in userMessage' : s.recename = x /\ s.messageid = id
      BY <2>1 DEF IdsOf, MessagesOf
    <3>2. PICK r \in userMessage : r.messageid = id /\ r.recename = x
      BY <1>7, <3>1
    <3>3. QED BY <3>2 DEF IdsOf, MessagesOf
  <2>2. ASSUME NEW id \in IdsOf(MessagesOf(x))
        PROVE  /\ id \in IdsOf(MessagesOf(x))' \/ id \in IdsOf(rows)
               /\ flag # 0 \/ x # me => id \in IdsOf(MessagesOf(x))'
    <3>1. PICK r \in userMessage : r.recename = x /\ r.messageid = id
      BY <2>2 DEF IdsOf, MessagesOf
    <3>2. r \notin rows => id \in IdsOf(MessagesOf(x))'
      <4>1. r \notin rows => r \in userMessage'
        BY <1>1
      <4>2. QED BY <3>1, <4>1 DEF IdsOf, MessagesOf
    <3>3. r \in rows /\ flag # 0 => id \in IdsOf(MessagesOf(x))'
      <4>1. r \in rows /\ flag # 0 => Set(r) \in userMessage'
        BY <1>1
      <4>2. Set(r).messageid = id /\ Set(r).recename = x
        BY <1>5, <3>1
      <4>3. QED BY <4>1, <4>2 DEF IdsOf, MessagesOf
    <3>4. r \in rows => id \in IdsOf(rows) /\ x = me
      BY <1>2, <3>1 DEF IdsOf
    <3>5. QED BY <3>2, <3>3, <3>4
  <2>3. QED BY <2>1, <2>2
<1>11. ASSUME NEW x \in Names
       PROVE  ReadInv(reading[x], IdsOf(MessagesOf(x)), lastId)'
  <2>1. PICK ids, rest, app : /\ ids = IdsOf(MessagesOf(x)) /\ rest = IdsOf(MessagesOf(x))'
                              /\ app = reading[x]
    OBVIOUS
  <2>2. Ids(ids) /\ lastId \in Nat /\ app \in Reading /\ ReadInv(app, ids, lastId)
    BY <1>0, <2>1, IdsAre DEF MessagesInv
  <2>3. reading \in [Names -> Reading]
    BY <1>0 DEF MessagesTypeOK
  <2>4. CASE flag # 0 \/ x # me
    <3>1. rest = ids
      BY <1>10, <2>1, <2>4
    <3>2. reading'[x] = app
      BY <1>1, <2>1, <2>3, <2>4
    <3>3. QED BY <1>1, <2>1, <2>2, <3>1, <3>2
  <2>5. CASE flag = 0 /\ x = me
    <3>1. rest \subseteq ids /\ ids \ rest \subseteq IdsOf(rows)
      BY <1>10, <2>1
    <3>2. Cardinality(ids \ rest) <= Cardinality(rows)
      <4>1. Cardinality(ids \ rest) \in Nat /\ Cardinality(ids \ rest) <= Cardinality(IdsOf(rows))
        BY <1>3, <3>1, PartOf
      <4>2. QED BY <1>3, <4>1
    <3>3. /\ app.over => ReadInv(app, rest, lastId)
          /\ ~app.over => ReadInv([app EXCEPT !.removed = @ + Cardinality(rows)], rest, lastId)
      BY <1>3, <2>2, <3>1, <3>2, Deletes
    <3>4. reading'[x] = IF app.over THEN app ELSE [app EXCEPT !.removed = @ + Cardinality(rows)]
      BY <1>1, <2>1, <2>3, <2>5
    <3>5. ReadInv(reading'[x], rest, lastId)
      BY <3>3, <3>4
    <3>6. QED BY <1>1, <2>1, <3>5
  <2>6. QED BY <2>4, <2>5
<1>12. QED BY <1>9, <1>11 DEF MessagesInv

LEMMA ListIsRead ==
  ASSUME MessagesInv, NEW me \in Names, NEW index \in {1, reading[me].page},
         GetMessageList(me, index)
  PROVE  MessagesInv'
<1> DEFINE ids == IdsOf(MessagesOf(me))
           was == IF index = 1 THEN FirstPage(ids) ELSE reading[me]
           next == IF index > PageNums(Cardinality(ids)) THEN [was EXCEPT !.over = TRUE]
                   ELSE Turned(was, Page(IdList(ids), index))
<1>0. MessagesTypeOK
  BY DEF MessagesInv
<1>1. /\ Ids(ids) /\ ids \subseteq 1..lastId /\ lastId \in Nat /\ lastId <= MaxMessages
      /\ reading[me] \in Reading /\ MessageList(me) = IdList(ids)
      /\ ReadInv(reading[me], ids, lastId)
  BY <1>0, IdsAre DEF MessagesInv
<1>2. Len(MessageList(me)) = Cardinality(ids)
  BY <1>1, IdListIs
<1>3. FirstPage(ids) \in Reading /\ FirstPage(ids).page = 1 /\ FirstPage(ids).over = FALSE
  <2>1. ids \subseteq 1..MaxMessages
    <3>1. 1..lastId \subseteq 1..MaxMessages
      BY <1>1, MessagesAssumption
    <3>2. QED BY <1>1, <3>1
  <2>2. <<>> \in Seq(1..MaxMessages) /\ 1 \in Nat \ {0}
    OBVIOUS
  <2>3. QED BY <2>1, <2>2 DEF FirstPage, Reading
<1>4. was \in Reading /\ was.page = index /\ ~was.over /\ ReadInv(was, ids, lastId)
  <2>1. CASE index = 1
    BY <1>1, <1>3, <2>1, Starts
  <2>2. CASE index # 1
    <3>1. index = reading[me].page /\ ~reading[me].over
      BY <2>2 DEF GetMessageList
    <3>2. QED BY <1>1, <2>2, <3>1
  <2>3. QED BY <2>1, <2>2
<1>5. reading' = [reading EXCEPT ![me] = next]
  <2>1. reading' = [reading EXCEPT ![me] =
          IF index > PageNums(Len(MessageList(me))) THEN [was EXCEPT !.over = TRUE]
          ELSE [was EXCEPT !.page = index + 1, !.shown = @ \o Page(MessageList(me), index)]]
    BY DEF GetMessageList
  <2>2. index = was.page
    BY <1>4
  <2> HIDE DEF was, ids
  <2>3. QED BY <1>1, <1>2, <2>1, <2>2 DEF Turned
<1> HIDE DEF ids, was
<1>6. next \in Reading /\ ReadInv(next, ids, lastId)
  <2>1. CASE index > PageNums(Cardinality(ids))
    BY <1>1, <1>4, <2>1, Ends
  <2>2. CASE ~(index > PageNums(Cardinality(ids)))
    <3>1. was.page <= PageNums(Cardinality(ids))
      <4>1. Cardinality(ids) \in Nat
        BY <1>1, IdRanks
      <4>2. PageNums(Cardinality(ids)) \in Int /\ was.page \in Int
        BY <1>4, <4>1, AppTypes, PagesNeeded
      <4>3. QED BY <1>4, <2>2, <4>2
    <3>2. QED BY <1>1, <1>4, <2>2, <3>1, TurnsPage
  <2>3. QED BY <2>1, <2>2
<1> HIDE DEF next
<1>7. UNCHANGED <<vars, userMessage, lastId>>
  BY DEF GetMessageList
<1>8. FriendsTypeOK'
  <2>1. UNCHANGED <<nickName, regist, passTable, iphones, memberShip>> /\ faults' = faults
    BY <1>7 DEF vars, accountVars
  <2>2. FriendsTypeOK /\ faults \in 0..MaxFaults
    BY <1>0 DEF MessagesTypeOK, FriendsTypeOK, TypeOK
  <2>3. QED BY <2>1, <2>2, TablesStay
<1>9. MessagesTypeOK'
  <2>1. reading' \in [Names -> Reading]
    BY <1>0, <1>5, <1>6 DEF MessagesTypeOK
  <2>2. QED BY <1>0, <1>7, <1>8, <2>1 DEF MessagesTypeOK
<1>10. ASSUME NEW x \in Names
       PROVE  ReadInv(reading[x], IdsOf(MessagesOf(x)), lastId)'
  <2>1. IdsOf(MessagesOf(x))' = IdsOf(MessagesOf(x)) /\ lastId' = lastId
    BY <1>7 DEF IdsOf, MessagesOf
  <2>2. reading'[x] = IF x = me THEN next ELSE reading[x]
    BY <1>0, <1>5 DEF MessagesTypeOK
  <2>3. CASE x = me
    <3>1. ReadInv(reading'[x], IdsOf(MessagesOf(x)), lastId)
      BY <1>6, <2>2, <2>3 DEF ids
    <3>2. QED BY <2>1, <3>1
  <2>4. CASE x # me
    <3>1. ReadInv(reading'[x], IdsOf(MessagesOf(x)), lastId)
      BY <2>2, <2>4 DEF MessagesInv
    <3>2. QED BY <2>1, <3>1
  <2>5. QED BY <2>3, <2>4
<1>11. QED BY <1>9, <1>10 DEF MessagesInv

LEMMA MessagesInvNext == MessagesInv /\ [MessagesNext]_allVars => MessagesInv'
<1> SUFFICES ASSUME MessagesInv, [MessagesNext]_allVars PROVE MessagesInv'
  OBVIOUS
<1>0. MessagesTypeOK /\ FriendsTypeOK /\ TypeOK
  BY DEF MessagesInv, MessagesTypeOK, FriendsTypeOK
<1>1. CASE FriendsNext /\ UNCHANGED messageVars
  <2>1. FriendsTypeOK'
    BY <1>0, <1>1, FriendsTypeNext
  <2>2. QED BY <1>1, <2>1, MessagesUnchanged
<1>2. ASSUME NEW me \in Names, NEW f \in Names, AddFriendMessage(me, f) PROVE MessagesInv'
  <2>1. Fails(1) \/ Fails(0)
    BY <1>2 DEF AddFriendMessage
  <2>2. faults' \in 0..MaxFaults
    BY <1>0, <2>1, OneMoreFault
  <2>3. AddMessage(f, me)
    BY <1>2 DEF AddFriendMessage
  <2>4. QED BY <2>2, <2>3, MessageArrives
<1>3. ASSUME NEW me \in Names, NEW f \in Names, SendMessage(me, f) PROVE MessagesInv'
  <2>1. faults' \in 0..MaxFaults
    BY <1>0, <1>3, OneMoreFault DEF SendMessage
  <2>2. AddMessage(f, me)
    BY <1>3 DEF SendMessage
  <2>3. QED BY <2>1, <2>2, MessageArrives
<1>4. ASSUME NEW me \in Names, NEW f \in Names, NEW flag \in Flags,
             ChangeMessageState(me, f, flag)
      PROVE  MessagesInv'
  BY <1>4, StateChanges
<1>5. ASSUME NEW me \in Readers, NEW index \in {1, reading[me].page}, GetMessageList(me, index)
      PROVE  MessagesInv'
  <2>1. me \in Names
    BY MessagesAssumption
  <2>2. QED BY <1>5, <2>1, ListIsRead
<1>6. CASE GetMessageListFails
  <2>1. faults' \in 0..MaxFaults
    BY <1>0, <1>6, OneMoreFault DEF GetMessageListFails
  <2>2. FriendsTypeOK'
    BY <1>0, <1>6, <2>1, TablesStay DEF GetMessageListFails
  <2>3. UNCHANGED messageVars
    BY <1>6 DEF GetMessageListFails
  <2>4. QED BY <2>2, <2>3, MessagesUnchanged
<1>7. CASE UNCHANGED allVars
  <2>1. UNCHANGED vars /\ UNCHANGED messageVars
    BY <1>7 DEF allVars
  <2>2. FriendsTypeOK'
    BY <1>0, <2>1, FriendsTypeNext
  <2>3. QED BY <2>1, <2>2, MessagesUnchanged
<1>8. QED BY <1>1, <1>2, <1>3, <1>4, <1>5, <1>6, <1>7 DEF MessagesNext

LEMMA MessagesInvInit == MessagesInit => MessagesInv
<1> SUFFICES ASSUME MessagesInit PROVE MessagesInv
  OBVIOUS
<1>1. /\ FriendsTypeOK /\ userMessage = {} /\ lastId = 0
      /\ reading = [me \in Names |-> [FirstPage({}) EXCEPT !.over = TRUE]]
  BY FriendsTypeInit DEF MessagesInit
<1>2. PICK app : app = [FirstPage({}) EXCEPT !.over = TRUE]
  OBVIOUS
<1>3. /\ app \in Reading /\ app.page = 1 /\ app.shown = <<>> /\ app.there = {}
      /\ app.removed = 0 /\ app.over = TRUE
  <2>1. <<>> \in Seq(1..MaxMessages) /\ 1 \in Nat \ {0}
    OBVIOUS
  <2>2. QED BY <1>2, <2>1 DEF FirstPage, Reading
<1>4. MessagesTypeOK
  <2>1. lastId \in 0..MaxMessages
    BY <1>1, MessagesAssumption
  <2>2. reading \in [Names -> Reading]
    BY <1>1, <1>2, <1>3
  <2>3. QED BY <1>1, <2>1, <2>2 DEF MessagesTypeOK
<1>5. ReadInv(app, {}, 0)
  <2>1. InOrderSoFar(app, {}, 0)
    BY <1>3 DEF InOrderSoFar
  <2>2. Unseen(app, {}) = {}
    BY DEF Unseen
  <2>3. Cardinality(Unseen(app, {})) = 0
    BY <2>2, FS_EmptySet
  <2>4. FewMissed(app, {})
    BY <1>3, <2>3 DEF FewMissed
  <2>5. QED BY <2>1, <2>4 DEF ReadInv
<1>6. ASSUME NEW me \in Names
      PROVE  ReadInv(reading[me], IdsOf(MessagesOf(me)), lastId)
  <2>1. reading[me] = app /\ IdsOf(MessagesOf(me)) = {} /\ lastId = 0
    BY <1>1, <1>2 DEF IdsOf, MessagesOf
  <2>2. QED BY <1>5, <2>1
<1>7. QED BY <1>4, <1>6 DEF MessagesInv

LEMMA MessagesInvAlways == MessagesSpec => []MessagesInv
BY MessagesInvInit, MessagesInvNext, PTL DEF MessagesSpec

\* The messages keep their types, each its own id, not above the last one given
\* (CDBOperator::AddMessage, UpdateMessage).
THEOREM MessagesTypes == MessagesSpec => []MessagesTypeOK
<1>1. MessagesInv => MessagesTypeOK
  BY DEF MessagesInv
<1>2. QED BY <1>1, MessagesInvAlways, PTL

\* Whatever is sent and deleted between two pages, an app shows no message twice
\* and none after a newer one: any number of messages, any size of a page
\* (Handle_User_Get_Message_List).
THEOREM MessagesInOrder == MessagesSpec => []ShownInOrder
<1>1. MessagesInv => ShownInOrder
  BY DEF MessagesInv, ReadInv, InOrderSoFar, ShownInOrder
<1>2. QED BY <1>1, MessagesInvAlways, PTL

\* An app that has asked until a page was empty has missed, of the unread messages
\* that were there from its first page on, at most as many as were deleted meanwhile
\* (Handle_User_Get_Message_List, Handle_User_Change_Message_State).  It holds of
\* all messages, read or not (ReadInv).
THEOREM FewAreMissed == MessagesSpec => []MissedAreCounted
<1>1. MessagesInv => MissedAreCounted
  <2> SUFFICES ASSUME MessagesInv, NEW me \in Names, reading[me].over
               PROVE  Cardinality({id \in IdsOf(UnreadOf(me)) \cap reading[me].there :
                        \A k \in 1..Len(reading[me].shown) : reading[me].shown[k] # id})
                        <= reading[me].removed
    BY DEF MissedAreCounted
  <2> DEFINE ids == IdsOf(MessagesOf(me))
             missed == {id \in IdsOf(UnreadOf(me)) \cap reading[me].there :
                          \A k \in 1..Len(reading[me].shown) : reading[me].shown[k] # id}
  <2>1. Cardinality(Unseen(reading[me], ids)) <= reading[me].removed
    BY DEF MessagesInv, ReadInv, FewMissed
  <2>2. missed \subseteq Unseen(reading[me], ids) /\ Unseen(reading[me], ids) \subseteq ids
    BY DEF Unseen, IdsOf, UnreadOf
  <2>3. IsFiniteSet(ids)
    BY IdsAre DEF Ids, MessagesInv
  <2>4. reading[me].removed \in Nat
    BY DEF MessagesInv, MessagesTypeOK, Reading
  <2> HIDE DEF missed, ids
  <2>5. IsFiniteSet(Unseen(reading[me], ids))
    BY <2>2, <2>3, PartOf
  <2>6. /\ Cardinality(missed) \in Nat /\ Cardinality(Unseen(reading[me], ids)) \in Nat
        /\ Cardinality(missed) <= Cardinality(Unseen(reading[me], ids))
    BY <2>2, <2>5, PartOf
  <2>7. Cardinality(missed) <= reading[me].removed
    BY <2>1, <2>4, <2>6
  <2>8. QED BY <2>7 DEF missed
<1>2. QED BY <1>1, MessagesInvAlways, PTL

(***************************************************************************)
(* The base.  Whatever a handler does to UserBaseTable is to append a row  *)
(* at most and to write at most once (BaseSteps); neither the number of    *)
(* rows nor what is paid depend on the values that are written.            *)
(***************************************************************************)

LEMMA Smallest ==
  ASSUME NEW S \in SUBSET Nat, S # {}
  PROVE  \E x \in S : \A y \in S : x <= y
<1> DEFINE R == OpToRel(<, Nat)
<1>1. \A i, j \in Nat : i < j => <<i, j>> \in R
  BY DEF OpToRel
<1>2. IsWellFoundedOn(R, Nat)
  BY NatLessThanWellFounded
<1> HIDE DEF R
<1>3. PICK x \in S : \A y \in S : ~ (<<y, x>> \in R)
  BY <1>2, WFMin
<1>4. ASSUME NEW y \in S PROVE x <= y
  <2>1. x \in Nat /\ y \in Nat /\ ~ (<<y, x>> \in R)
    BY <1>3
  <2>2. ~ (y < x)
    BY <1>1, <2>1
  <2>3. QED BY <2>1, <2>2
<1>5. QED BY <1>3, <1>4

LEMMA BaseConstants ==
  /\ \A u \in Users : u \in Nat \ {0}
  /\ \A w \in Widths : w \in Nat /\ Height[w] \in Nat \ {0}
  /\ Price \in Nat \ {0} /\ BuildTime \in Nat /\ StartMoney \in Nat
  /\ StartSize \in Nat /\ StartWall \in Nat
  /\ Times \subseteq Nat /\ MaxFailures \in Nat
BY BaseAssumption

LEMMA NewBaseType == \A u \in Nat : NewBase(u) \in BaseRow
BY BaseConstants DEF NewBase, BaseRow

\* The users who have a row.
HavingRows(rows) == {u \in Users : \E g \in DOMAIN rows : rows[g].mid = u}

CountedRows(rows, n) ==
  IsFiniteSet(HavingRows(rows)) /\ Len(rows) <= Cardinality(HavingRows(rows)) + n

LEMMA HavingBases == HavingRows(base) = {u \in Users : BasesOf(u) # {}}
BY DEF HavingRows, BasesOf

(* One more row.                                                           *)

LEMMA AppendBase ==
  ASSUME NEW rows \in Seq(BaseRow), NEW v \in Nat,
         NEW more, more = Append(rows, NewBase(v))
  PROVE  /\ more \in Seq(BaseRow) /\ Len(more) = Len(rows) + 1
         /\ DOMAIN more = 1..Len(rows) + 1 /\ DOMAIN rows = 1..Len(rows)
         /\ \A g \in 1..Len(rows) : more[g] = rows[g]
         /\ more[Len(rows) + 1] = NewBase(v)
<1>1. NewBase(v) \in BaseRow
  BY NewBaseType
<1>2. QED BY <1>1

LEMMA AppendHaving ==
  ASSUME NEW rows \in Seq(BaseRow), NEW v \in Nat,
         NEW more, more = Append(rows, NewBase(v))
  PROVE  HavingRows(more) = HavingRows(rows) \cup ({v} \cap Users)
<1>1. Len(rows) \in Nat
  OBVIOUS
<1>2. NewBase(v).mid = v
  BY DEF NewBase
<1>3. DOMAIN more = DOMAIN rows \cup {Len(rows) + 1}
      /\ (\A g \in DOMAIN rows : more[g] = rows[g])
      /\ more[Len(rows) + 1].mid = v
  BY <1>1, <1>2, AppendBase
<1>4. ASSUME NEW u \in Users
      PROVE  (\E g \in DOMAIN more : more[g].mid = u)
               <=> (\E g \in DOMAIN rows : rows[g].mid = u) \/ u = v
  BY <1>3
<1>5. QED BY <1>4 DEF HavingRows

LEMMA AppendCounts ==
  ASSUME NEW rows \in Seq(BaseRow), NEW v \in Nat, NEW n \in Nat, NEW m \in Nat,
         CountedRows(rows, n),
         n < m \/ (n <= m /\ v \in Users /\ v \notin HavingRows(rows)),
         NEW more, more = Append(rows, NewBase(v))
  PROVE  CountedRows(more, m)
<1>1. HavingRows(more) = HavingRows(rows) \cup ({v} \cap Users)
  BY AppendHaving
<1>2. Len(more) = Len(rows) + 1 /\ Len(rows) \in Nat
  BY AppendBase
<1>3. IsFiniteSet(HavingRows(rows)) /\ Len(rows) <= Cardinality(HavingRows(rows)) + n
  BY DEF CountedRows
<1>4. Cardinality(HavingRows(rows)) \in Nat
  BY <1>3, FS_CardinalityType
<1>5. CASE v \notin Users
  <2>1. HavingRows(more) = HavingRows(rows)
    BY <1>1, <1>5
  <2>2. Len(more) <= Cardinality(HavingRows(rows)) + m
    BY <1>2, <1>3, <1>4, <1>5
  <2>3. QED BY <1>3, <2>1, <2>2 DEF CountedRows
<1>6. CASE v \in Users
  <2>1. HavingRows(more) = HavingRows(rows) \cup {v}
    BY <1>1, <1>6
  <2>2. /\ IsFiniteSet(HavingRows(more))
        /\ Cardinality(HavingRows(more)) =
             IF v \in HavingRows(rows) THEN Cardinality(HavingRows(rows))
             ELSE Cardinality(HavingRows(rows)) + 1
    BY <1>3, <2>1, FS_AddElement
  <2>3. Len(more) <= Cardinality(HavingRows(more)) + m
    <3>1. CASE v \in HavingRows(rows)
      BY <1>2, <1>3, <1>4, <2>2, <3>1
    <3>2. CASE v \notin HavingRows(rows)
      BY <1>2, <1>3, <1>4, <2>2, <3>2
    <3>3. QED BY <3>1, <3>2
  <2>4. QED BY <2>2, <2>3 DEF CountedRows
<1>7. QED BY <1>5, <1>6

(* UpdateUserBase.                                                         *)

LEMMA UpdatedRows ==
  ASSUME NEW rows \in Seq(BaseRow), NEW u \in Nat, NEW info \in BaseRow,
         NEW new, new = Updated(rows, u, info)
  PROVE  /\ new \in Seq(BaseRow) /\ DOMAIN new = DOMAIN rows /\ Len(new) = Len(rows)
         /\ \A g \in DOMAIN rows : /\ new[g].mid = rows[g].mid
                                   /\ rows[g].mid # info.ey => new[g] = rows[g]
<1>1. \A g \in DOMAIN rows : rows[g] \in BaseRow
  OBVIOUS
<1>2. ASSUME NEW row \in BaseRow
      PROVE  Shifted(row, u, info) \in BaseRow /\ Shifted(row, u, info).mid = row.mid
  BY DEF Shifted, BaseRow
<1>3. DOMAIN new = DOMAIN rows
  BY DEF Updated
<1>4. \A g \in DOMAIN rows :
        new[g] = IF rows[g].mid = info.ey THEN Shifted(rows[g], u, info) ELSE rows[g]
  BY DEF Updated
<1>5. \A g \in DOMAIN rows : new[g] \in BaseRow
  BY <1>1, <1>2, <1>4
<1>6. new \in Seq(BaseRow) /\ Len(new) = Len(rows)
  <2>1. DOMAIN new = 1..Len(rows) /\ Len(rows) \in Nat
    BY <1>3
  <2>2. new = [g \in 1..Len(rows) |-> new[g]]
    BY <2>1 DEF Updated
  <2>3. \A g \in 1..Len(rows) : new[g] \in BaseRow
    BY <1>3, <1>5, <2>1
  <2>4. new \in [1..Len(rows) -> BaseRow]
    BY <2>2, <2>3
  <2>5. QED BY <2>1, <2>4
<1>7. QED BY <1>1, <1>2, <1>3, <1>4, <1>6

LEMMA UpdatedHaving ==
  ASSUME NEW rows \in Seq(BaseRow), NEW u \in Nat, NEW info \in BaseRow,
         NEW new, new = Updated(rows, u, info)
  PROVE  HavingRows(new) = HavingRows(rows)
<1>1. DOMAIN new = DOMAIN rows
  BY DEF Updated
<1>2. ASSUME NEW g \in DOMAIN rows PROVE new[g].mid = rows[g].mid
  <2>1. new[g] = IF rows[g].mid = info.ey THEN Shifted(rows[g], u, info) ELSE rows[g]
    BY DEF Updated
  <2>2. Shifted(rows[g], u, info).mid = rows[g].mid
    BY DEF Shifted
  <2>3. QED BY <2>1, <2>2
<1>3. ASSUME NEW v \in Users
      PROVE  (\E g \in DOMAIN new : new[g].mid = v) <=> (\E g \in DOMAIN rows : rows[g].mid = v)
  BY <1>1, <1>2
<1>4. QED BY <1>3 DEF HavingRows

LEMMA UpdatedCounts ==
  ASSUME NEW rows \in Seq(BaseRow), NEW u \in Nat, NEW info \in BaseRow, NEW n \in Nat,
         CountedRows(rows, n), NEW new, new = Updated(rows, u, info)
  PROVE  CountedRows(new, n)
<1>1. HavingRows(new) = HavingRows(rows)
  BY UpdatedHaving
<1>2. Len(new) = Len(rows)
  BY UpdatedRows
<1>3. QED BY <1>1, <1>2 DEF CountedRows

(* What the handlers do to the table.                                      *)

LEMMA CheckedIs ==
  ASSUME BaseTypeOK, NEW u \in Users
  PROVE  /\ Checked(u).base \in Seq(BaseRow) /\ Checked(u).info \in BaseRow
         /\ \/ Checked(u).base = base
            \/ Checked(u).base = Append(base, NewBase(u)) /\ BasesOf(u) = {}
<1>0. base \in Seq(BaseRow) /\ u \in Nat
  BY BaseConstants DEF BaseTypeOK
<1>1. CASE BasesOf(u) = {}
  <2>1. Checked(u) = [base |-> Append(base, NewBase(u)), info |-> NoBase]
    BY <1>1 DEF Checked
  <2>2. NoBase \in BaseRow
    BY DEF NoBase, BaseRow
  <2>3. Append(base, NewBase(u)) \in Seq(BaseRow)
    BY <1>0, AppendBase
  <2>4. QED BY <1>1, <2>1, <2>2, <2>3
<1>2. CASE BasesOf(u) # {}
  <2> DEFINE first == CHOOSE g \in BasesOf(u) : \A h \in BasesOf(u) : g <= h
  <2>1. Checked(u) = [base |-> base, info |-> base[first]]
    BY <1>2 DEF Checked
  <2>2. BasesOf(u) \in SUBSET Nat /\ BasesOf(u) \subseteq DOMAIN base
    BY <1>0 DEF BasesOf
  <2>3. \E g \in BasesOf(u) : \A h \in BasesOf(u) : g <= h
    BY <1>2, <2>2, Smallest
  <2>4. first \in BasesOf(u)
    BY <2>3
  <2> HIDE DEF first
  <2>5. base[first] \in BaseRow
    BY <1>0, <2>2, <2>4
  <2>6. QED BY <1>0, <2>1, <2>5
<1>3. QED BY <1>1, <1>2

LEMMA UncheckedIs ==
  ASSUME BaseTypeOK, NEW u \in Users, NEW cut \in Unchecked(u)
  PROVE  /\ cut.cost \in 1..2
         /\ cut.base \in {base, Append(base, NewBase(0)), Append(base, NewBase(u))}
BY DEF Unchecked

\* A table that is at most a row longer than the present one, and the failures
\* that allow it.
Longer(u, rows) ==
  \/ rows = base
  \/ rows = Append(base, NewBase(u)) /\ BasesOf(u) = {}
  \/ rows \in {Append(base, NewBase(0)), Append(base, NewBase(u))} /\ failures < failures'

BaseStep(u) ==
  /\ failures' \in 0..MaxFailures /\ failures <= failures'
  /\ \E rows \in Seq(BaseRow) :
       /\ Longer(u, rows)
       /\ \/ base' = rows
          \/ \E info \in BaseRow : base' = Updated(rows, u, info)

LEMMA FailingIs ==
  ASSUME BaseTypeOK, NEW cost \in Nat, Failing(cost)
  PROVE  /\ failures' \in 0..MaxFailures /\ failures <= failures'
         /\ cost > 0 => failures < failures'
BY BaseConstants DEF BaseTypeOK, Failing

LEMMA CutStep ==
  ASSUME BaseTypeOK, NEW u \in Users, NEW cut \in Unchecked(u),
         Failing(cut.cost), base' = cut.base
  PROVE  BaseStep(u)
<1>1. cut.cost \in Nat /\ cut.cost > 0
      /\ cut.base \in {base, Append(base, NewBase(0)), Append(base, NewBase(u))}
  BY UncheckedIs
<1>2. failures' \in 0..MaxFailures /\ failures <= failures' /\ failures < failures'
  BY <1>1, FailingIs
<1>3. base \in Seq(BaseRow) /\ u \in Nat
  BY BaseConstants DEF BaseTypeOK
<1>4. Append(base, NewBase(0)) \in Seq(BaseRow) /\ Append(base, NewBase(u)) \in Seq(BaseRow)
  BY <1>3, AppendBase
<1>5. cut.base \in Seq(BaseRow) /\ Longer(u, cut.base)
  BY <1>1, <1>2, <1>3, <1>4 DEF Longer
<1>6. QED BY <1>2, <1>5 DEF BaseStep

Written(info, end, width, height) ==
  [info EXCEPT !.status = 1, !.endtimer = end, !.ex = width, !.ey = height]

LEMMA InfoWritten ==
  ASSUME NEW info \in BaseRow, NEW end \in Nat, NEW width \in Nat, NEW height \in Nat
  PROVE  Written(info, end, width, height) \in BaseRow
BY DEF Written, BaseRow

LEMMA EnlargedIs ==
  ASSUME BaseTypeOK, NEW u \in Users, CanBuy(u), NEW now \in Times
  PROVE  Enlarged(u, now) \in BaseRow
<1>1. PICK width \in Widths : width = player[u].width + 1
  BY DEF CanBuy
<1>2. PICK end \in Nat, height \in Nat : end = now + BuildTime /\ height = Height[width]
  BY BaseConstants
<1>3. PICK info \in BaseRow : info = Checked(u).info
  BY CheckedIs
<1>4. Enlarged(u, now) = Written(info, end, width, height)
  BY <1>1, <1>2, <1>3 DEF Enlarged, Written
<1>5. width \in Nat
  BY BaseConstants
<1>6. QED BY <1>2, <1>3, <1>4, <1>5, InfoWritten

LEMMA CheckedStep ==
  ASSUME BaseTypeOK, NEW u \in Users,
         failures' \in 0..MaxFailures, failures <= failures',
         \/ base' = Checked(u).base
         \/ \E info \in BaseRow : base' = Updated(Checked(u).base, u, info)
  PROVE  BaseStep(u)
<1>1. Checked(u).base \in Seq(BaseRow) /\ Longer(u, Checked(u).base)
  BY CheckedIs DEF Longer
<1>2. QED BY <1>1 DEF BaseStep

LEMMA BaseSteps ==
  ASSUME BaseTypeOK, NEW u \in Users,
         LoadBase(u) \/ LoadNoBase(u) \/ Logout(u) \/ BuyEnlarge(u) \/ BuyFails(u)
  PROVE  BaseStep(u)
<1>0. failures \in 0..MaxFailures /\ MaxFailures \in Nat /\ base \in Seq(BaseRow)
  BY BaseConstants DEF BaseTypeOK
<1>1. CASE LoadBase(u)
  <2>1. PICK now \in Times, failed \in BOOLEAN :
          LET info  == Checked(u).info
              over  == info.status = 1 /\ info.endtimer <= now
              ended == [info EXCEPT !.status = 0, !.endtimer = 0, !.x = info.ex, !.y = info.ey,
                                    !.ex = 0, !.ey = 0, !.wallx = info.ex]
          IN  /\ Failing(IF failed THEN 1 ELSE 0)
              /\ base' = IF over /\ ~failed THEN Updated(Checked(u).base, u, ended)
                         ELSE Checked(u).base
    BY <1>1 DEF LoadBase
  <2>2. PICK info \in BaseRow : info = Checked(u).info
    BY CheckedIs
  <2> DEFINE ended == [info EXCEPT !.status = 0, !.endtimer = 0, !.x = info.ex, !.y = info.ey,
                                   !.ex = 0, !.ey = 0, !.wallx = info.ex]
  <2>3. ended \in BaseRow
    BY DEF BaseRow
  <2>4. base' \in {Updated(Checked(u).base, u, ended), Checked(u).base}
    BY <2>1, <2>2
  <2>5. failures' \in 0..MaxFailures /\ failures <= failures'
    BY <2>1, FailingIs
  <2> HIDE DEF ended
  <2>6. QED BY <2>3, <2>4, <2>5, CheckedStep
<1>2. CASE LoadNoBase(u)
  BY <1>2, CutStep DEF LoadNoBase
<1>3. CASE Logout(u)
  <2>1. base' = base /\ failures' = failures
    BY <1>3 DEF Logout
  <2>2. QED BY <1>0, <2>1 DEF BaseStep, Longer
<1>4. CASE BuyEnlarge(u)
  <2>1. CanBuy(u)
    BY <1>4 DEF BuyEnlarge
  <2>2. PICK now \in Times :
          /\ base' \in {Updated(Checked(u).base, u, Enlarged(u, now)), Checked(u).base}
          /\ failures' = failures \/ Failing(1)
    BY <1>4 DEF BuyEnlarge
  <2>3. failures' \in 0..MaxFailures /\ failures <= failures'
    BY <1>0, <2>2, FailingIs
  <2>4. Enlarged(u, now) \in BaseRow
    BY <2>1, EnlargedIs
  <2>5. QED BY <2>2, <2>3, <2>4, CheckedStep
<1>5. CASE BuyFails(u)
  <2>1. CASE \E cut \in Unchecked(u) : Failing(cut.cost) /\ base' = cut.base
    BY <2>1, CutStep
  <2>2. CASE Failing(1) /\ base' = Checked(u).base
    <3>1. failures' \in 0..MaxFailures /\ failures <= failures'
      BY <2>2, FailingIs
    <3>2. QED BY <2>2, <3>1, CheckedStep
  <2>3. QED BY <1>5, <2>1, <2>2 DEF BuyFails
<1>6. QED BY <1>1, <1>2, <1>3, <1>4, <1>5

(* Types.                                                                  *)

LEMMA BaseStepType ==
  ASSUME BaseTypeOK, NEW u \in Users, BaseStep(u)
  PROVE  base' \in Seq(BaseRow) /\ failures' \in 0..MaxFailures
<1>1. u \in Nat
  BY BaseConstants
<1>2. PICK rows \in Seq(BaseRow) :
        \/ base' = rows
        \/ \E info \in BaseRow : base' = Updated(rows, u, info)
  BY DEF BaseStep
<1>3. CASE \E info \in BaseRow : base' = Updated(rows, u, info)
  <2>1. PICK info \in BaseRow : base' = Updated(rows, u, info)
    BY <1>3
  <2>2. base' \in Seq(BaseRow)
    BY <1>1, <2>1, UpdatedRows
  <2>3. QED BY <2>2 DEF BaseStep
<1>4. QED BY <1>2, <1>3 DEF BaseStep

\* What the handlers do to accounts and players.
Paid(u) ==
  /\ CanBuy(u)
  /\ money' = [money EXCEPT ![u] = player[u].money - Price]
  /\ player' = [player EXCEPT ![u].money = @ - Price]
  /\ base' # base

NotPaid(u) ==
  /\ money' = money
  /\ \/ player' \in {player, Everybody, [player EXCEPT ![u] = Offline]}
     \/ \E width \in Nat : player' = [player EXCEPT ![u] = [money |-> money[u], width |-> width]]

LEMMA MoneySteps ==
  ASSUME BaseTypeOK, NEW u \in Users,
         LoadBase(u) \/ LoadNoBase(u) \/ Logout(u) \/ BuyEnlarge(u) \/ BuyFails(u)
  PROVE  Paid(u) \/ NotPaid(u)
<1>1. CASE LoadBase(u)
  <2>1. PICK info \in BaseRow : info = Checked(u).info
    BY CheckedIs
  <2>2. money' = money /\ \E width \in {info.x, info.ex} :
          player' = [player EXCEPT ![u] = [money |-> money[u], width |-> width]]
    BY <1>1, <2>1 DEF LoadBase
  <2>3. info.x \in Nat /\ info.ex \in Nat
    BY DEF BaseRow
  <2>4. QED BY <2>2, <2>3 DEF NotPaid
<1>2. CASE LoadNoBase(u)
  <2>1. money' = money
        /\ (player' = Everybody \/ \E width : /\ width = IF player[u] = Offline THEN StartSize
                                                        ELSE player[u].width
                                             /\ player' = [player EXCEPT ![u] =
                                                  [money |-> money[u], width |-> width]])
    BY <1>2 DEF LoadNoBase
  <2>2. player[u] # Offline => player[u] \in Loaded
    BY DEF BaseTypeOK
  <2>3. (IF player[u] = Offline THEN StartSize ELSE player[u].width) \in Nat
    BY <2>2, BaseConstants DEF Loaded
  <2>4. QED BY <2>1, <2>3 DEF NotPaid
<1>3. CASE Logout(u)
  BY <1>3 DEF Logout, NotPaid
<1>4. CASE BuyEnlarge(u)
  <2>1. CanBuy(u)
    BY <1>4 DEF BuyEnlarge
  <2>2. PICK now \in Times :
          \/ /\ base' = Updated(Checked(u).base, u, Enlarged(u, now))
             /\ base' # Checked(u).base
             /\ money' = [money EXCEPT ![u] = player[u].money - Price]
             /\ player' = [player EXCEPT ![u].money = @ - Price]
          \/ money' = money /\ player' \in {player, Everybody}
    BY <1>4 DEF BuyEnlarge
  <2>3. CASE money' = money /\ player' \in {player, Everybody}
    BY <2>3 DEF NotPaid
  <2>4. CASE /\ base' = Updated(Checked(u).base, u, Enlarged(u, now))
             /\ base' # Checked(u).base
             /\ money' = [money EXCEPT ![u] = player[u].money - Price]
             /\ player' = [player EXCEPT ![u].money = @ - Price]
\* With a row made for it the table is longer, and otherwise it is the changed
\* one.
    <3>1. CASE Checked(u).base = base
      BY <2>1, <2>4, <3>1 DEF Paid
    <3>2. CASE Checked(u).base = Append(base, NewBase(u))
      <4>1. base \in Seq(BaseRow) /\ u \in Nat
        BY BaseConstants DEF BaseTypeOK
      <4>2. Checked(u).base \in Seq(BaseRow) /\ Len(Checked(u).base) = Len(base) + 1
        BY <3>2, <4>1, AppendBase
      <4>3. Enlarged(u, now) \in BaseRow
        BY <2>1, EnlargedIs
      <4>4. Len(base') = Len(Checked(u).base)
        BY <2>4, <4>1, <4>2, <4>3, UpdatedRows
      <4>5. base' # base
        BY <4>1, <4>2, <4>4
      <4>6. QED BY <2>1, <2>4, <4>5 DEF Paid
    <3>3. QED BY <3>1, <3>2, CheckedIs
  <2>5. QED BY <2>2, <2>3, <2>4
<1>5. CASE BuyFails(u)
  BY <1>5 DEF BuyFails, NotPaid
<1>6. QED BY <1>1, <1>2, <1>3, <1>4, <1>5

LEMMA PlayersAre ==
  ASSUME BaseTypeOK, NEW u \in Users, player[u] # Offline
  PROVE  player[u] \in Loaded /\ player[u].money \in Nat /\ player[u].width \in Nat
<1>1. player[u] \in Loaded
  BY DEF BaseTypeOK
<1>2. QED BY <1>1 DEF Loaded

LEMMA MoneyType ==
  ASSUME BaseTypeOK, MoneyIsTheAccount, NEW u \in Users, Paid(u) \/ NotPaid(u)
  PROVE  money' \in [Users -> Nat] /\ player' \in [Users -> Loaded \cup {Offline}]
         /\ MoneyIsTheAccount'
<1>0. money \in [Users -> Nat] /\ player \in [Users -> Loaded \cup {Offline}]
  BY DEF BaseTypeOK
<1>1. CASE Paid(u)
  <2>1. player[u] # Offline /\ player[u].money >= Price
    BY <1>1 DEF Paid, CanBuy
  <2>2. PICK was \in Loaded : was = player[u]
    BY <2>1, PlayersAre
  <2>3. PICK rest \in Nat : rest = was.money - Price
    BY <2>1, <2>2, BaseConstants DEF Loaded
  <2>4. money' = [money EXCEPT ![u] = rest]
    BY <1>1, <2>2, <2>3 DEF Paid
  <2>5. PICK now \in Loaded : now = [was EXCEPT !.money = rest] /\ now.money = rest
    <3>1. [was EXCEPT !.money = rest] \in Loaded
      BY DEF Loaded
    <3>2. [was EXCEPT !.money = rest].money = rest
      BY DEF Loaded
    <3>3. QED BY <3>1, <3>2
  <2>6. player' = [player EXCEPT ![u] = now]
    BY <1>0, <1>1, <2>2, <2>3, <2>5 DEF Paid
  <2>7. MoneyIsTheAccount'
    BY <1>0, <2>4, <2>5, <2>6 DEF MoneyIsTheAccount
  <2>8. QED BY <1>0, <2>4, <2>6, <2>7
<1>2. CASE NotPaid(u)
  <2>1. money' = money
    BY <1>2 DEF NotPaid
  <2>2. CASE player' \in {player, Everybody, [player EXCEPT ![u] = Offline]}
    BY <1>0, <2>1, <2>2 DEF MoneyIsTheAccount, Everybody
  <2>3. CASE \E width \in Nat : player' = [player EXCEPT ![u] = [money |-> money[u], width |-> width]]
    <3>1. PICK width \in Nat : player' = [player EXCEPT ![u] = [money |-> money[u], width |-> width]]
      BY <2>3
    <3>2. PICK now \in Loaded : now = [money |-> money[u], width |-> width] /\ now.money = money[u]
      <4>1. [money |-> money[u], width |-> width] \in Loaded
        BY <1>0 DEF Loaded
      <4>2. [money |-> money[u], width |-> width].money = money[u]
        OBVIOUS
      <4>3. QED BY <4>1, <4>2
    <3>3. player' = [player EXCEPT ![u] = now]
      BY <3>1, <3>2
    <3>4. MoneyIsTheAccount'
      BY <1>0, <2>1, <3>2, <3>3 DEF MoneyIsTheAccount
    <3>5. QED BY <1>0, <2>1, <3>3, <3>4
  <2>4. QED BY <1>2, <2>2, <2>3 DEF NotPaid
<1>3. QED BY <1>1, <1>2

(* The invariant.                                                          *)

BaseInv ==
  /\ BaseTypeOK
  /\ MoneyIsTheAccount
  /\ CountedRows(base, failures)

LEMMA BaseStepRows ==
  ASSUME BaseInv, NEW u \in Users, BaseStep(u)
  PROVE  CountedRows(base', failures')
<1>0. base \in Seq(BaseRow) /\ u \in Nat /\ failures \in Nat /\ failures' \in Nat
      /\ failures <= failures' /\ CountedRows(base, failures)
  BY BaseConstants DEF BaseInv, BaseTypeOK, BaseStep
<1>1. PICK rows \in Seq(BaseRow) :
        /\ Longer(u, rows)
        /\ \/ base' = rows
           \/ \E info \in BaseRow : base' = Updated(rows, u, info)
  BY DEF BaseStep
<1>2. CountedRows(rows, failures')
  <2>1. CASE rows = base
    <3>1. Cardinality(HavingRows(base)) \in Nat /\ Len(base) \in Nat
      BY <1>0, FS_CardinalityType DEF CountedRows
    <3>2. QED BY <1>0, <2>1, <3>1 DEF CountedRows
  <2>2. CASE rows = Append(base, NewBase(u)) /\ BasesOf(u) = {}
    <3>1. u \notin HavingRows(base)
      BY <2>2, HavingBases
    <3>2. QED BY <1>0, <2>2, <3>1, AppendCounts
  <2>3. CASE /\ rows \in {Append(base, NewBase(0)), Append(base, NewBase(u))}
             /\ failures < failures'
    <3>1. PICK v \in Nat : rows = Append(base, NewBase(v))
      BY <1>0, <2>3
    <3>2. QED BY <1>0, <2>3, <3>1, AppendCounts
  <2>4. QED BY <1>1, <2>1, <2>2, <2>3 DEF Longer
<1>3. CASE \E info \in BaseRow : base' = Updated(rows, u, info)
  BY <1>0, <1>2, <1>3, UpdatedCounts
<1>4. QED BY <1>1, <1>2, <1>3

LEMMA BaseInvNext == BaseInv /\ [BaseNext]_baseVars => BaseInv'
<1> SUFFICES ASSUME BaseInv, [BaseNext]_baseVars PROVE BaseInv'
  OBVIOUS
<1>1. CASE BaseNext
  <2>1. PICK u \in Users :
          LoadBase(u) \/ LoadNoBase(u) \/ Logout(u) \/ BuyEnlarge(u) \/ BuyFails(u)
    BY <1>1 DEF BaseNext
  <2>2. BaseTypeOK /\ MoneyIsTheAccount
    BY DEF BaseInv
  <2>3. BaseStep(u) /\ (Paid(u) \/ NotPaid(u))
    BY <2>1, <2>2, BaseSteps, MoneySteps
  <2>4. base' \in Seq(BaseRow) /\ failures' \in 0..MaxFailures
    BY <2>2, <2>3, BaseStepType
  <2>5. money' \in [Users -> Nat] /\ player' \in [Users -> Loaded \cup {Offline}]
        /\ MoneyIsTheAccount'
    BY <2>2, <2>3, MoneyType
  <2>6. CountedRows(base', failures')
    BY <2>3, BaseStepRows
  <2>7. QED BY <2>4, <2>5, <2>6 DEF BaseInv, BaseTypeOK
<1>2. CASE UNCHANGED baseVars
  <2>1. base' = base /\ money' = money /\ player' = player /\ failures' = failures
    BY <1>2 DEF baseVars
  <2>2. QED BY <2>1 DEF BaseInv, BaseTypeOK, MoneyIsTheAccount
<1>3. QED BY <1>1, <1>2

LEMMA BaseInvInit == BaseInit => BaseInv
<1> SUFFICES ASSUME BaseInit PROVE BaseInv
  OBVIOUS
<1>1. base = <<>> /\ base \in Seq(BaseRow) /\ Len(base) = 0 /\ DOMAIN base = {}
  BY DEF BaseInit
<1>2. BaseTypeOK /\ MoneyIsTheAccount
  BY <1>1, BaseConstants DEF BaseInit, BaseTypeOK, MoneyIsTheAccount
<1>3. CountedRows(base, failures)
  <2>1. HavingRows(base) = {}
    BY <1>1 DEF HavingRows
  <2>2. IsFiniteSet(HavingRows(base)) /\ Cardinality(HavingRows(base)) = 0
    BY <2>1, FS_EmptySet
  <2>3. failures = 0
    BY DEF BaseInit
  <2>4. QED BY <1>1, <2>2, <2>3 DEF CountedRows
<1>4. QED BY <1>2, <1>3 DEF BaseInv

LEMMA BaseInvAlways == BaseSpec => []BaseInv
BY BaseInvInit, BaseInvNext, PTL DEF BaseSpec

\* Types: no account is ever overdrawn.
THEOREM BaseTypes == BaseSpec => []BaseTypeOK
<1>1. BaseInv => BaseTypeOK
  BY DEF BaseInv
<1>2. QED BY <1>1, BaseInvAlways, PTL

\* What an online user can spend is what his account has.
THEOREM MoneyAgrees == BaseSpec => []MoneyIsTheAccount
<1>1. BaseInv => MoneyIsTheAccount
  BY DEF BaseInv
<1>2. QED BY <1>1, BaseInvAlways, PTL

\* A row more than one per user took a failure.
THEOREM RowsTakeFailures == BaseSpec => []RowsAreCounted
<1>1. BaseInv => RowsAreCounted
  BY HavingBases DEF BaseInv, CountedRows, RowsAreCounted
<1>2. QED BY <1>1, BaseInvAlways, PTL

\* Nobody pays when no base was written.
THEOREM NobodyPaysForNothing == BaseSpec => PaidIsWritten
<1> DEFINE Step == \A u \in Users : money'[u] < money[u] => /\ money'[u] = money[u] - Price
                                                            /\ base' # base
<1>1. BaseInv /\ [BaseNext]_baseVars => [Step]_baseVars
  <2> SUFFICES ASSUME BaseInv, BaseNext PROVE Step
    OBVIOUS
  <2>1. PICK u \in Users :
          LoadBase(u) \/ LoadNoBase(u) \/ Logout(u) \/ BuyEnlarge(u) \/ BuyFails(u)
    BY DEF BaseNext
  <2>2. BaseTypeOK /\ MoneyIsTheAccount
    BY DEF BaseInv
  <2>3. money \in [Users -> Nat]
    BY <2>2 DEF BaseTypeOK
  <2>4. CASE Paid(u)
    <3>1. player[u] # Offline /\ player[u].money = money[u]
      BY <2>2, <2>4 DEF Paid, CanBuy, MoneyIsTheAccount
    <3>2. money' = [money EXCEPT ![u] = money[u] - Price] /\ base' # base
      BY <2>4, <3>1 DEF Paid
    <3>3. QED BY <2>3, <3>2
  <2>5. CASE NotPaid(u)
    <3>1. money' = money
      BY <2>5 DEF NotPaid
    <3>2. QED BY <2>3, <3>1
  <2>6. QED BY <2>1, <2>2, <2>4, <2>5, MoneySteps
<1>2. QED BY <1>1, BaseInvAlways, PTL DEF BaseSpec, PaidIsWritten
=============================================================================
