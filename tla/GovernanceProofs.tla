--------------------------- MODULE GovernanceProofs ---------------------------
(***************************************************************************)
(* Theorems about GovernancePowerDelegation, for any accounts, amounts and *)
(* initial balances: the snapshots of an account are ordered by block,     *)
(* the power of an account is the balance behind it as a delegatee, and    *)
(* what is answered about a past block is the power at its end.            *)
(*                                                                         *)
(* The second is not inductive: an account without snapshots answers with  *)
(* its balance, which is its power only as long as nobody but itself has   *)
(* chosen it.  PowerOf adds that.                                          *)
(***************************************************************************)
EXTENDS GovernancePowerDelegation, SumLemmas, SequenceTheorems, TLAPS

Account == Users \cup {ZERO}

\* The log of one account: SnapshotsOrdered is this for all logs.
LogOrdered(log) ==
    /\ \A i, j \in DOMAIN log : i < j => log[i].blockNumber < log[j].blockNumber
    /\ \A i \in DOMAIN log : log[i].blockNumber <= blockNumber

\* Nobody but u has its balance count for u.
OwnOnly(type, u) == \A v \in Users : GetDelegatee(type, v) = u <=> v = u

PowerOf(type, u) ==
    LET log == snapshots[type][u] IN
    IF log = <<>> THEN OwnOnly(type, u) ELSE Latest(log).value = DelegatedBalance(type, u)

PowerInv == \A type \in Types, u \in Users : PowerOf(type, u)

GovernanceInv == TypeOK /\ SnapshotsOrdered /\ PowerInv

-----------------------------------------------------------------------------
(* One account.                                                              *)

\* The two ways to write a snapshot keep a log in order, and the last value is
\* the one written.
LEMMA WriteKeepsOrder ==
    ASSUME NEW log \in Seq(Snapshot), NEW newValue \in Nat, blockNumber \in Nat,
           LogOrdered(log)
    PROVE  LET new == WriteSnapshot(log, newValue) IN
           /\ new \in Seq(Snapshot)
           /\ new # <<>>
           /\ Latest(new).value = newValue
           /\ LogOrdered(new)
<1> DEFINE n == Len(log)
           entry == [blockNumber |-> blockNumber, value |-> newValue]
<1>1. entry \in Snapshot /\ n \in Nat /\ DOMAIN log = 1..n
  BY DEF Snapshot
<1>2. \A i \in 1..n : log[i] \in Snapshot /\ log[i].blockNumber \in Nat /\ log[i].value \in Nat
  <2>1. ASSUME NEW i \in 1..n PROVE log[i] \in Snapshot
    BY <1>1
  <2>2. \A s \in Snapshot : s.blockNumber \in Nat /\ s.value \in Nat
    BY DEF Snapshot
  <2> QED BY <2>1, <2>2
<1>3. CASE log # <<>> /\ Latest(log).blockNumber = blockNumber
  <2> DEFINE new == [log EXCEPT ![n].value = newValue]
  <2>1. n \in 1..n
    BY <1>1, <1>3
  <2>2. DOMAIN new = 1..n /\ \A i \in 1..n : new[i].blockNumber = log[i].blockNumber
    BY <1>1, <1>2 DEF Snapshot
  <2>3. \A i \in 1..n : new[i] \in Snapshot
    BY <1>1, <1>2, <2>1 DEF Snapshot
  <2>4. new \in Seq(Snapshot) /\ Len(new) = n
    <3>1. new = [i \in 1..n |-> new[i]]
      BY <1>1
    <3> HIDE DEF new
    <3> QED BY <1>1, <2>3, <3>1, IsASeq
  <2>5. new[n].value = newValue
    BY <1>1, <1>2, <2>1 DEF Snapshot
  <2>6. LogOrdered(new)
    BY <1>1, <2>2 DEF LogOrdered
  <2>7. WriteSnapshot(log, newValue) = new
    BY <1>3 DEF WriteSnapshot
  <2> HIDE DEF new, n
  <2> QED BY <2>1, <2>4, <2>5, <2>6, <2>7 DEF Latest
<1>4. CASE ~(log # <<>> /\ Latest(log).blockNumber = blockNumber)
  <2> DEFINE new == Append(log, entry)
  <2>1. /\ new \in Seq(Snapshot) /\ Len(new) = n + 1 /\ DOMAIN new = 1..(n + 1)
        /\ new[n + 1] = entry /\ \A i \in 1..n : new[i] = log[i]
    BY <1>1, AppendProperties
  <2>2. \A i \in 1..n : log[i].blockNumber < blockNumber
    <3> SUFFICES ASSUME NEW i \in 1..n PROVE log[i].blockNumber < blockNumber
      OBVIOUS
    <3>1. n \in 1..n /\ log # <<>>
      BY <1>1
    <3>2. log[n].blockNumber # blockNumber /\ log[n].blockNumber <= blockNumber
      BY <1>1, <1>4, <3>1 DEF Latest, LogOrdered
    <3>3. i < n => log[i].blockNumber < log[n].blockNumber
      BY <1>1, <3>1 DEF LogOrdered
    <3> QED BY <1>1, <1>2, <3>1, <3>2, <3>3
  <2>3. LogOrdered(new)
    <3>1. entry.blockNumber = blockNumber
      OBVIOUS
    <3> HIDE DEF new, entry
    <3>2. ASSUME NEW i \in 1..(n + 1), NEW j \in 1..(n + 1), i < j
          PROVE  new[i].blockNumber < new[j].blockNumber
      <4>1. i \in 1..n
        BY <1>1, <3>2
      <4>2. CASE j = n + 1
        BY <2>1, <2>2, <3>1, <4>1, <4>2
      <4>3. CASE j \in 1..n
        BY <1>1, <2>1, <3>2, <4>1, <4>3 DEF LogOrdered
      <4> QED BY <1>1, <4>2, <4>3
    <3>3. ASSUME NEW i \in 1..(n + 1) PROVE new[i].blockNumber <= blockNumber
      <4>1. CASE i = n + 1
        BY <2>1, <3>1, <4>1
      <4>2. CASE i \in 1..n
        BY <1>1, <2>1, <4>2 DEF LogOrdered
      <4> QED BY <1>1, <4>1, <4>2
    <3> QED BY <2>1, <3>2, <3>3 DEF LogOrdered
  <2>4. WriteSnapshot(log, newValue) = new
    BY <1>4 DEF WriteSnapshot
  <2>5. Latest(new).value = newValue /\ new # <<>>
    <3>1. entry.value = newValue
      OBVIOUS
    <3> HIDE DEF new, entry
    <3> QED BY <1>1, <2>1, <3>1 DEF Latest
  <2> HIDE DEF new
  <2> QED BY <2>1, <2>3, <2>4, <2>5
<1> QED BY <1>3, <1>4

-----------------------------------------------------------------------------
(* All accounts.                                                             *)

Choice(type) == [v \in Users |-> GetDelegatee(type, v)]

\* What v contributes to the power of u.
Share(b, choice, u) == [v \in Users |-> IF choice[v] = u THEN b[v] ELSE 0]

LEMMA DelegateeIsAccount ==
    ASSUME TypeOK, NEW type \in Types
    PROVE  /\ GetDelegatee(type, ZERO) = ZERO
           /\ \A u \in Users : GetDelegatee(type, u) \in Users
  BY GovernanceAssumption DEF TypeOK, GetDelegatee

LEMMA PowerIsSumOfShares ==
    ASSUME NEW type \in Types, NEW u \in Users
    PROVE  DelegatedBalance(type, u) = SumFunction(Share(balances, Choice(type), u))
<1>1. Share(balances, Choice(type), u)
        = [v \in Users |-> IF GetDelegatee(type, v) = u THEN balances[v] ELSE 0]
  BY DEF Share, Choice
<1> QED BY <1>1 DEF DelegatedBalance

LEMMA PowerIsNat ==
    ASSUME TypeOK, NEW type \in Types, NEW u \in Users
    PROVE  DelegatedBalance(type, u) \in Nat
<1>1. Share(balances, Choice(type), u) \in [Users -> Nat]
  BY DEF Share, TypeOK
<1> QED BY <1>1, PowerIsSumOfShares, SumOfNat, GovernanceAssumption

LEMMA SumOverUsers ==
    ASSUME NEW f \in [Users -> Int], NEW g \in [Users -> Int], NEW x \in Users,
           \A y \in Users \ {x} : g[y] = f[y]
    PROVE  SumFunction(g) = SumFunction(f) + g[x] - f[x]
  BY SumUpdate, GovernanceAssumption

\* A change of one balance changes the power of the delegatee.
LEMMA BalanceChangesPower ==
    ASSUME NEW b \in [Users -> Int], NEW choice, NEW u \in Users, NEW x \in Users,
           NEW k \in Int, NEW c \in [Users -> Int],
           c[x] = b[x] + k, \A v \in Users \ {x} : c[v] = b[v]
    PROVE  /\ SumFunction(Share(b, choice, u)) \in Int
           /\ SumFunction(Share(c, choice, u)) =
                SumFunction(Share(b, choice, u)) + (IF choice[x] = u THEN k ELSE 0)
<1> DEFINE f == Share(b, choice, u)
           g == Share(c, choice, u)
<1>1. f \in [Users -> Int] /\ g \in [Users -> Int]
  BY DEF Share
<1>2. \A v \in Users \ {x} : g[v] = f[v]
  BY DEF Share
<1>3. g[x] = f[x] + (IF choice[x] = u THEN k ELSE 0)
  BY DEF Share
<1> HIDE DEF f, g
<1>4. SumFunction(g) = SumFunction(f) + g[x] - f[x]
  BY ONLY x \in Users, <1>1, <1>2, SumOverUsers
<1>5. SumFunction(f) \in Int /\ f[x] \in Int
  BY <1>1, SumIsInt, GovernanceAssumption
<1>6. SumFunction(g) = SumFunction(f) + (IF choice[x] = u THEN k ELSE 0)
  BY <1>3, <1>4, <1>5
<1> QED BY <1>5, <1>6 DEF f, g

\* An account that nobody else has chosen has the power of its own balance.
LEMMA OwnPower ==
    ASSUME TypeOK, NEW type \in Types, NEW u \in Users, OwnOnly(type, u)
    PROVE  DelegatedBalance(type, u) = balances[u]
<1> DEFINE f == Share(balances, Choice(type), u)
           z == [v \in Users |-> 0]
<1>1. f \in [Users -> Int]
  BY DEF Share, TypeOK
<1>2. f[u] = balances[u] /\ \A v \in Users \ {u} : f[v] = z[v]
  BY DEF Share, Choice, OwnOnly
<1>3. z \in [Users -> Int] /\ z[u] = 0 /\ \A v \in Users : z[v] = 0
  OBVIOUS
<1>4. DelegatedBalance(type, u) = SumFunction(f)
  BY PowerIsSumOfShares
<1> HIDE DEF f, z
<1>5. SumFunction(f) = SumFunction(z) + f[u] - z[u]
  BY <1>1, <1>2, <1>3, SumOverUsers
<1>6. SumFunction(z) = 0
  BY <1>3, SumZero, GovernanceAssumption
<1>7. balances[u] \in Nat
  BY DEF TypeOK
<1> QED BY <1>2, <1>3, <1>4, <1>5, <1>6, <1>7

\* A change of power starts from the power there is.
LEMMA PreviousPowerIsPower ==
    ASSUME TypeOK, NEW type \in Types, NEW u \in Users, PowerOf(type, u)
    PROVE  PreviousPower(type, u) = DelegatedBalance(type, u)
<1>1. CASE snapshots[type][u] = <<>>
  BY <1>1, OwnPower DEF PowerOf, PreviousPower
<1>2. CASE snapshots[type][u] # <<>>
  BY <1>2 DEF PowerOf, PreviousPower
<1> QED BY <1>1, <1>2

\* What an account gains and loses when amount moves from one to the other.
Gain(u, from, to, amount) ==
    (IF u = to THEN amount ELSE 0) - (IF u = from THEN amount ELSE 0)

\* Snapshots follow: when the balances behind the delegatees change by what is
\* moved between the logs, and no account is chosen that gets no snapshot,
\* every log is in order and ends with the new power.
LEMMA MoveKeepsPower ==
    ASSUME GovernanceInv, NEW type \in Types, NEW from \in Account, NEW to \in Account,
           NEW amount \in Nat,
           CanMoveDelegates(type, from, to, amount),
           snapshots'[type] = MoveDelegatesByType(type, from, to, amount),
           blockNumber' = blockNumber,
           \A u \in Users :
               DelegatedBalance(type, u)' = DelegatedBalance(type, u) + Gain(u, from, to, amount),
           \A u \in Users : from = to \/ u \notin {from, to} =>
               (OwnOnly(type, u) => OwnOnly(type, u)')
    PROVE  \A u \in Users :
               /\ snapshots'[type][u] \in Seq(Snapshot)
               /\ LogOrdered(snapshots'[type][u])
               /\ PowerOf(type, u)'
<1> SUFFICES ASSUME NEW u \in Users
             PROVE  /\ snapshots'[type][u] \in Seq(Snapshot)
                    /\ LogOrdered(snapshots'[type][u])
                    /\ PowerOf(type, u)'
  OBVIOUS
<1> DEFINE log == snapshots[type][u]
<1>1. log \in Seq(Snapshot) /\ blockNumber \in Nat
  BY DEF GovernanceInv, TypeOK
<1>2. LogOrdered(log)
  BY DEF GovernanceInv, SnapshotsOrdered, LogOrdered
<1>3. PowerOf(type, u) /\ DelegatedBalance(type, u) \in Nat
  BY PowerIsNat DEF GovernanceInv, PowerInv
<1>4. PreviousPower(type, u) = DelegatedBalance(type, u)
  BY <1>3, PreviousPowerIsPower DEF GovernanceInv
<1>5. CASE from = to \/ u \notin {from, to}
  <2>1. snapshots'[type][u] = log
    BY <1>5 DEF MoveDelegatesByType
  <2>2. Gain(u, from, to, amount) = 0
    BY <1>5 DEF Gain
  <2>3. DelegatedBalance(type, u)' = DelegatedBalance(type, u)
    BY <1>3, <2>2
  <2>4. OwnOnly(type, u) => OwnOnly(type, u)'
    BY <1>5
  <2>5. PowerOf(type, u)'
    BY <1>3, <2>1, <2>3, <2>4 DEF PowerOf, Latest
  <2> QED BY <1>1, <1>2, <2>1, <2>5
<1>6. CASE from # to /\ u \in {from, to}
  <2> DEFINE power == PreviousPower(type, u) + Gain(u, from, to, amount)
  <2>1. snapshots'[type][u] = WriteSnapshot(log, power) /\ power \in Nat
    <3>1. CASE u = from
      <4>1. Gain(u, from, to, amount) = -amount
        BY <1>6, <3>1 DEF Gain
      <4>2. PreviousPower(type, u) >= amount
        BY <1>6, <3>1, GovernanceAssumption DEF CanMoveDelegates
      <4>3. power = PreviousPower(type, u) - amount /\ power \in Nat
        BY <1>3, <1>4, <4>1, <4>2
      <4>4. snapshots'[type][u] = WriteSnapshot(log, PreviousPower(type, u) - amount)
        BY <1>6, <3>1 DEF MoveDelegatesByType
      <4> QED BY <4>3, <4>4
    <3>2. CASE u # from
      <4>1. Gain(u, from, to, amount) = amount
        BY <1>6, <3>2 DEF Gain
      <4>2. power = PreviousPower(type, u) + amount /\ power \in Nat
        BY <1>3, <1>4, <4>1
      <4>3. snapshots'[type][u] = WriteSnapshot(log, PreviousPower(type, u) + amount)
        BY <1>6, <3>2 DEF MoveDelegatesByType
      <4> QED BY <4>2, <4>3
    <3> QED BY <3>1, <3>2
  <2>2. DelegatedBalance(type, u)' = power
    BY <1>4
  <2> HIDE DEF power, log
  <2> DEFINE new == snapshots'[type][u]
  <2>3. new \in Seq(Snapshot) /\ new # <<>> /\ Latest(new).value = power /\ LogOrdered(new)
    BY <1>1, <1>2, <2>1, WriteKeepsOrder
  <2>4. PowerOf(type, u)'
    BY <2>2, <2>3 DEF PowerOf, Latest
  <2> QED BY <2>3, <2>4
<1> QED BY <1>5, <1>6


\* GovernanceInv, from what a step leaves of each log.
LEMMA LogsGiveInv ==
    ASSUME balances' \in [Users -> Nat],
           delegates' \in [Types -> [Users -> Account]],
           blockNumber' \in Nat, blockNumber <= blockNumber', blockNumber \in Nat,
           snapshots' = [type \in Types |-> [u \in Users |-> snapshots'[type][u]]],
           \A type \in Types, u \in Users :
               /\ snapshots'[type][u] \in Seq(Snapshot)
               /\ LogOrdered(snapshots'[type][u])
               /\ PowerOf(type, u)'
    PROVE  GovernanceInv'
<1>1. snapshots' \in [Types -> [Users -> Seq(Snapshot)]]
  OBVIOUS
<1>2. TypeOK'
  BY <1>1 DEF TypeOK, Account
<1>3. SnapshotsOrdered'
  <2> SUFFICES ASSUME NEW type \in Types, NEW u \in Users
               PROVE  LET log == snapshots'[type][u] IN
                      /\ \A i, j \in DOMAIN log : i < j => log[i].blockNumber < log[j].blockNumber
                      /\ \A i \in DOMAIN log : log[i].blockNumber <= blockNumber'
    BY DEF SnapshotsOrdered
  <2> DEFINE log == snapshots'[type][u]
  <2>1. log \in Seq(Snapshot) /\ LogOrdered(log)
    OBVIOUS
  <2> HIDE DEF log
  <2>2. \A i \in DOMAIN log : log[i].blockNumber \in Nat
    <3>1. \A i \in DOMAIN log : log[i] \in Snapshot
      BY <2>1
    <3>2. \A e \in Snapshot : e.blockNumber \in Nat
      BY DEF Snapshot
    <3> QED BY <3>1, <3>2
  <2>3. /\ \A i, j \in DOMAIN log : i < j => log[i].blockNumber < log[j].blockNumber
        /\ \A i \in DOMAIN log : log[i].blockNumber <= blockNumber'
    BY <2>1, <2>2 DEF LogOrdered
  <2> QED BY <2>3 DEF log
<1>4. PowerInv'
  BY DEF PowerInv
<1> QED BY <1>2, <1>3, <1>4 DEF GovernanceInv

LEMMA MoveIsFunction ==
    ASSUME NEW type, NEW from, NEW to, NEW amount
    PROVE  MoveDelegatesByType(type, from, to, amount)
             = [u \in Users |-> MoveDelegatesByType(type, from, to, amount)[u]]
  BY Zenon DEF MoveDelegatesByType

\* The hook, under a change of balances that is the one it is told of.
LEMMA HookKeepsInv ==
    ASSUME GovernanceInv, NEW from \in Account, NEW to \in Account, NEW amount \in Nat,
           BeforeTokenTransfer(from, to, amount),
           balances' \in [Users -> Nat], blockNumber' = blockNumber,
           \A type \in Types, u \in Users :
               SumFunction(Share(balances', Choice(type), u)) =
                  SumFunction(Share(balances, Choice(type), u))
                  + Gain(u, GetDelegatee(type, from), GetDelegatee(type, to), amount)
    PROVE  GovernanceInv'
<1>1. TypeOK /\ delegates' = delegates
  BY DEF GovernanceInv, BeforeTokenTransfer
<1>2. \A type \in Types, v \in Users : GetDelegatee(type, v)' = GetDelegatee(type, v)
  BY <1>1 DEF GetDelegatee
<1>3. ASSUME NEW type \in Types, NEW u \in Users
      PROVE  /\ snapshots'[type][u] \in Seq(Snapshot)
             /\ LogOrdered(snapshots'[type][u])
             /\ PowerOf(type, u)'
  <2> DEFINE f == GetDelegatee(type, from)
             t == GetDelegatee(type, to)
  <2>1. f \in Account /\ t \in Account
    BY <1>1, DelegateeIsAccount DEF Account
  <2>2. /\ CanMoveDelegates(type, f, t, amount)
        /\ snapshots'[type] = MoveDelegatesByType(type, f, t, amount)
    BY DEF BeforeTokenTransfer
  <2>3. ASSUME NEW v \in Users
        PROVE  DelegatedBalance(type, v)' = DelegatedBalance(type, v) + Gain(v, f, t, amount)
    <3>2. Share(balances', Choice(type), v)
            = [w \in Users |-> IF GetDelegatee(type, w)' = v THEN balances'[w] ELSE 0]
      BY <1>2 DEF Share, Choice
    <3>3. DelegatedBalance(type, v)' = SumFunction(Share(balances', Choice(type), v))
      BY <3>2 DEF DelegatedBalance
    <3>4. DelegatedBalance(type, v) = SumFunction(Share(balances, Choice(type), v))
      BY PowerIsSumOfShares
    <3> QED BY <3>3, <3>4
  <2>4. \A v \in Users : OwnOnly(type, v) => OwnOnly(type, v)'
    BY <1>2 DEF OwnOnly
  <2> HIDE DEF f, t
  <2> QED BY <2>1, <2>2, <2>3, <2>4, MoveKeepsPower
<1>4. snapshots' = [type \in Types |-> [u \in Users |-> snapshots'[type][u]]]
  BY MoveIsFunction DEF BeforeTokenTransfer
<1>5. /\ delegates' \in [Types -> [Users -> Account]]
      /\ blockNumber' \in Nat /\ blockNumber \in Nat /\ blockNumber <= blockNumber'
  BY <1>1 DEF TypeOK, Account
<1> QED BY <1>3, <1>4, <1>5, LogsGiveInv


-----------------------------------------------------------------------------
(* One lemma per transaction.                                                *)

LEMMA MintKeepsInv ==
    ASSUME GovernanceInv, NEW u \in Users, NEW amount \in Nat,
           BeforeTokenTransfer(ZERO, u, amount), blockNumber' = blockNumber,
           balances' = [balances EXCEPT ![u] = @ + amount]
    PROVE  GovernanceInv'
<1>1. TypeOK
  BY DEF GovernanceInv
<1>2. /\ balances \in [Users -> Int] /\ balances' \in [Users -> Int]
      /\ balances'[u] = balances[u] + amount
      /\ \A v \in Users \ {u} : balances'[v] = balances[v]
  BY <1>1 DEF TypeOK
<1>3. balances' \in [Users -> Nat]
  BY <1>1 DEF TypeOK
<1>4. ASSUME NEW type \in Types, NEW v \in Users
      PROVE  SumFunction(Share(balances', Choice(type), v)) =
                SumFunction(Share(balances, Choice(type), v))
                + Gain(v, GetDelegatee(type, ZERO), GetDelegatee(type, u), amount)
  <2>1. /\ SumFunction(Share(balances, Choice(type), v)) \in Int
        /\ SumFunction(Share(balances', Choice(type), v)) =
             SumFunction(Share(balances, Choice(type), v))
             + (IF Choice(type)[u] = v THEN amount ELSE 0)
    BY ONLY <1>2, u \in Users, v \in Users, amount \in Nat, BalanceChangesPower
  <2>2. Choice(type)[u] = GetDelegatee(type, u) /\ GetDelegatee(type, ZERO) # v
    BY <1>1, DelegateeIsAccount, GovernanceAssumption DEF Choice
  <2> QED BY <2>1, <2>2 DEF Gain
<1> QED BY <1>3, <1>4, HookKeepsInv DEF Account

LEMMA BurnKeepsInv ==
    ASSUME GovernanceInv, NEW u \in Users, NEW amount \in Nat,
           BeforeTokenTransfer(u, ZERO, amount), blockNumber' = blockNumber,
           balances[u] >= amount, balances' = [balances EXCEPT ![u] = @ - amount]
    PROVE  GovernanceInv'
<1>1. TypeOK
  BY DEF GovernanceInv
<1>2. /\ balances \in [Users -> Int] /\ balances' \in [Users -> Int]
      /\ balances'[u] = balances[u] + (-amount) /\ -amount \in Int
      /\ \A v \in Users \ {u} : balances'[v] = balances[v]
  BY <1>1 DEF TypeOK
<1>3. balances' \in [Users -> Nat]
  BY <1>1 DEF TypeOK
<1>4. ASSUME NEW type \in Types, NEW v \in Users
      PROVE  SumFunction(Share(balances', Choice(type), v)) =
                SumFunction(Share(balances, Choice(type), v))
                + Gain(v, GetDelegatee(type, u), GetDelegatee(type, ZERO), amount)
  <2>1. /\ SumFunction(Share(balances, Choice(type), v)) \in Int
        /\ SumFunction(Share(balances', Choice(type), v)) =
             SumFunction(Share(balances, Choice(type), v))
             + (IF Choice(type)[u] = v THEN -amount ELSE 0)
    BY ONLY <1>2, u \in Users, v \in Users, amount \in Nat, BalanceChangesPower
  <2>2. Choice(type)[u] = GetDelegatee(type, u) /\ GetDelegatee(type, ZERO) # v
    BY <1>1, DelegateeIsAccount, GovernanceAssumption DEF Choice
  <2> QED BY <2>1, <2>2 DEF Gain
<1> QED BY <1>3, <1>4, HookKeepsInv DEF Account

\* A transfer is a burn and a mint in one, to oneself too.
LEMMA TransferKeepsInv ==
    ASSUME GovernanceInv, NEW from \in Users, NEW to \in Users, NEW amount \in Nat,
           Transfer(from, to, amount)
    PROVE  GovernanceInv'
<1> DEFINE left == [balances EXCEPT ![from] = @ - amount]
<1>1. TypeOK
  BY DEF GovernanceInv
<1>2. /\ balances \in [Users -> Nat] /\ balances[from] >= amount
      /\ balances' = [balances EXCEPT ![from] = @ - amount, ![to] = @ + amount]
  BY <1>1 DEF TypeOK, Transfer
<1>3. /\ balances \in [Users -> Int] /\ left \in [Users -> Int]
      /\ left[from] = balances[from] + (-amount) /\ -amount \in Int
      /\ \A v \in Users \ {from} : left[v] = balances[v]
  BY <1>2
<1>4. /\ balances' \in [Users -> Int]
      /\ balances'[to] = left[to] + amount
      /\ \A v \in Users \ {to} : balances'[v] = left[v]
  BY <1>2
<1>5. balances' \in [Users -> Nat]
  BY <1>2
<1> HIDE DEF left
<1>6. ASSUME NEW type \in Types, NEW v \in Users
      PROVE  SumFunction(Share(balances', Choice(type), v)) =
                SumFunction(Share(balances, Choice(type), v))
                + Gain(v, GetDelegatee(type, from), GetDelegatee(type, to), amount)
  <2>1. /\ SumFunction(Share(balances, Choice(type), v)) \in Int
        /\ SumFunction(Share(left, Choice(type), v)) =
             SumFunction(Share(balances, Choice(type), v))
             + (IF Choice(type)[from] = v THEN -amount ELSE 0)
    BY <1>3, BalanceChangesPower
  <2>2. SumFunction(Share(balances', Choice(type), v)) =
             SumFunction(Share(left, Choice(type), v))
             + (IF Choice(type)[to] = v THEN amount ELSE 0)
    BY <1>3, <1>4, BalanceChangesPower
  <2>3. /\ Choice(type)[from] = GetDelegatee(type, from)
        /\ Choice(type)[to] = GetDelegatee(type, to)
    BY DEF Choice
  <2> QED BY <2>1, <2>2, <2>3 DEF Gain
<1>7. BeforeTokenTransfer(from, to, amount) /\ blockNumber' = blockNumber
  BY DEF Transfer
<1> QED BY <1>5, <1>6, <1>7, HookKeepsInv DEF Account

\* A delegation moves the whole balance of the delegator, in each type it is
\* for, and nothing in the others.
LEMMA DelegateKeepsInv ==
    ASSUME GovernanceInv, NEW u \in Users, NEW y \in Users, NEW types \in SUBSET Types,
           DelegateTypes(u, y, types)
    PROVE  GovernanceInv'
<1>1. TypeOK
  BY DEF GovernanceInv
<1>2. balances' = balances /\ blockNumber' = blockNumber
  BY DEF DelegateTypes
<1>3. balances \in [Users -> Nat] /\ balances \in [Users -> Int]
  BY <1>1 DEF TypeOK
<1>4. ASSUME NEW type \in types
      PROVE  \A v \in Users :
               /\ snapshots'[type][v] \in Seq(Snapshot)
               /\ LogOrdered(snapshots'[type][v])
               /\ PowerOf(type, v)'
  <2> DEFINE old == GetDelegatee(type, u)
             amount == balances[u]
  <2>1. type \in Types /\ old \in Account /\ y \in Account /\ amount \in Nat /\ old \in Users
    BY <1>1, <1>3, DelegateeIsAccount DEF Account
  <2>2. /\ CanMoveDelegates(type, old, y, amount)
        /\ snapshots'[type] = MoveDelegatesByType(type, old, y, amount)
        /\ delegates'[type] = [delegates[type] EXCEPT ![u] = y]
    BY <2>1 DEF DelegateTypes
  <2>3. /\ GetDelegatee(type, u)' = y
        /\ \A v \in Users \ {u} : GetDelegatee(type, v)' = GetDelegatee(type, v)
    BY <1>1, <2>1, <2>2, GovernanceAssumption DEF GetDelegatee, TypeOK
  <2>4. ASSUME NEW v \in Users
        PROVE  DelegatedBalance(type, v)' = DelegatedBalance(type, v) + Gain(v, old, y, amount)
    <3> DEFINE chosen == [Choice(type) EXCEPT ![u] = y]
    <3>1. Choice(type) \in [Users -> Users] /\ Choice(type)[u] = old
      BY <1>1, <2>1, DelegateeIsAccount DEF Choice
    <3>2. \A w \in Users : GetDelegatee(type, w)' = chosen[w]
      BY <2>3, <3>1 DEF Choice
    <3>3. Share(balances, chosen, v)
            = [w \in Users |-> IF GetDelegatee(type, w)' = v THEN balances'[w] ELSE 0]
      BY <1>2, <3>2 DEF Share
    <3>4. DelegatedBalance(type, v)' = SumFunction(Share(balances, chosen, v))
      BY <3>3 DEF DelegatedBalance
    <3>5. SumFunction(Share(balances, chosen, v)) =
             SumFunction(Share(balances, Choice(type), v))
             + (IF v = y THEN amount ELSE 0) - (IF v = old THEN amount ELSE 0)
      <4> DEFINE f == Share(balances, Choice(type), v)
                 g == Share(balances, chosen, v)
      <4>1. /\ chosen \in [Users -> Users] /\ chosen[u] = y
            /\ \A w \in Users \ {u} : chosen[w] = Choice(type)[w]
        BY <3>1
      <4>2. f \in [Users -> Int] /\ g \in [Users -> Int]
        BY <1>3 DEF Share
      <4>3. \A w \in Users \ {u} : g[w] = f[w]
        BY <4>1 DEF Share
      <4>4. /\ g[u] = (IF v = y THEN amount ELSE 0)
            /\ f[u] = (IF v = old THEN amount ELSE 0)
        BY <3>1, <4>1 DEF Share
      <4> HIDE DEF f, g
      <4>5. SumFunction(g) = SumFunction(f) + g[u] - f[u]
        BY ONLY u \in Users, <4>2, <4>3, SumOverUsers
      <4> QED BY <4>4, <4>5 DEF f, g
    <3>6. DelegatedBalance(type, v) = SumFunction(Share(balances, Choice(type), v))
      BY <2>1, PowerIsSumOfShares
    <3>7. DelegatedBalance(type, v) \in Nat
      BY <1>1, <2>1, PowerIsNat
    <3> HIDE DEF chosen, old, amount
    <3> QED BY <2>1, <3>4, <3>5, <3>6, <3>7 DEF Gain
  <2>5. ASSUME NEW v \in Users, old = y \/ v \notin {old, y}, OwnOnly(type, v)
        PROVE  OwnOnly(type, v)'
    <3>1. \A w \in Users : GetDelegatee(type, w)' = v <=> GetDelegatee(type, w) = v
      BY <2>3, <2>5
    <3> QED BY <2>5, <3>1 DEF OwnOnly
  <2> HIDE DEF old, amount
  <2> QED BY <1>2, <2>1, <2>2, <2>4, <2>5, MoveKeepsPower
<1>5. ASSUME NEW type \in Types \ types, NEW v \in Users
      PROVE  /\ snapshots'[type][v] \in Seq(Snapshot)
             /\ LogOrdered(snapshots'[type][v])
             /\ PowerOf(type, v)'
  <2>1. snapshots'[type] = snapshots[type] /\ delegates'[type] = delegates[type]
    BY DEF DelegateTypes
  <2>2. \A w \in Users : GetDelegatee(type, w)' = GetDelegatee(type, w)
    BY <2>1 DEF GetDelegatee
  <2>3. DelegatedBalance(type, v)' = DelegatedBalance(type, v)
    <3>1. [w \in Users |-> IF GetDelegatee(type, w)' = v THEN balances'[w] ELSE 0]
            = [w \in Users |-> IF GetDelegatee(type, w) = v THEN balances[w] ELSE 0]
      BY <1>2, <2>2
    <3> QED BY <3>1 DEF DelegatedBalance
  <2>4. OwnOnly(type, v)' <=> OwnOnly(type, v)
    BY <2>2 DEF OwnOnly
  <2>5. PowerOf(type, v)'
    BY <2>1, <2>3, <2>4 DEF GovernanceInv, PowerInv, PowerOf, Latest
  <2> QED BY <1>1, <2>1, <2>5 DEF GovernanceInv, SnapshotsOrdered, LogOrdered, TypeOK
<1>6. snapshots' = [type \in Types |-> [v \in Users |-> snapshots'[type][v]]]
  <2>1. ASSUME NEW type \in Types
        PROVE  snapshots'[type] = [v \in Users |-> snapshots'[type][v]]
    <3>1. CASE type \in types
      BY <3>1, MoveIsFunction DEF DelegateTypes
    <3>2. CASE type \notin types
      BY <1>1, <3>2 DEF DelegateTypes, TypeOK
    <3> QED BY <3>1, <3>2
  <2>2. \E F : snapshots' = [type \in Types |-> F[type]]
    <3> DEFINE F == [type \in Types |->
                 IF type \in types
                 THEN MoveDelegatesByType(type, GetDelegatee(type, u), y, balances[u])
                 ELSE snapshots[type]]
    <3>1. snapshots' = F
      BY DEF DelegateTypes
    <3>2. F = [type \in Types |-> F[type]]
      OBVIOUS
    <3> HIDE DEF F
    <3> QED BY <3>1, <3>2
  <2>3. snapshots' = [type \in Types |-> snapshots'[type]]
    BY <2>2
  <2> QED BY <2>1, <2>3
<1>7. delegates' \in [Types -> [Users -> Account]]
  BY <1>1 DEF DelegateTypes, TypeOK, Account
<1>8. blockNumber' \in Nat /\ blockNumber \in Nat /\ blockNumber <= blockNumber'
  BY <1>1, <1>2 DEF TypeOK
<1>9. \A type \in Types, v \in Users :
        /\ snapshots'[type][v] \in Seq(Snapshot)
        /\ LogOrdered(snapshots'[type][v])
        /\ PowerOf(type, v)'
  BY <1>4, <1>5
<1> QED BY <1>2, <1>3, <1>6, <1>7, <1>8, <1>9, LogsGiveInv


LEMMA NextBlockKeepsInv ==
    ASSUME GovernanceInv, NextBlock
    PROVE  GovernanceInv'
<1>1. /\ UNCHANGED <<balances, delegates, snapshots>>
      /\ blockNumber \in Nat /\ blockNumber' = blockNumber + 1
  BY DEF NextBlock, powerVars, GovernanceInv, TypeOK
<1>2. TypeOK'
  BY <1>1 DEF GovernanceInv, TypeOK
<1>3. SnapshotsOrdered'
  <2> SUFFICES ASSUME NEW type \in Types, NEW u \in Users
               PROVE  LET log == snapshots[type][u] IN
                      /\ \A i, j \in DOMAIN log : i < j => log[i].blockNumber < log[j].blockNumber
                      /\ \A i \in DOMAIN log : log[i].blockNumber <= blockNumber + 1
    BY <1>1 DEF SnapshotsOrdered
  <2> DEFINE log == snapshots[type][u]
  <2>1. /\ log \in Seq(Snapshot)
        /\ \A i, j \in DOMAIN log : i < j => log[i].blockNumber < log[j].blockNumber
        /\ \A i \in DOMAIN log : log[i].blockNumber <= blockNumber
    BY DEF GovernanceInv, TypeOK, SnapshotsOrdered
  <2> HIDE DEF log
  <2>2. \A i \in DOMAIN log : log[i].blockNumber \in Nat
    <3>1. \A i \in DOMAIN log : log[i] \in Snapshot
      BY <2>1
    <3>2. \A e \in Snapshot : e.blockNumber \in Nat
      BY DEF Snapshot
    <3> QED BY <3>1, <3>2
  <2>3. \A i \in DOMAIN log : log[i].blockNumber <= blockNumber + 1
    BY <1>1, <2>1, <2>2
  <2> QED BY <2>1, <2>3 DEF log
<1>4. PowerInv'
  BY <1>1 DEF GovernanceInv, PowerInv, PowerOf, OwnOnly, GetDelegatee, DelegatedBalance, Latest
<1> QED BY <1>2, <1>3, <1>4 DEF GovernanceInv

-----------------------------------------------------------------------------
(* The theorems.                                                             *)

LEMMA InitInv == Init => GovernanceInv
<1> SUFFICES ASSUME Init PROVE GovernanceInv
  OBVIOUS
<1>1. TypeOK
  <2>1. \A u \in Users : [blockNumber |-> 1, value |-> InitialBalances[u]] \in Snapshot
    BY GovernanceAssumption DEF Snapshot
  <2>2. \A u \in Users : <<[blockNumber |-> 1, value |-> InitialBalances[u]]>> \in Seq(Snapshot)
    BY <2>1
  <2>3. <<>> \in Seq(Snapshot)
    OBVIOUS
  <2>4. snapshots \in [Types -> [Users -> Seq(Snapshot)]]
    BY <2>2, <2>3 DEF Init
  <2> QED BY <2>4, GovernanceAssumption DEF Init, TypeOK
<1>2. ASSUME NEW type \in Types, NEW u \in Users
      PROVE  OwnOnly(type, u)
  BY GovernanceAssumption DEF Init, OwnOnly, GetDelegatee
<1>3. ASSUME NEW type \in Types, NEW u \in Users
      PROVE  LET log == snapshots[type][u] IN
             \/ log = <<>>
             \/ log = <<[blockNumber |-> 1, value |-> balances[u]]>>
  BY DEF Init
<1>4. SnapshotsOrdered
  <2>1. blockNumber = 2
    BY DEF Init
  <2>2. ASSUME NEW type \in Types, NEW u \in Users
        PROVE  LET log == snapshots[type][u] IN
               /\ \A i, j \in DOMAIN log : i < j => log[i].blockNumber < log[j].blockNumber
               /\ \A i \in DOMAIN log : log[i].blockNumber <= blockNumber
    <3> DEFINE log == snapshots[type][u]
    <3> HIDE DEF log
    <3>1. CASE log = <<>>
      <4>1. DOMAIN log = {}
        BY <3>1
      <4> QED BY <4>1 DEF log
    <3>2. CASE log = <<[blockNumber |-> 1, value |-> balances[u]]>>
      <4>1. DOMAIN log = {1} /\ log[1] = [blockNumber |-> 1, value |-> balances[u]]
        BY <3>2
      <4>2. log[1].blockNumber = 1
        BY <4>1
      <4>3. \A i \in DOMAIN log : i = 1 /\ log[i].blockNumber <= blockNumber
        BY <2>1, <4>1, <4>2
      <4>4. \A i, j \in DOMAIN log : ~(i < j)
        BY <4>1
      <4> QED BY <4>3, <4>4 DEF log
    <3> QED BY <1>3, <3>1, <3>2 DEF log
  <2> QED BY <2>2 DEF SnapshotsOrdered
<1>5. PowerInv
  <2>1. ASSUME NEW type \in Types, NEW u \in Users, snapshots[type][u] # <<>>
        PROVE  Latest(snapshots[type][u]).value = DelegatedBalance(type, u)
    <3> DEFINE log == snapshots[type][u]
    <3>1. log = <<[blockNumber |-> 1, value |-> balances[u]]>>
      BY <1>3, <2>1
    <3> HIDE DEF log
    <3>2. Len(log) = 1 /\ log[1] = [blockNumber |-> 1, value |-> balances[u]]
      BY <3>1
    <3>3. Latest(log).value = balances[u]
      BY <3>2 DEF Latest
    <3>4. DelegatedBalance(type, u) = balances[u]
      BY <1>1, <1>2, OwnPower
    <3> QED BY <3>3, <3>4 DEF log
  <2> QED BY <1>2, <2>1 DEF PowerInv, PowerOf
<1> QED BY <1>1, <1>4, <1>5 DEF GovernanceInv

LEMMA NextInv == GovernanceInv /\ [Next]_vars => GovernanceInv'
<1> SUFFICES ASSUME GovernanceInv, [Next]_vars PROVE GovernanceInv'
  OBVIOUS
<1>0. \A amount \in Amounts : amount \in Nat
  BY GovernanceAssumption
<1>1. ASSUME NEW u \in Users, NEW amount \in Amounts, Mint(u, amount) PROVE GovernanceInv'
  BY <1>0, <1>1, MintKeepsInv DEF Mint
<1>2. ASSUME NEW u \in Users, NEW amount \in Amounts, Burn(u, amount) PROVE GovernanceInv'
  BY <1>0, <1>2, BurnKeepsInv DEF Burn
<1>3. ASSUME NEW from \in Users, NEW to \in Users, NEW amount \in Amounts,
             Transfer(from, to, amount)
      PROVE  GovernanceInv'
  BY <1>0, <1>3, TransferKeepsInv
<1>4. ASSUME NEW u \in Users, NEW v \in Users, NEW type \in Types, DelegateByType(u, v, type)
      PROVE  GovernanceInv'
  BY <1>4, DelegateKeepsInv DEF DelegateByType
<1>5. ASSUME NEW u \in Users, NEW v \in Users, Delegate(u, v)
      PROVE  GovernanceInv'
  BY <1>5, DelegateKeepsInv DEF Delegate
<1>6. CASE NextBlock
  BY <1>6, NextBlockKeepsInv
<1>7. CASE UNCHANGED vars
  <2>1. UNCHANGED <<balances, delegates, snapshots, blockNumber>>
    BY <1>7 DEF vars, powerVars
  <2>2. TypeOK'
    BY <2>1 DEF GovernanceInv, TypeOK
  <2>3. SnapshotsOrdered'
    BY <2>1 DEF GovernanceInv, SnapshotsOrdered
  <2>4. PowerInv'
    BY <2>1 DEF GovernanceInv, PowerInv, PowerOf, OwnOnly, GetDelegatee, DelegatedBalance, Latest
  <2> QED BY <2>2, <2>3, <2>4 DEF GovernanceInv
<1> QED BY <1>1, <1>2, <1>3, <1>4, <1>5, <1>6, <1>7 DEF Next

LEMMA GovernanceInvariant == Spec => []GovernanceInv
  BY InitInv, NextInv, PTL DEF Spec

\* No subtraction of the hook or of a delegation goes below zero, and
\* delegatees are accounts.
THEOREM PowerTypeCorrect == Spec => []TypeOK
<1>1. GovernanceInv => TypeOK
  BY DEF GovernanceInv
<1> QED BY <1>1, GovernanceInvariant, PTL

\* _writeSnapshot keeps the order that the binary search needs.
THEOREM LogsOrdered == Spec => []SnapshotsOrdered
<1>1. GovernanceInv => SnapshotsOrdered
  BY DEF GovernanceInv
<1> QED BY <1>1, GovernanceInvariant, PTL

\* What the binary search answers for the current block is the power.
LEMMA CurrentIsDelegated == GovernanceInv => PowerIsDelegatedBalance
<1> SUFFICES ASSUME GovernanceInv, NEW type \in Types, NEW u \in Users
             PROVE  GetPowerCurrent(u, type) = DelegatedBalance(type, u)
  BY DEF PowerIsDelegatedBalance
<1> DEFINE log == snapshots[type][u]
<1>1. PowerOf(type, u)
  BY DEF GovernanceInv, PowerInv
<1>2. CASE log = <<>>
  BY <1>1, <1>2, OwnPower
     DEF GovernanceInv, PowerOf, GetPowerCurrent, SearchByBlockNumber
<1>3. CASE log # <<>>
  <2>1. log \in Seq(Snapshot) /\ \A i \in DOMAIN log : log[i].blockNumber <= blockNumber
    BY DEF GovernanceInv, TypeOK, SnapshotsOrdered
  <2>2. Len(log) \in DOMAIN log
    BY <1>3, <2>1
  <2>3. Latest(log).blockNumber <= blockNumber
    BY <2>1, <2>2 DEF Latest
  <2>4. GetPowerCurrent(u, type) = Latest(log).value
    BY <1>3, <2>3 DEF GetPowerCurrent, SearchByBlockNumber
  <2> QED BY <1>1, <1>3, <2>4 DEF PowerOf
<1> QED BY <1>2, <1>3

\* getPowerCurrent is the balance behind a delegatee: no transfer, mint, burn
\* or delegation, in any order, loses, creates or counts power twice.
THEOREM PowerConserved == Spec => []PowerIsDelegatedBalance
  BY CurrentIsDelegated, GovernanceInvariant, PTL

-----------------------------------------------------------------------------
(* The binary search.  What it finds is proved for whatever satisfies its    *)
(* recursion, and that something does, since the log is in order.            *)

\* One turn of the loop, with search for what follows it.
Middle(lower, upper) == upper - (upper - lower) \div 2

Turn(search, log, b, lower, upper) ==
    IF upper <= lower THEN log[lower].value
    ELSE IF log[Middle(lower, upper)].blockNumber = b THEN log[Middle(lower, upper)].value
    ELSE IF log[Middle(lower, upper)].blockNumber < b THEN search[<<Middle(lower, upper), upper>>]
    ELSE search[<<lower, Middle(lower, upper) - 1>>]

IsSearch(search, log, b) ==
    search = [bounds \in (1..Len(log)) \X (1..Len(log)) |->
                  Turn(search, log, b, bounds[1], bounds[2])]

\* Blocks of a log.
Ordered(log) ==
    /\ \A i \in 1..Len(log) : log[i].blockNumber \in Nat
    /\ \A i, j \in 1..Len(log) : i < j => log[i].blockNumber < log[j].blockNumber

\* The last of the snapshots from lower to upper that is not after b, and the
\* first of them if all are.
IsLast(i, log, b, lower, upper) ==
    /\ i \in 1..Len(log)
    /\ lower <= i /\ i <= upper
    /\ i = lower \/ log[i].blockNumber <= b
    /\ \A j \in 1..Len(log) : i < j /\ j <= upper => log[j].blockNumber > b

LEMMA SearchByDefinition ==
    ASSUME NEW log, NEW b
    PROVE  BinarySearch(log, b) = (CHOOSE search : IsSearch(search, log, b))[<<1, Len(log)>>]
  BY DEF BinarySearch, IsSearch, Turn, Middle

LEMMA MiddleIsBetween ==
    ASSUME NEW lower \in Nat, NEW upper \in Nat, lower < upper
    PROVE  /\ Middle(lower, upper) \in Nat
           /\ lower < Middle(lower, upper) /\ Middle(lower, upper) <= upper
  BY DEF Middle

\* Whatever satisfies the recursion finds the last snapshot not after b.
LEMMA SearchFinds ==
    ASSUME NEW log \in Seq(Snapshot), NEW b \in Nat, Ordered(log),
           NEW search, IsSearch(search, log, b)
    PROVE  \A lower, upper \in 1..Len(log), i \in 1..Len(log) :
               IsLast(i, log, b, lower, upper) => search[<<lower, upper>>] = log[i].value
<1> DEFINE n == Len(log)
           Right(lower, upper) ==
               \A i \in 1..n : IsLast(i, log, b, lower, upper)
                                  => search[<<lower, upper>>] = log[i].value
           Done == {d \in Nat : \A lower, upper \in 1..n : upper - lower <= d => Right(lower, upper)}
<1>1. n \in Nat
  OBVIOUS
<1>2. ASSUME NEW lower \in 1..n, NEW upper \in 1..n
      PROVE  search[<<lower, upper>>] = Turn(search, log, b, lower, upper)
  BY DEF IsSearch
<1> HIDE DEF n
<1>3. 0 \in Done
  <2> SUFFICES ASSUME NEW lower \in 1..n, NEW upper \in 1..n, upper - lower <= 0,
                      NEW i \in 1..n, IsLast(i, log, b, lower, upper)
               PROVE  search[<<lower, upper>>] = log[i].value
    OBVIOUS
  <2>1. i = lower /\ upper <= lower
    BY <1>1 DEF IsLast
  <2> QED BY <1>2, <2>1 DEF Turn
<1>4. ASSUME NEW d \in 0..n, d < n, d \in Done
      PROVE  d + 1 \in Done
  <2> SUFFICES ASSUME NEW lower \in 1..n, NEW upper \in 1..n, upper - lower <= d + 1,
                      NEW i \in 1..n, IsLast(i, log, b, lower, upper)
               PROVE  search[<<lower, upper>>] = log[i].value
    BY <1>1
  <2>0. Right(lower, upper) \/ lower < upper
    <3>1. upper - lower <= 0 => upper - lower <= d
      BY <1>1
    <3> QED BY <1>1, <1>4, <3>1
  <2>1. CASE lower < upper
    <3> DEFINE m == Middle(lower, upper)
    <3>0. m \in Nat /\ lower < m /\ m <= upper
      BY <1>1, <2>1, MiddleIsBetween
    <3>1. m \in 1..n /\ m - 1 \in 1..n /\ lower < m /\ m <= upper
      <4> HIDE DEF m
      <4> QED BY <1>1, <3>0
    <3>2. upper - m <= d /\ (m - 1) - lower <= d
      BY <1>1, <3>1
    <3> HIDE DEF m
    <3>3. Right(m, upper) /\ Right(lower, m - 1)
      BY <1>4, <3>1, <3>2
    <3>4. \A j, k \in 1..n : j < k => log[j].blockNumber < log[k].blockNumber
      BY DEF Ordered, n
    <3>5. \A j \in 1..n : log[j].blockNumber \in Nat
      BY DEF Ordered, n
    <3>6. search[<<lower, upper>>] =
            IF log[m].blockNumber = b THEN log[m].value
            ELSE IF log[m].blockNumber < b THEN search[<<m, upper>>]
            ELSE search[<<lower, m - 1>>]
      BY <1>1, <1>2, <2>1 DEF Turn, m
    <3>7. CASE log[m].blockNumber = b
      <4>1. ~(i < m)
        BY <3>1, <3>5, <3>7 DEF IsLast, n
      <4>2. ~(m < i)
        BY <1>1, <3>1, <3>4, <3>5, <3>7 DEF IsLast
      <4> QED BY <1>1, <3>1, <3>6, <3>7, <4>1, <4>2
    <3>8. CASE log[m].blockNumber < b
      <4>1. ~(i < m)
        BY <3>1, <3>5, <3>8 DEF IsLast, n
      <4>2. IsLast(i, log, b, m, upper)
        BY <1>1, <3>1, <3>5, <4>1 DEF IsLast, n
      <4>3. search[<<lower, upper>>] = search[<<m, upper>>]
        BY <3>1, <3>5, <3>6, <3>8
      <4> QED BY <3>3, <4>2, <4>3
    <3>9. CASE log[m].blockNumber > b
      <4>1. i < m
        <5>1. i = m \/ m < i => log[i].blockNumber > b
          BY <1>1, <3>1, <3>4, <3>5, <3>9
        <5> QED BY <1>1, <3>1, <3>5, <5>1 DEF IsLast
      <4>2. IsLast(i, log, b, lower, m - 1)
        BY <1>1, <3>1, <4>1 DEF IsLast, n
      <4>3. search[<<lower, upper>>] = search[<<lower, m - 1>>]
        BY <3>1, <3>5, <3>6, <3>9
      <4> QED BY <3>3, <4>2, <4>3
    <3> QED BY <3>1, <3>5, <3>7, <3>8, <3>9
  <2> QED BY <2>0, <2>1
<1>5. \A d \in 0..n : d \in Done
  <2> HIDE DEF Done
  <2> QED BY ONLY <1>1, <1>3, <1>4, StepInduction
<1>6. n \in Done
  BY <1>1, <1>5
<1> QED BY <1>1, <1>6 DEF n

\* In every range there is a last snapshot not after b.
LEMMA LastExists ==
    ASSUME NEW log \in Seq(Snapshot), NEW b \in Nat, Ordered(log),
           NEW lower \in 1..Len(log), NEW upper \in 1..Len(log), lower <= upper
    PROVE  \E i \in 1..Len(log) : IsLast(i, log, b, lower, upper)
<1> DEFINE n == Len(log)
           Found == {d \in Nat : \A r \in lower..n :
                                     r - lower = d => \E i \in 1..n : IsLast(i, log, b, lower, r)}
<1>1. n \in Nat
  OBVIOUS
<1>2. \A i \in 1..n : log[i].blockNumber \in Nat
  BY DEF Ordered
<1>3. 0 \in Found
  <2>1. IsLast(lower, log, b, lower, lower)
    BY <1>1 DEF IsLast
  <2> QED BY <1>1, <2>1
<1>4. ASSUME NEW d \in 0..n, d < n, d \in Found
      PROVE  d + 1 \in Found
  <2> SUFFICES ASSUME NEW r \in lower..n, r - lower = d + 1
               PROVE  \E i \in 1..n : IsLast(i, log, b, lower, r)
    BY <1>1
  <2>1. r - 1 \in lower..n /\ (r - 1) - lower = d /\ r \in 1..n
    BY <1>1
  <2>2. PICK i \in 1..n : IsLast(i, log, b, lower, r - 1)
    BY <1>4, <2>1
  <2> HIDE DEF n
  <2>3. CASE log[r].blockNumber <= b
    <3>1. IsLast(r, log, b, lower, r)
      BY <1>1, <2>1, <2>3 DEF IsLast, n
    <3> QED BY <2>1, <3>1
  <2>4. CASE log[r].blockNumber > b
    <3>1. \A j \in 1..n : i < j /\ j <= r => log[j].blockNumber > b
      <4> SUFFICES ASSUME NEW j \in 1..n, i < j, j <= r PROVE log[j].blockNumber > b
        OBVIOUS
      <4>1. j = r \/ j <= r - 1
        BY <1>1, <2>1
      <4> QED BY <2>2, <2>4, <4>1 DEF IsLast, n
    <3>2. IsLast(i, log, b, lower, r)
      BY <1>1, <2>1, <2>2, <3>1 DEF IsLast, n
    <3> QED BY <3>2
  <2> QED BY <1>2, <2>1, <2>3, <2>4
<1>5. upper - lower \in 0..n
  BY <1>1
<1>6. \A d \in 0..n : d \in Found
  <2> HIDE DEF Found, n
  <2> QED BY ONLY <1>1, <1>3, <1>4, StepInduction
<1>7. upper - lower \in Found
  <2> HIDE DEF Found
  <2> QED BY <1>5, <1>6
<1>8. upper \in lower..n
  BY <1>1
<1> QED BY <1>7, <1>8

\* The recursion of the binary search has a solution on an ordered log.
LEMMA SearchExists ==
    ASSUME NEW log \in Seq(Snapshot), NEW b \in Nat, Ordered(log)
    PROVE  \E search : IsSearch(search, log, b)
<1> DEFINE n == Len(log)
           Last(lower, upper) == CHOOSE i \in 1..n : IsLast(i, log, b, lower, upper)
           Found(lower, upper) == IF upper <= lower THEN lower ELSE Last(lower, upper)
           search == [bounds \in (1..n) \X (1..n) |-> log[Found(bounds[1], bounds[2])].value]
<1>1. n \in Nat
  OBVIOUS
<1>2. \A i \in 1..n : log[i].blockNumber \in Nat
  BY DEF Ordered
<1>3. \A i, j \in 1..n : i < j => log[i].blockNumber < log[j].blockNumber
  BY DEF Ordered
<1>4. ASSUME NEW lower \in 1..n, NEW upper \in 1..n, lower <= upper,
             NEW i \in 1..n, IsLast(i, log, b, lower, upper)
      PROVE  Found(lower, upper) = i
  <2>1. CASE lower = upper
    BY <1>1, <1>4, <2>1 DEF IsLast
  <2>2. CASE lower < upper
    <3> DEFINE k == Last(lower, upper)
    <3>1. k \in 1..n /\ IsLast(k, log, b, lower, upper)
      BY <1>4
    <3>2. Found(lower, upper) = k
      BY <1>1, <2>2
    <3> HIDE DEF k, n, Found
    <3>3. ~(i < k)
      BY <1>1, <1>2, <1>4, <3>1 DEF IsLast
    <3>4. ~(k < i)
      BY <1>1, <1>2, <1>4, <3>1 DEF IsLast
    <3> QED BY <1>1, <3>1, <3>2, <3>3, <3>4
  <2> QED BY <1>1, <1>4, <2>1, <2>2
<1> HIDE DEF n, Found
<1>5. ASSUME NEW lower \in 1..n, NEW upper \in 1..n
      PROVE  search[<<lower, upper>>] = log[Found(lower, upper)].value
  OBVIOUS
<1> HIDE DEF search
<1>6. ASSUME NEW lower \in 1..n, NEW upper \in 1..n
      PROVE  search[<<lower, upper>>] = Turn(search, log, b, lower, upper)
  <2>1. CASE upper <= lower
    <3>1. Found(lower, upper) = lower
      BY <2>1 DEF Found
    <3> QED BY <1>5, <2>1, <3>1 DEF Turn
  <2>2. CASE lower < upper
    <3> DEFINE m == Middle(lower, upper)
    <3>1. m \in Nat /\ lower < m /\ m <= upper
      BY <1>1, <2>2, MiddleIsBetween
    <3> HIDE DEF m
    <3>2. m \in 1..n /\ m - 1 \in 1..n
      BY <1>1, <3>1
    <3>3. PICK i \in 1..n : IsLast(i, log, b, lower, upper)
      BY <1>1, <2>2, LastExists DEF n
    <3>4. search[<<lower, upper>>] = log[i].value
      BY <1>1, <1>4, <1>5, <2>2, <3>3
    <3>5. Turn(search, log, b, lower, upper) =
            IF log[m].blockNumber = b THEN log[m].value
            ELSE IF log[m].blockNumber < b THEN search[<<m, upper>>]
            ELSE search[<<lower, m - 1>>]
      BY <1>1, <2>2 DEF Turn, m
    <3>6. CASE log[m].blockNumber = b
      <4>1. ~(i < m)
        BY <1>2, <3>1, <3>2, <3>3, <3>6 DEF IsLast, n
      <4>2. ~(m < i)
        BY <1>1, <1>2, <1>3, <3>1, <3>2, <3>3, <3>6 DEF IsLast
      <4> QED BY <1>1, <3>2, <3>4, <3>5, <3>6, <4>1, <4>2
    <3>7. CASE log[m].blockNumber < b
      <4>1. ~(i < m)
        BY <1>2, <3>1, <3>2, <3>3, <3>7 DEF IsLast, n
      <4>2. IsLast(i, log, b, m, upper)
        BY <1>1, <1>2, <3>1, <3>2, <3>3, <4>1 DEF IsLast, n
      <4>3. Found(m, upper) = i
        BY <1>4, <3>1, <3>2, <4>2
      <4>4. search[<<m, upper>>] = log[i].value
        BY <1>5, <3>2, <4>3
      <4> QED BY <1>2, <3>2, <3>4, <3>5, <3>7, <4>4
    <3>8. CASE log[m].blockNumber > b
      <4>1. i < m
        <5>1. i = m \/ m < i => log[i].blockNumber > b
          BY <1>1, <1>2, <1>3, <3>2, <3>8
        <5> QED BY <1>1, <1>2, <3>1, <3>2, <3>3, <5>1 DEF IsLast
      <4>2. IsLast(i, log, b, lower, m - 1)
        BY <1>1, <3>1, <3>2, <3>3, <4>1 DEF IsLast, n
      <4>3. lower <= m - 1
        BY <1>1, <3>1
      <4>4. Found(lower, m - 1) = i
        BY <1>4, <3>2, <4>2, <4>3
      <4>5. search[<<lower, m - 1>>] = log[i].value
        BY <1>5, <3>2, <4>4
      <4> QED BY <1>2, <3>2, <3>4, <3>5, <3>8, <4>5
    <3> QED BY <1>2, <3>2, <3>4, <3>6, <3>7, <3>8
  <2> QED BY <1>1, <2>1, <2>2
<1>7. search = [bounds \in (1..n) \X (1..n) |-> search[bounds]]
  BY DEF search
<1>8. \A bounds \in (1..n) \X (1..n) :
          search[bounds] = Turn(search, log, b, bounds[1], bounds[2])
  <2> SUFFICES ASSUME NEW bounds \in (1..n) \X (1..n)
               PROVE  search[bounds] = Turn(search, log, b, bounds[1], bounds[2])
    OBVIOUS
  <2>1. bounds[1] \in 1..n /\ bounds[2] \in 1..n /\ bounds = <<bounds[1], bounds[2]>>
    OBVIOUS
  <2> QED BY <1>6, <2>1
<1>9. search = [bounds \in (1..n) \X (1..n) |-> Turn(search, log, b, bounds[1], bounds[2])]
  BY <1>7, <1>8
<1> QED BY <1>9 DEF IsSearch, n

-----------------------------------------------------------------------------
(* Answers about earlier blocks.                                             *)

\* What a history answers for a block: SearchByBlockNumber, for one log.
Answer(log, balance, b) ==
    IF log = <<>> THEN balance
    ELSE IF Latest(log).blockNumber <= b THEN Latest(log).value
    ELSE IF log[1].blockNumber > b THEN 0
    ELSE BinarySearch(log, b)

\* It is the value of the last snapshot not after that block.
LEMMA AnswerIsLast ==
    ASSUME NEW log \in Seq(Snapshot), NEW balance, NEW b \in Nat, Ordered(log),
           NEW i \in 1..Len(log), IsLast(i, log, b, 1, Len(log)), log[i].blockNumber <= b
    PROVE  Answer(log, balance, b) = log[i].value
<1> DEFINE n == Len(log)
<1>1. n \in Nat /\ 1 \in 1..n /\ n \in 1..n /\ log # <<>>
  OBVIOUS
<1>2. \A j \in 1..n : log[j].blockNumber \in Nat
  BY DEF Ordered
<1>3. CASE log[n].blockNumber <= b
  <2> HIDE DEF n
  <2>1. ~(i < n)
    BY <1>1, <1>2, <1>3 DEF IsLast, n
  <2>2. i = n
    BY <1>1, <2>1 DEF n
  <2> QED BY <1>1, <1>3, <2>2 DEF Answer, Latest, n
<1>4. CASE log[n].blockNumber > b
  <2>1. log[1].blockNumber <= b
    <3>1. i = 1 \/ log[1].blockNumber < log[i].blockNumber
      BY <1>1 DEF Ordered
    <3> QED BY <1>1, <1>2, <3>1
  <2> DEFINE search == CHOOSE f : IsSearch(f, log, b)
  <2>2. IsSearch(search, log, b)
    BY SearchExists
  <2> HIDE DEF search, n
  <2>3. search[<<1, n>>] = log[i].value
    BY <1>1, <2>2, SearchFinds DEF n
  <2>4. BinarySearch(log, b) = search[<<1, n>>]
    BY SearchByDefinition DEF search, n
  <2> QED BY <1>1, <1>2, <1>4, <2>1, <2>3, <2>4 DEF Answer, Latest, n
<1> QED BY <1>1, <1>2, <1>3, <1>4

\* Before the first snapshot it is 0.
LEMMA AnswerBeforeFirst ==
    ASSUME NEW log \in Seq(Snapshot), NEW balance, NEW b \in Nat, Ordered(log),
           log # <<>>, log[1].blockNumber > b
    PROVE  Answer(log, balance, b) = 0
<1> DEFINE n == Len(log)
<1>1. n \in Nat /\ 1 \in 1..n /\ n \in 1..n
  OBVIOUS
<1>2. \A i, j \in 1..n : i < j => log[i].blockNumber < log[j].blockNumber
  BY DEF Ordered
<1>3. log[1].blockNumber \in Nat /\ log[n].blockNumber \in Nat
  BY <1>1 DEF Ordered
<1> HIDE DEF n
<1>4. n = 1 \/ 1 < n
  BY <1>1
<1>5. n = 1 \/ log[1].blockNumber < log[n].blockNumber
  BY <1>1, <1>2, <1>4
<1>6. log[n].blockNumber > b
  BY <1>3, <1>5
<1> QED BY <1>3, <1>6 DEF Answer, Latest, n

\* Two histories that have the same snapshots up to a block answer the same
\* about it, when neither is empty.
LEMMA SameUpToBlock ==
    ASSUME NEW log \in Seq(Snapshot), NEW new \in Seq(Snapshot), NEW b \in Nat,
           Ordered(log), Ordered(new), log # <<>>, Len(log) <= Len(new),
           \A i \in 1..Len(log) : new[i].blockNumber = log[i].blockNumber,
           \A i \in 1..Len(log) : log[i].blockNumber <= b => new[i] = log[i],
           \A i \in 1..Len(new) : Len(log) < i => new[i].blockNumber > b,
           NEW balance, NEW newBalance
    PROVE  Answer(new, newBalance, b) = Answer(log, balance, b)
<1> DEFINE n == Len(log)
           m == Len(new)
<1>1. n \in Nat /\ m \in Nat /\ 1 \in 1..n /\ n \in 1..n /\ 1 \in 1..m /\ m \in 1..m /\ n <= m
  OBVIOUS
<1>2. \A i \in 1..n : log[i].blockNumber \in Nat
  BY DEF Ordered
<1>3. CASE log[1].blockNumber > b
  <2>1. new # <<>> /\ new[1].blockNumber > b
    BY <1>1, <1>3
  <2> QED BY <1>3, <2>1, AnswerBeforeFirst
<1>4. CASE log[1].blockNumber <= b
  <2>1. PICK i \in 1..n : IsLast(i, log, b, 1, n)
    <3>1. 1 <= n
      BY <1>1
    <3> QED BY ONLY <1>1, <3>1, log \in Seq(Snapshot), b \in Nat, Ordered(log), LastExists
  <2>2. log[i].blockNumber <= b
    BY <1>4, <2>1 DEF IsLast
  <2>3. Answer(log, balance, b) = log[i].value
    BY <2>1, <2>2, AnswerIsLast
  <2>4. i \in 1..m /\ new[i] = log[i] /\ new[i].blockNumber <= b
    BY <1>1, <2>2
  <2>5. \A j \in 1..m : i < j => new[j].blockNumber > b
    <3> SUFFICES ASSUME NEW j \in 1..m, i < j PROVE new[j].blockNumber > b
      OBVIOUS
    <3>1. CASE j <= n
      <4>1. j \in 1..n
        BY <1>1, <3>1
      <4> QED BY <2>1, <4>1 DEF IsLast
    <3>2. CASE n < j
      BY <3>2
    <3> QED BY <1>1, <3>1, <3>2
  <2>6. IsLast(i, new, b, 1, m)
    BY <1>1, <2>4, <2>5 DEF IsLast
  <2>7. Answer(new, newBalance, b) = new[i].value
    BY <2>4, <2>6, AnswerIsLast
  <2> QED BY <2>3, <2>4, <2>7
<1> QED BY <1>1, <1>2, <1>3, <1>4

LEMMA LogIsOrdered ==
    ASSUME NEW log \in Seq(Snapshot), LogOrdered(log)
    PROVE  Ordered(log)
<1>1. DOMAIN log = 1..Len(log)
  OBVIOUS
<1>2. ASSUME NEW i \in 1..Len(log) PROVE log[i].blockNumber \in Nat
  <2>1. log[i] \in Snapshot
    OBVIOUS
  <2> QED BY <2>1 DEF Snapshot
<1> QED BY <1>1, <1>2 DEF LogOrdered, Ordered

\* A write in the current block changes no answer about an earlier one, if the
\* account held nothing as long as it had no snapshot.
LEMMA WriteKeepsPast ==
    ASSUME NEW log \in Seq(Snapshot), LogOrdered(log), NEW newValue \in Nat,
           blockNumber \in Nat, NEW b \in Nat, b < blockNumber,
           NEW balance, NEW newBalance, log = <<>> => balance = 0
    PROVE  Answer(WriteSnapshot(log, newValue), newBalance, b) = Answer(log, balance, b)
<1> DEFINE n == Len(log)
           entry == [blockNumber |-> blockNumber, value |-> newValue]
           new == WriteSnapshot(log, newValue)
<1>1. new \in Seq(Snapshot) /\ new # <<>> /\ LogOrdered(new) /\ Ordered(new) /\ Ordered(log)
  <2>1. new \in Seq(Snapshot) /\ new # <<>> /\ LogOrdered(new)
    BY WriteKeepsOrder
  <2> QED BY <2>1, LogIsOrdered
<1>2. n \in Nat /\ entry \in Snapshot /\ entry.blockNumber = blockNumber
  BY DEF Snapshot
<1>3. CASE log = <<>>
  <2>1. new = Append(log, entry)
    BY <1>3 DEF WriteSnapshot
  <2>2. new[1] = entry
    BY <1>3, <2>1
  <2> HIDE DEF new, entry
  <2>3. Answer(new, newBalance, b) = 0
    BY <1>1, <1>2, <2>2, AnswerBeforeFirst
  <2>4. Answer(log, balance, b) = balance
    BY <1>3 DEF Answer
  <2> QED BY <1>3, <2>3, <2>4 DEF new
<1>4. CASE log # <<>> /\ Latest(log).blockNumber = blockNumber
  <2>1. new = [log EXCEPT ![n].value = newValue] /\ n \in 1..n
    BY <1>4 DEF WriteSnapshot
  <2>2. Len(new) = n /\ \A i \in 1..n : new[i] = IF i = n THEN [log[n] EXCEPT !.value = newValue]
                                                          ELSE log[i]
    BY <2>1
  <2>3. \A i \in 1..n : log[i] \in Snapshot
    OBVIOUS
  <2>4. [log[n] EXCEPT !.value = newValue].blockNumber = blockNumber
    BY <1>4, <2>1, <2>3 DEF Latest, Snapshot
  <2>5. log[n].blockNumber = blockNumber
    BY <1>4 DEF Latest
  <2> HIDE DEF new, n
  <2>6. \A i \in 1..n : new[i].blockNumber = log[i].blockNumber
    BY <2>1, <2>2, <2>4, <2>5
  <2>7. \A i \in 1..n : log[i].blockNumber <= b => new[i] = log[i]
    BY <2>1, <2>2, <2>5
  <2>8. \A i \in 1..n : ~(n < i)
    BY <1>2
  <2> QED BY <1>1, <1>2, <1>4, <2>2, <2>6, <2>7, <2>8, SameUpToBlock DEF n, new
<1>5. CASE log # <<>> /\ Latest(log).blockNumber # blockNumber
  <2>1. new = Append(log, entry)
    BY <1>5 DEF WriteSnapshot
  <2>2. Len(new) = n + 1 /\ new[n + 1] = entry /\ \A i \in 1..n : new[i] = log[i]
    BY <1>2, <2>1, AppendProperties
  <2> HIDE DEF new, n, entry
  <2>3. \A i \in 1..Len(new) : n < i => new[i].blockNumber > b
    <3>1. \A i \in 1..(n + 1) : n < i => i = n + 1
      BY <1>2
    <3> QED BY <1>2, <2>2, <3>1
  <2>4. n <= Len(new)
    BY <1>2, <2>2
  <2> QED BY <1>1, <1>5, <2>2, <2>3, <2>4, SameUpToBlock DEF n, new
<1> QED BY <1>3, <1>4, <1>5

-----------------------------------------------------------------------------
(* Histories of a token that had snapshots from the start.                   *)

\* Who holds tokens has a snapshot.
HoldersHaveSnapshots ==
    \A type \in Types, u \in Users : snapshots[type][u] = <<>> => balances[u] = 0

HistoryInv ==
    /\ GovernanceInv
    /\ HoldersHaveSnapshots
    /\ TotalSupply <= MAX_SUPPLY
    /\ blockNumber >= 1

\* What a step that is not a new block leaves of one history: it is written,
\* or it stays and with it, if it is empty, the balance.
WrittenOrKept(type, u) ==
    \/ \E value \in Nat : snapshots'[type][u] = WriteSnapshot(snapshots[type][u], value)
    \/ /\ snapshots'[type][u] = snapshots[type][u]
       /\ snapshots[type][u] = <<>> => balances'[u] = balances[u]

LEMMA SearchIsAnswer ==
    ASSUME NEW type \in Types, NEW u \in Users, NEW b
    PROVE  /\ GetPowerAtBlock(u, b, type) = Answer(snapshots[type][u], balances[u], b)
           /\ GetPowerAtBlock(u, b, type)' = Answer(snapshots'[type][u], balances'[u], b')
  BY DEF GetPowerAtBlock, SearchByBlockNumber, Answer

LEMMA WritesKeepPast ==
    ASSUME GovernanceInv, HoldersHaveSnapshots, blockNumber' = blockNumber,
           \A type \in Types, u \in Users : WrittenOrKept(type, u)
    PROVE  HoldersHaveSnapshots' /\ PastPower' = PastPower
<1>1. ASSUME NEW type \in Types, NEW u \in Users
      PROVE  /\ snapshots[type][u] \in Seq(Snapshot) /\ LogOrdered(snapshots[type][u])
             /\ blockNumber \in Nat
  BY DEF GovernanceInv, TypeOK, SnapshotsOrdered, LogOrdered
<1>2. ASSUME NEW type \in Types, NEW u \in Users
      PROVE  snapshots'[type][u] = <<>> => balances'[u] = 0
  <2>1. CASE \E value \in Nat : snapshots'[type][u] = WriteSnapshot(snapshots[type][u], value)
    BY <1>1, <2>1, WriteKeepsOrder
  <2>2. CASE /\ snapshots'[type][u] = snapshots[type][u]
             /\ snapshots[type][u] = <<>> => balances'[u] = balances[u]
    BY <2>2 DEF HoldersHaveSnapshots
  <2> QED BY <2>1, <2>2 DEF WrittenOrKept
<1>3. ASSUME NEW type \in Types, NEW u \in Users, NEW b \in 1..(blockNumber - 1)
      PROVE  GetPowerAtBlock(u, b, type)' = GetPowerAtBlock(u, b, type)
  <2> DEFINE log == snapshots[type][u]
             new == snapshots'[type][u]
  <2>1. b \in Nat /\ b < blockNumber /\ log \in Seq(Snapshot) /\ LogOrdered(log)
    BY <1>1
  <2>2. log = <<>> => balances[u] = 0
    BY DEF HoldersHaveSnapshots
  <2> SUFFICES Answer(new, balances'[u], b) = Answer(log, balances[u], b)
    BY SearchIsAnswer
  <2>3. CASE \E value \in Nat : new = WriteSnapshot(log, value)
    <3> HIDE DEF log, new
    <3>1. PICK value \in Nat : new = WriteSnapshot(log, value)
      BY <2>3
    <3> QED BY <1>1, <2>1, <2>2, <3>1, WriteKeepsPast
  <2>4. CASE new = log /\ (log = <<>> => balances'[u] = balances[u])
    BY <2>4 DEF Answer
  <2> QED BY <2>3, <2>4 DEF WrittenOrKept
<1>4. PastPower' = PastPower
  BY <1>3 DEF PastPower
<1> QED BY <1>2, <1>4 DEF HoldersHaveSnapshots

LEMMA PreviousPowerIsNat ==
    ASSUME GovernanceInv, NEW type \in Types, NEW u \in Users
    PROVE  PreviousPower(type, u) \in Nat
  BY PreviousPowerIsPower, PowerIsNat DEF GovernanceInv, PowerInv

\* Moving power writes the histories of both delegatees and no other.
LEMMA MoveWrites ==
    ASSUME GovernanceInv, NEW type \in Types, NEW from \in Account, NEW to \in Account,
           NEW amount \in Nat, CanMoveDelegates(type, from, to, amount), NEW u \in Users
    PROVE  LET new == MoveDelegatesByType(type, from, to, amount)[u] IN
           IF from # to /\ u \in {from, to}
           THEN \E value \in Nat : new = WriteSnapshot(snapshots[type][u], value)
           ELSE new = snapshots[type][u]
<1> DEFINE new == MoveDelegatesByType(type, from, to, amount)[u]
<1>1. PreviousPower(type, u) \in Nat
  BY PreviousPowerIsNat
<1>2. CASE from # to /\ u = from
  <2>1. PreviousPower(type, u) - amount \in Nat
    BY <1>1, <1>2, GovernanceAssumption DEF CanMoveDelegates
  <2>2. new = WriteSnapshot(snapshots[type][u], PreviousPower(type, u) - amount)
    BY <1>2 DEF MoveDelegatesByType
  <2> QED BY <1>2, <2>1, <2>2
<1>3. CASE from # to /\ u # from /\ u = to
  <2>1. PreviousPower(type, u) + amount \in Nat
    BY <1>1
  <2>2. new = WriteSnapshot(snapshots[type][u], PreviousPower(type, u) + amount)
    BY <1>3 DEF MoveDelegatesByType
  <2> QED BY <1>3, <2>1, <2>2
<1>4. CASE ~(from # to /\ u \in {from, to})
  BY <1>4 DEF MoveDelegatesByType
<1> QED BY <1>2, <1>3, <1>4

\* The hook writes for every account whose balance changes, unless it has a
\* history already: without one it is its own delegatee, and nobody else's.
LEMMA HookWrites ==
    ASSUME GovernanceInv, NEW from \in Account, NEW to \in Account, NEW amount \in Nat,
           BeforeTokenTransfer(from, to, amount),
           \A u \in Users : from = to \/ u \notin {from, to} => balances'[u] = balances[u],
           NEW type \in Types, NEW u \in Users
    PROVE  WrittenOrKept(type, u)
<1> DEFINE f == GetDelegatee(type, from)
           t == GetDelegatee(type, to)
<1>1. TypeOK /\ PowerOf(type, u)
  BY DEF GovernanceInv, PowerInv
<1>2. f \in Account /\ t \in Account
  BY <1>1, DelegateeIsAccount DEF Account
<1>3. CanMoveDelegates(type, f, t, amount)
      /\ snapshots'[type] = MoveDelegatesByType(type, f, t, amount)
  BY DEF BeforeTokenTransfer
<1>4. snapshots[type][u] = <<>> => balances'[u] = balances[u] \/ (f # t /\ u \in {f, t})
  <2> SUFFICES ASSUME snapshots[type][u] = <<>>, balances'[u] # balances[u]
               PROVE  f # t /\ u \in {f, t}
    OBVIOUS
  <2>1. from # to /\ u \in {from, to}
    OBVIOUS
  <2>2. \A v \in Users : GetDelegatee(type, v) = u <=> v = u
    BY <1>1 DEF PowerOf, OwnOnly
  <2>3. GetDelegatee(type, ZERO) # u
    BY <1>1, DelegateeIsAccount, GovernanceAssumption
  <2> QED BY <2>1, <2>2, <2>3 DEF Account
<1> HIDE DEF f, t
<1>5. CASE f # t /\ u \in {f, t}
  BY <1>2, <1>3, <1>5, MoveWrites DEF WrittenOrKept
<1>6. CASE ~(f # t /\ u \in {f, t})
  <2>1. snapshots'[type][u] = snapshots[type][u]
    BY <1>2, <1>3, <1>6, MoveWrites
  <2> QED BY <1>4, <1>6, <2>1 DEF WrittenOrKept
<1> QED BY <1>5, <1>6

LEMMA DelegationWrites ==
    ASSUME GovernanceInv, NEW u \in Users, NEW y \in Users, NEW types \in SUBSET Types,
           DelegateTypes(u, y, types), NEW type \in Types, NEW v \in Users
    PROVE  WrittenOrKept(type, v)
<1>1. TypeOK /\ balances' = balances
  BY DEF GovernanceInv, DelegateTypes
<1>2. CASE type \in types
  <2> DEFINE old == GetDelegatee(type, u)
             amount == balances[u]
  <2>1. old \in Account /\ y \in Account /\ amount \in Nat
    BY <1>1, DelegateeIsAccount DEF Account, TypeOK
  <2>2. /\ CanMoveDelegates(type, old, y, amount)
        /\ snapshots'[type] = MoveDelegatesByType(type, old, y, amount)
    BY <1>2 DEF DelegateTypes
  <2> HIDE DEF old, amount
  <2>3. CASE old # y /\ v \in {old, y}
    BY <2>1, <2>2, <2>3, MoveWrites DEF WrittenOrKept
  <2>4. CASE ~(old # y /\ v \in {old, y})
    <3>1. snapshots'[type][v] = snapshots[type][v]
      BY <2>1, <2>2, <2>4, MoveWrites
    <3> QED BY <1>1, <3>1 DEF WrittenOrKept
  <2> QED BY <2>3, <2>4
<1>3. CASE type \notin types
  BY <1>1, <1>3 DEF DelegateTypes, WrittenOrKept
<1> QED BY <1>2, <1>3

\* The power of a delegatee is never below the balance of one that chose it.
LEMMA PowerCoversBalance ==
    ASSUME GovernanceInv, NEW type \in Types, NEW u \in Users
    PROVE  PreviousPower(type, GetDelegatee(type, u)) >= balances[u]
<1> DEFINE d == GetDelegatee(type, u)
           f == Share(balances, Choice(type), d)
<1>1. TypeOK /\ d \in Users /\ balances[u] \in Nat
  BY DelegateeIsAccount DEF GovernanceInv, TypeOK
<1>2. f \in [Users -> Nat] /\ f[u] = balances[u]
  BY <1>1 DEF Share, Choice, TypeOK
<1>3. PreviousPower(type, d) = DelegatedBalance(type, d)
  BY <1>1, PreviousPowerIsPower DEF GovernanceInv, PowerInv
<1>4. DelegatedBalance(type, d) = SumFunction(f)
  BY <1>1, PowerIsSumOfShares
<1> HIDE DEF f, d
<1>5. f[u] <= SumFunction(f) /\ SumFunction(f) \in Nat
  BY <1>2, SumOfNat, GovernanceAssumption
<1> QED BY <1>1, <1>2, <1>3, <1>4, <1>5 DEF d

-----------------------------------------------------------------------------
(* The promise.                                                              *)

LEMMA PromisedSum == ASSUME NEW f PROVE Promise!SumFunction(f) = SumFunction(f)
  BY DEF SumFunction, SumFunctionOnSet, FoldFunctionOnSet, MapThenFoldSet,
         Promise!SumFunction, Promise!SumFunctionOnSet, Promise!FoldFunctionOnSet,
         Promise!MapThenFoldSet

LEMMA PromisedPower ==
    Promise!AllPower = [type \in Types |-> [u \in Users |-> DelegatedBalance(type, u)]]
<1>1. ASSUME NEW type \in Types, NEW u \in Users
      PROVE  Promise!Power(type, u) = DelegatedBalance(type, u)
  <2>1. ASSUME NEW v \in Users
        PROVE  [t \in Types |-> [w \in Users |-> GetDelegatee(t, w)]][type][v] = GetDelegatee(type, v)
    OBVIOUS
  <2>2. [v \in Users |-> IF [t \in Types |-> [w \in Users |-> GetDelegatee(t, w)]][type][v] = u
                         THEN balances[v] ELSE 0]
          = [v \in Users |-> IF GetDelegatee(type, v) = u THEN balances[v] ELSE 0]
    BY <2>1
  <2> QED BY <2>2, PromisedSum DEF Promise!Power, DelegatedBalance
<1> QED BY <1>1 DEF Promise!AllPower

\* A change of balances that keeps within the supply, with the hook.
LEMMA ChangeKeepsPromise ==
    ASSUME HistoryInv, GovernanceInv', TotalSupply' <= MAX_SUPPLY,
           delegates' = delegates, blockNumber' = blockNumber,
           \A type \in Types, u \in Users : WrittenOrKept(type, u)
    PROVE  HistoryInv' /\ Promise!ChangeBalances
<1>1. HoldersHaveSnapshots' /\ PastPower' = PastPower
  BY WritesKeepPast DEF HistoryInv
<1>2. balances' \in [Users -> 0..MAX_SUPPLY]
  <2>1. balances' \in [Users -> Nat]
    BY DEF GovernanceInv, TypeOK
  <2>2. ASSUME NEW u \in Users PROVE balances'[u] \in 0..MAX_SUPPLY
    <3>1. /\ balances'[u] <= SumFunction(balances') /\ balances'[u] \in Nat
          /\ SumFunction(balances') \in Nat
      BY <2>1, SumOfNat, GovernanceAssumption
    <3> QED BY <3>1, GovernanceAssumption DEF TotalSupply
  <2> QED BY <2>1, <2>2
<1>3. \A type \in Types, u \in Users : GetDelegatee(type, u)' = GetDelegatee(type, u)
  BY DEF GetDelegatee
<1>4. [type \in Types |-> [u \in Users |-> GetDelegatee(type, u)]]'
        = [type \in Types |-> [u \in Users |-> GetDelegatee(type, u)]]
  BY <1>3
<1> QED BY <1>1, <1>2, <1>4 DEF HistoryInv, Promise!ChangeBalances

LEMMA MintKeepsPromise ==
    ASSUME HistoryInv, NEW u \in Users, NEW amount \in Nat,
           BeforeTokenTransfer(ZERO, u, amount), blockNumber' = blockNumber,
           balances' = [balances EXCEPT ![u] = @ + amount], TotalSupply + amount <= MAX_SUPPLY
    PROVE  HistoryInv' /\ Promise!ChangeBalances
<1>1. GovernanceInv /\ GovernanceInv'
  BY MintKeepsInv DEF HistoryInv
<1>2. delegates' = delegates
  BY DEF BeforeTokenTransfer
<1>3. balances \in [Users -> Nat]
  BY <1>1 DEF GovernanceInv, TypeOK
<1>4. \A type \in Types, v \in Users : WrittenOrKept(type, v)
  <2>1. ZERO \in Account /\ u \in Account /\ ZERO # u
    BY GovernanceAssumption DEF Account
  <2>2. \A v \in Users \ {u} : balances'[v] = balances[v]
    BY <1>2, <1>3
  <2> QED BY <1>1, <1>2, <2>1, <2>2, HookWrites
<1>5. TotalSupply' <= MAX_SUPPLY
  <2>1. balances \in [Users -> Int] /\ balances' \in [Users -> Int]
        /\ \A v \in Users \ {u} : balances'[v] = balances[v]
    BY <1>2, <1>3
  <2>2. SumFunction(balances') = SumFunction(balances) + balances'[u] - balances[u]
    BY <2>1, SumOverUsers
  <2>3. balances'[u] = balances[u] + amount
    BY <1>2, <1>3
  <2>4. SumFunction(balances) \in Nat /\ balances[u] \in Nat
    BY <1>3, SumOfNat, GovernanceAssumption
  <2> QED BY <1>2, <2>2, <2>3, <2>4 DEF TotalSupply
<1> QED BY <1>1, <1>2, <1>4, <1>5, ChangeKeepsPromise

LEMMA BurnKeepsPromise ==
    ASSUME HistoryInv, NEW u \in Users, NEW amount \in Nat,
           BeforeTokenTransfer(u, ZERO, amount), blockNumber' = blockNumber,
           balances[u] >= amount, balances' = [balances EXCEPT ![u] = @ - amount]
    PROVE  HistoryInv' /\ Promise!ChangeBalances
<1>1. GovernanceInv /\ GovernanceInv'
  BY BurnKeepsInv DEF HistoryInv
<1>2. delegates' = delegates
  BY DEF BeforeTokenTransfer
<1>3. balances \in [Users -> Nat]
  BY <1>1 DEF GovernanceInv, TypeOK
<1>4. \A type \in Types, v \in Users : WrittenOrKept(type, v)
  <2>1. ZERO \in Account /\ u \in Account /\ ZERO # u
    BY GovernanceAssumption DEF Account
  <2>2. \A v \in Users \ {u} : balances'[v] = balances[v]
    BY <1>2, <1>3
  <2> QED BY <1>1, <1>2, <2>1, <2>2, HookWrites
<1>5. TotalSupply' <= MAX_SUPPLY
  <2>1. balances \in [Users -> Int] /\ balances' \in [Users -> Int]
        /\ \A v \in Users \ {u} : balances'[v] = balances[v]
    BY <1>2, <1>3
  <2>2. SumFunction(balances') = SumFunction(balances) + balances'[u] - balances[u]
    BY <2>1, SumOverUsers
  <2>3. balances'[u] = balances[u] - amount
    BY <1>2, <1>3
  <2>4. SumFunction(balances) \in Nat /\ balances[u] \in Nat
    BY <1>3, SumOfNat, GovernanceAssumption
  <2>5. SumFunction(balances) <= MAX_SUPPLY
    BY DEF HistoryInv, TotalSupply
  <2> QED BY <2>2, <2>3, <2>4, <2>5, GovernanceAssumption DEF TotalSupply
<1> QED BY <1>1, <1>2, <1>4, <1>5, ChangeKeepsPromise

LEMMA TransferKeepsPromise ==
    ASSUME HistoryInv, NEW from \in Users, NEW to \in Users, NEW amount \in Nat,
           Transfer(from, to, amount)
    PROVE  HistoryInv' /\ Promise!ChangeBalances
<1> DEFINE left == [balances EXCEPT ![from] = @ - amount]
<1>1. GovernanceInv /\ GovernanceInv'
  BY TransferKeepsInv DEF HistoryInv
<1>2. /\ BeforeTokenTransfer(from, to, amount) /\ blockNumber' = blockNumber
      /\ delegates' = delegates
      /\ balances' = [balances EXCEPT ![from] = @ - amount, ![to] = @ + amount]
  BY DEF Transfer, BeforeTokenTransfer
<1>3. balances \in [Users -> Nat]
  BY <1>1 DEF GovernanceInv, TypeOK
<1>4. \A type \in Types, v \in Users : WrittenOrKept(type, v)
  BY <1>1, <1>2, <1>3, HookWrites DEF Account
<1>5. TotalSupply' <= MAX_SUPPLY
  <2>1. /\ balances \in [Users -> Int] /\ left \in [Users -> Int] /\ balances' \in [Users -> Int]
        /\ \A v \in Users \ {from} : left[v] = balances[v]
        /\ \A v \in Users \ {to} : balances'[v] = left[v]
        /\ left[from] = balances[from] - amount /\ balances'[to] = left[to] + amount
        /\ left[to] \in Int
    BY <1>2, <1>3
  <2> HIDE DEF left
  <2>2. SumFunction(left) = SumFunction(balances) + left[from] - balances[from]
    BY <2>1, SumOverUsers
  <2>3. SumFunction(balances') = SumFunction(left) + balances'[to] - left[to]
    BY <2>1, SumOverUsers
  <2>4. SumFunction(balances) \in Nat /\ balances[from] \in Nat
    BY <1>3, SumOfNat, GovernanceAssumption
  <2>5. SumFunction(balances') = SumFunction(balances)
    BY <2>1, <2>2, <2>3, <2>4
  <2> QED BY <2>5 DEF HistoryInv, TotalSupply
<1> QED BY <1>1, <1>2, <1>4, <1>5, ChangeKeepsPromise

LEMMA DelegationKeepsPromise ==
    ASSUME HistoryInv, NEW u \in Users, NEW y \in Users, NEW types \in SUBSET Types,
           DelegateTypes(u, y, types)
    PROVE  HistoryInv' /\ Promise!ChooseDelegatee(u, y, types)
<1>1. GovernanceInv /\ GovernanceInv'
  BY DelegateKeepsInv DEF HistoryInv
<1>2. /\ balances' = balances /\ blockNumber' = blockNumber
      /\ delegates' = [type \in Types |->
           IF type \in types THEN [delegates[type] EXCEPT ![u] = y] ELSE delegates[type]]
  BY DEF DelegateTypes
<1>3. \A type \in Types, v \in Users : WrittenOrKept(type, v)
  BY <1>1, DelegationWrites
<1>4. HoldersHaveSnapshots' /\ PastPower' = PastPower
  BY <1>1, <1>2, <1>3, WritesKeepPast DEF HistoryInv
<1>5. delegates \in [Types -> [Users -> Users \cup {ZERO}]]
  BY <1>1 DEF GovernanceInv, TypeOK
<1> DEFINE chosen == [type \in Types |-> [v \in Users |-> GetDelegatee(type, v)]]
<1>6. ASSUME NEW type \in Types, NEW v \in Users
      PROVE  GetDelegatee(type, v)' = IF type \in types /\ v = u THEN y ELSE GetDelegatee(type, v)
  BY <1>2, <1>5, GovernanceAssumption DEF GetDelegatee
<1>7. chosen' = [type \in Types |->
          IF type \in types THEN [chosen[type] EXCEPT ![u] = y] ELSE chosen[type]]
  <2>1. chosen' = [type \in Types |-> [v \in Users |->
                     IF type \in types /\ v = u THEN y ELSE GetDelegatee(type, v)]]
    BY <1>6
  <2>2. ASSUME NEW type \in Types
        PROVE  [v \in Users |-> IF type \in types /\ v = u THEN y ELSE GetDelegatee(type, v)]
                 = IF type \in types THEN [chosen[type] EXCEPT ![u] = y] ELSE chosen[type]
    OBVIOUS
  <2> HIDE DEF chosen
  <2> QED BY <2>1, <2>2
<1>8. TotalSupply' <= MAX_SUPPLY
  BY <1>2 DEF HistoryInv, TotalSupply
<1> QED BY <1>1, <1>2, <1>4, <1>7, <1>8 DEF HistoryInv, Promise!ChooseDelegatee

\* At the end of a block the power of now becomes the power at that block.
LEMMA NextBlockKeepsPromise ==
    ASSUME HistoryInv, NextBlock
    PROVE  HistoryInv' /\ Promise!EndBlock
<1>1. GovernanceInv /\ GovernanceInv'
  BY NextBlockKeepsInv DEF HistoryInv
<1>2. /\ UNCHANGED <<balances, delegates, snapshots>> /\ blockNumber < MAX_BLOCK
      /\ blockNumber \in Nat /\ blockNumber' = blockNumber + 1
  BY <1>1 DEF NextBlock, powerVars, GovernanceInv, TypeOK
<1>3. HistoryInv'
  BY <1>1, <1>2 DEF HistoryInv, HoldersHaveSnapshots, TotalSupply
<1>4. [type \in Types |-> [u \in Users |-> GetDelegatee(type, u)]]'
        = [type \in Types |-> [u \in Users |-> GetDelegatee(type, u)]]
  BY <1>2 DEF GetDelegatee
<1>5. ASSUME NEW b \in Nat, NEW type \in Types, NEW u \in Users
      PROVE  GetPowerAtBlock(u, b, type)' = GetPowerAtBlock(u, b, type)
  BY <1>2 DEF GetPowerAtBlock, SearchByBlockNumber
<1>6. ASSUME NEW type \in Types, NEW u \in Users
      PROVE  GetPowerAtBlock(u, blockNumber, type) = DelegatedBalance(type, u)
  BY <1>1, CurrentIsDelegated DEF GetPowerAtBlock, GetPowerCurrent, PowerIsDelegatedBalance
<1> DEFINE At(b) == [type \in Types |-> [u \in Users |-> GetPowerAtBlock(u, b, type)]]
           m == blockNumber - 1
<1>7. /\ PastPower = [b \in 1..m |-> At(b)]
      /\ PastPower' = [b \in 1..blockNumber |-> At(b)']
  BY <1>2 DEF PastPower
<1>8. ASSUME NEW b \in Nat PROVE At(b)' = At(b)
  BY <1>5
<1>9. At(blockNumber) = Promise!AllPower
  BY <1>6, PromisedPower
<1>10. PastPower' = Append(PastPower, Promise!AllPower)
  <2>1. m \in Nat /\ m + 1 = blockNumber
    <3>1. blockNumber >= 1
      BY <1>1 DEF HistoryInv
    <3> QED BY <1>2, <3>1
  <2> HIDE DEF At, m
  <2>2. /\ PastPower = [b \in 1..m |-> At(b)] /\ Len(PastPower) = m
        /\ \A b \in 1..m : PastPower[b] = At(b)
    BY <1>7, <2>1
  <2>3. Append(PastPower, Promise!AllPower)
          = [b \in 1..(m + 1) |-> IF b <= m THEN At(b) ELSE Promise!AllPower]
    BY <2>1, <2>2
  <2>4. ASSUME NEW b \in 1..blockNumber
        PROVE  At(b)' = IF b <= m THEN At(b) ELSE Promise!AllPower
    <3>1. b \in Nat /\ (b <= m \/ b = blockNumber)
      BY <1>2, <2>1
    <3>2. ~(blockNumber <= m)
      BY <1>2, <2>1
    <3> QED BY <1>8, <1>9, <3>1, <3>2
  <2> QED BY <1>7, <2>1, <2>3, <2>4
<1> QED BY <1>2, <1>3, <1>4, <1>10 DEF Promise!EndBlock

\* The kinds of power for which every holder had a snapshot when the run began.
SnapshotsFromStart ==
    /\ SumFunction(InitialBalances) <= MAX_SUPPLY
    /\ \A type \in Types, u \in Users : type = VOTING_POWER \/ InitialBalances[u] = 0

LEMMA InitKeepsPromise ==
    ASSUME SnapshotsFromStart, Init
    PROVE  HistoryInv /\ Promise!Init
<1>1. GovernanceInv /\ balances = InitialBalances /\ blockNumber = 2
  BY InitInv DEF Init
<1>2. HoldersHaveSnapshots
  BY <1>1 DEF SnapshotsFromStart, Init, HoldersHaveSnapshots
<1>3. HistoryInv
  BY <1>1, <1>2 DEF HistoryInv, SnapshotsFromStart, TotalSupply
<1>4. ASSUME NEW type \in Types, NEW u \in Users
      PROVE  GetDelegatee(type, u) = u
  BY GovernanceAssumption DEF Init, GetDelegatee
<1>5. ASSUME NEW type \in Types, NEW u \in Users
      PROVE  GetPowerAtBlock(u, 1, type) = GetPowerCurrent(u, type)
  <2> DEFINE log == snapshots[type][u]
  <2>1. log = <<>> \/ log = <<[blockNumber |-> 1, value |-> balances[u]]>>
    BY DEF Init
  <2>2. CASE log = <<>>
    BY <2>2 DEF GetPowerAtBlock, GetPowerCurrent, SearchByBlockNumber
  <2>3. CASE log = <<[blockNumber |-> 1, value |-> balances[u]]>>
    <3> HIDE DEF log
    <3>1. log # <<>> /\ Latest(log).blockNumber = 1
      BY <2>3 DEF Latest
    <3> QED BY <1>1, <3>1 DEF GetPowerAtBlock, GetPowerCurrent, SearchByBlockNumber, log
  <2> QED BY <2>1, <2>2, <2>3
<1>6. ASSUME NEW type \in Types, NEW u \in Users
      PROVE  GetPowerAtBlock(u, 1, type) = DelegatedBalance(type, u)
  BY <1>1, <1>5, CurrentIsDelegated DEF PowerIsDelegatedBalance
<1> DEFINE At(b) == [type \in Types |-> [u \in Users |-> GetPowerAtBlock(u, b, type)]]
<1>7. PastPower = [b \in 1..(2 - 1) |-> At(b)]
  BY <1>1 DEF PastPower
<1>8. At(1) = Promise!AllPower
  BY <1>6, PromisedPower
<1> HIDE DEF At
<1>9. PastPower = <<Promise!AllPower>>
  <2>1. 1..(2 - 1) = {1}
    OBVIOUS
  <2>2. PastPower = [b \in {1} |-> Promise!AllPower]
    BY <1>7, <1>8, <2>1
  <2> QED BY <2>2
<1>10. [type \in Types |-> [u \in Users |-> GetDelegatee(type, u)]]
         = [type \in Types |-> [u \in Users |-> u]]
  BY <1>4
<1> QED BY <1>1, <1>3, <1>9, <1>10 DEF Promise!Init

LEMMA NextKeepsPromise ==
    ASSUME HistoryInv, [Next]_vars
    PROVE  HistoryInv' /\ [Promise!Next]_(Promise!vars)
<1>0. \A amount \in Amounts : amount \in Nat
  BY GovernanceAssumption
<1>1. ASSUME NEW u \in Users, NEW amount \in Amounts, Mint(u, amount) \/ Burn(u, amount)
      PROVE  HistoryInv' /\ Promise!ChangeBalances
  BY <1>0, <1>1, MintKeepsPromise, BurnKeepsPromise DEF Mint, Burn
<1>2. ASSUME NEW from \in Users, NEW to \in Users, NEW amount \in Amounts,
             Transfer(from, to, amount)
      PROVE  HistoryInv' /\ Promise!ChangeBalances
  BY <1>0, <1>2, TransferKeepsPromise
<1>3. ASSUME NEW u \in Users, NEW v \in Users, NEW type \in Types, DelegateByType(u, v, type)
      PROVE  HistoryInv' /\ Promise!ChooseDelegatee(u, v, {type})
  BY <1>3, DelegationKeepsPromise DEF DelegateByType
<1>4. ASSUME NEW u \in Users, NEW v \in Users, Delegate(u, v)
      PROVE  HistoryInv' /\ Promise!ChooseDelegatee(u, v, Types)
  BY <1>4, DelegationKeepsPromise DEF Delegate
<1>5. CASE NextBlock
  BY <1>5, NextBlockKeepsPromise DEF Promise!Next
<1>6. CASE UNCHANGED vars
  <2>1. UNCHANGED <<balances, delegates, snapshots, blockNumber>>
    BY <1>6 DEF vars, powerVars
  <2>2. GovernanceInv'
    BY <1>6, NextInv DEF HistoryInv
  <2>3. HistoryInv'
    BY <2>1, <2>2 DEF HistoryInv, HoldersHaveSnapshots, TotalSupply
  <2>4. UNCHANGED Promise!vars
    BY <2>1 DEF Promise!vars, PastPower, GetPowerAtBlock, SearchByBlockNumber, GetDelegatee
  <2> QED BY <2>3, <2>4
<1>7. \A type \in Types : {type} \in SUBSET Types
  OBVIOUS
<1> QED BY <1>1, <1>2, <1>3, <1>4, <1>5, <1>6, <1>7 DEF Next, Promise!Next

\* The refinement: whatever getPowerAtBlock says about a block that is over
\* was the power at its end, and stays so through any transactions, for every
\* kind of power of which all holders have snapshots from the start.
THEOREM PastPowerIsKept == SnapshotsFromStart => (Spec => KeepsPromise)
<1> SUFFICES ASSUME SnapshotsFromStart PROVE Spec => KeepsPromise
  OBVIOUS
<1>1. Init => HistoryInv /\ Promise!Init
  BY InitKeepsPromise
<1>2. HistoryInv /\ [Next]_vars => HistoryInv' /\ [Promise!Next]_(Promise!vars)
  BY NextKeepsPromise
<1> QED BY <1>1, <1>2, PTL DEF Spec, KeepsPromise, Promise!Spec

=============================================================================
