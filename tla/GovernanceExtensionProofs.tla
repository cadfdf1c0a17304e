---------------------- MODULE GovernanceExtensionProofs ----------------------
(***************************************************************************)
(* Theorems about what is built on GovernancePowerDelegation:              *)
(* SignedMessages, allowances and messages on top of it, and               *)
(* VotingUpgrade, the implementation it takes over from.  What             *)
(* GovernanceProofs proves of a transaction is used in both.               *)
(***************************************************************************)
EXTENDS SignedMessages, VotingUpgrade, GovernanceProofs

----------------------------------------------------------------------------
(* SignedMessages, for any users, spenders and messages: messages take effect *)
(* once and in order, allowances are spent once.  The token underneath does   *)
(* not matter for either, so that the proofs see of each transaction only     *)
(* what it does to allowances and nonces.                                     *)

\* What the transactions of SignedMessages do to the state of this module.
AllowanceStep ==
    \E owner \in Users, spender \in Spenders, amount, grant \in Nat :
        /\ amount <= allowances[owner][spender] + grant
        /\ SetAllowance(owner, spender, amount, grant)

SpendStep ==
    \E owner \in Users, spender \in Spenders, amount \in Nat :
        /\ allowances[owner][spender] >= amount
        /\ allowances' = [allowances EXCEPT ![owner][spender] = @ - amount]
        /\ spent' = [spent EXCEPT ![owner][spender] = @ + amount]
        /\ UNCHANGED <<nonces, executed, granted>>

PermitStep == \E m \in Permits : Permit(m)

DelegateStep ==
    \E m \in Delegations : Accept(m) /\ UNCHANGED <<allowances, granted, spent>>

\* Every step is one of these or leaves the state of this module alone.
LEMMA SignedSteps ==
    ASSUME SignedTypeOK, [NextSigned]_allVars
    PROVE  AllowanceStep \/ SpendStep \/ PermitStep \/ DelegateStep \/ UNCHANGED signedVars
<1> USE SignedAssumption, GovernanceAssumption
<1>1. CASE UNCHANGED allVars
  BY <1>1 DEF allVars
<1>2. CASE Next /\ UNCHANGED signedVars
  BY <1>2
<1>3. ASSUME NEW owner \in Users, NEW spender \in Spenders, NEW amount \in Amounts \cup {0},
             Approve(owner, spender, amount)
      PROVE  AllowanceStep
  <2>1. amount \in Nat /\ allowances[owner][spender] \in Nat
    BY DEF SignedTypeOK
  <2>2. amount <= allowances[owner][spender] + amount
    BY <2>1
  <2> QED BY <1>3, <2>1, <2>2 DEF AllowanceStep, Approve
<1>4. ASSUME NEW owner \in Users, NEW spender \in Spenders, NEW amount \in Amounts,
             IncreaseAllowance(owner, spender, amount)
      PROVE  AllowanceStep
  <2>1. amount \in Nat /\ allowances[owner][spender] \in Nat
    BY DEF SignedTypeOK
  <2>2. /\ allowances[owner][spender] + amount \in Nat
        /\ allowances[owner][spender] + amount <= allowances[owner][spender] + amount
    BY <2>1
  <2> QED BY <1>4, <2>1, <2>2 DEF AllowanceStep, IncreaseAllowance
<1>5. ASSUME NEW owner \in Users, NEW spender \in Spenders, NEW amount \in Amounts,
             DecreaseAllowance(owner, spender, amount)
      PROVE  AllowanceStep
  <2>1. amount \in Nat /\ allowances[owner][spender] \in Nat
    BY DEF SignedTypeOK
  <2>2. /\ allowances[owner][spender] - amount \in Nat
        /\ allowances[owner][spender] - amount <= allowances[owner][spender] + 0
    BY <1>5, <2>1 DEF DecreaseAllowance
  <2> QED BY <1>5, <2>2 DEF AllowanceStep, DecreaseAllowance
<1>6. ASSUME NEW spender \in Spenders, NEW from \in Users, NEW to \in Users,
             NEW amount \in Amounts, TransferFrom(spender, from, to, amount)
      PROVE  SpendStep
  <2>1. amount \in Nat
    OBVIOUS
  <2> QED BY <1>6, <2>1 DEF SpendStep, TransferFrom
<1>7. ASSUME NEW m \in Permits, Permit(m) PROVE PermitStep
  BY <1>7 DEF PermitStep
<1>8. ASSUME NEW m \in Delegations, DelegateBySig(m) PROVE DelegateStep
  BY <1>8 DEF DelegateStep, DelegateBySig
<1> QED BY <1>1, <1>2, <1>3, <1>4, <1>5, <1>6, <1>7, <1>8 DEF NextSigned

----------------------------------------------------------------------------
(* Messages. *)

\* The inductive invariant: types and the order of messages.
MessagesInv == SignedTypeOK /\ InOrderOfNonces

LEMMA MessageTypes ==
    /\ \A m \in Permits : m.owner \in Users /\ m.spender \in Spenders /\ m.value \in Nat
    /\ \A m \in Delegations : m.owner \in Users
  BY SignedAssumption

LEMMA InitMessagesInv == ASSUME InitSigned PROVE MessagesInv
  BY DEF InitSigned, MessagesInv, SignedTypeOK, InOrderOfNonces

\* A message that is accepted carries the next nonce of its owner.
LEMMA AcceptKeepsOrder ==
    ASSUME MessagesInv, NEW m \in Permits \cup Delegations, Accept(m)
    PROVE  /\ nonces' \in [Users -> Nat]
           /\ executed' \in [Users -> Seq(Permits \cup Delegations)]
           /\ InOrderOfNonces'
<1>1. m.owner \in Users
  BY MessageTypes
<1>2. /\ nonces \in [Users -> Nat]
      /\ executed \in [Users -> Seq(Permits \cup Delegations)]
  BY DEF MessagesInv, SignedTypeOK
<1>3. nonces' = [nonces EXCEPT ![m.owner] = @ + 1] /\ nonces' \in [Users -> Nat]
  BY <1>1, <1>2 DEF Accept
<1>4. executed[m.owner] \in Seq(Permits \cup Delegations)
  BY <1>1, <1>2
<1>5. Append(executed[m.owner], m) \in Seq(Permits \cup Delegations)
  BY <1>4
<1>6. /\ executed' = [executed EXCEPT ![m.owner] = Append(executed[m.owner], m)]
      /\ executed' \in [Users -> Seq(Permits \cup Delegations)]
  BY <1>1, <1>2, <1>5 DEF Accept
<1>7. ASSUME NEW u \in Users
      PROVE  /\ Len(executed'[u]) = nonces'[u]
             /\ \A i \in DOMAIN executed'[u] : executed'[u][i].nonce = i - 1
  <2>1. /\ Len(executed[u]) = nonces[u]
        /\ \A i \in DOMAIN executed[u] : executed[u][i].nonce = i - 1
    BY DEF MessagesInv, InOrderOfNonces
  <2>2. CASE u # m.owner
    BY <2>1, <2>2, <1>2, <1>3, <1>6
  <2>3. CASE u = m.owner
    <3>1. executed'[u] = Append(executed[u], m) /\ nonces'[u] = nonces[u] + 1
      BY <2>3, <1>1, <1>2, <1>3, <1>6
    <3>2. m.nonce = nonces[u]
      BY <2>3 DEF Accept
    <3>3. executed[u] \in Seq(Permits \cup Delegations) /\ nonces[u] \in Nat
      BY <1>2
    <3>4. Len(executed'[u]) = nonces'[u]
      BY <3>1, <3>3, <2>1
    <3>5. ASSUME NEW i \in DOMAIN executed'[u] PROVE executed'[u][i].nonce = i - 1
      <4>1. i \in 1..(Len(executed[u]) + 1)
        BY <3>1, <3>3
      <4>2. CASE i = Len(executed[u]) + 1
        <5>1. executed'[u][i] = m
          BY <4>2, <3>1, <3>3
        <5> QED BY <5>1, <4>2, <3>2, <3>3, <2>1
      <4>3. CASE i \in 1..Len(executed[u])
        <5>1. executed'[u][i] = executed[u][i] /\ i \in DOMAIN executed[u]
          BY <4>3, <3>1, <3>3
        <5> QED BY <5>1, <2>1
      <4> QED BY <4>1, <4>2, <4>3, <3>3
    <3> QED BY <3>4, <3>5
  <2> QED BY <2>2, <2>3
<1> QED BY <1>3, <1>6, <1>7 DEF InOrderOfNonces

LEMMA NextMessagesInv ==
    ASSUME MessagesInv, [NextSigned]_allVars
    PROVE  MessagesInv'
<1>1. SignedTypeOK /\ InOrderOfNonces
  BY DEF MessagesInv
<1>2. CASE UNCHANGED signedVars
  BY <1>1, <1>2 DEF MessagesInv, SignedTypeOK, InOrderOfNonces, signedVars, historyVars
<1>3. CASE AllowanceStep
  <2>1. PICK owner \in Users, spender \in Spenders, amount \in Nat, grant \in Nat :
            SetAllowance(owner, spender, amount, grant)
    BY <1>3 DEF AllowanceStep
  <2>2. UNCHANGED <<nonces, executed, spent>>
    BY <2>1 DEF SetAllowance
  <2>3. allowances' \in [Users -> [Spenders -> Nat]] /\ granted' \in [Users -> [Spenders -> Nat]]
    BY <1>1, <2>1 DEF SetAllowance, SignedTypeOK
  <2> QED BY <1>1, <2>2, <2>3 DEF MessagesInv, SignedTypeOK, InOrderOfNonces
<1>4. CASE SpendStep
  <2>1. PICK owner \in Users, spender \in Spenders, amount \in Nat :
            /\ allowances[owner][spender] >= amount
            /\ allowances' = [allowances EXCEPT ![owner][spender] = @ - amount]
            /\ spent' = [spent EXCEPT ![owner][spender] = @ + amount]
            /\ UNCHANGED <<nonces, executed, granted>>
    BY <1>4 DEF SpendStep
  <2>2. allowances' \in [Users -> [Spenders -> Nat]] /\ spent' \in [Users -> [Spenders -> Nat]]
    BY <1>1, <2>1 DEF SignedTypeOK
  <2> QED BY <1>1, <2>1, <2>2 DEF MessagesInv, SignedTypeOK, InOrderOfNonces
<1>5. CASE PermitStep
  <2>1. PICK m \in Permits : Permit(m)
    BY <1>5 DEF PermitStep
  <2>2. /\ nonces' \in [Users -> Nat]
        /\ executed' \in [Users -> Seq(Permits \cup Delegations)]
        /\ InOrderOfNonces'
    BY <2>1, AcceptKeepsOrder DEF Permit
  <2>3. UNCHANGED <<granted, spent>> /\ allowances' \in [Users -> [Spenders -> Nat]]
    BY <1>1, <2>1, MessageTypes DEF Permit, SignedTypeOK
  <2> QED BY <1>1, <2>2, <2>3 DEF MessagesInv, SignedTypeOK
<1>6. CASE DelegateStep
  <2>1. PICK m \in Delegations : Accept(m) /\ UNCHANGED <<allowances, granted, spent>>
    BY <1>6 DEF DelegateStep
  <2>2. /\ nonces' \in [Users -> Nat]
        /\ executed' \in [Users -> Seq(Permits \cup Delegations)]
        /\ InOrderOfNonces'
    BY <2>1, AcceptKeepsOrder
  <2> QED BY <1>1, <2>1, <2>2 DEF MessagesInv, SignedTypeOK
<1> QED BY <1>1, <1>2, <1>3, <1>4, <1>5, <1>6, SignedSteps

LEMMA MessagesInvariant == SpecSigned => []MessagesInv
<1>1. InitSigned => MessagesInv
  BY InitMessagesInv
<1>2. MessagesInv /\ [NextSigned]_allVars => MessagesInv'
  BY NextMessagesInv
<1> QED BY <1>1, <1>2, PTL DEF SpecSigned

\* No subtraction of an allowance goes below zero, and only messages that
\* somebody signed ever take effect.
THEOREM SignedTypeCorrect == SpecSigned => []SignedTypeOK
<1>1. MessagesInv => SignedTypeOK
  BY DEF MessagesInv
<1> QED BY <1>1, MessagesInvariant, PTL

\* Of permits and delegations by signature, which share one nonce, each takes
\* effect at most once and in the order of the nonces, whoever submits them,
\* in whatever order and how often.
THEOREM MessagesOnceInOrder == SpecSigned => []InOrderOfNonces
<1>1. MessagesInv => InOrderOfNonces
  BY DEF MessagesInv
<1> QED BY <1>1, MessagesInvariant, PTL

----------------------------------------------------------------------------
(* Allowances. *)

PermitsInv == MessagesInv /\ SpentWithinGrants

\* The value of each permit towards one spender's allowance.
Counted(owner, spender) ==
    [m \in Permits |->
        IF m \in Range(executed[owner]) /\ m.spender = spender THEN m.value ELSE 0]

LEMMA CountedType ==
    ASSUME NEW owner \in Users, NEW spender \in Spenders
    PROVE  /\ Counted(owner, spender) \in [Permits -> Int]
           /\ Counted(owner, spender)' \in [Permits -> Int]
           /\ PermittedValue(owner, spender) = SumFunction(Counted(owner, spender))
           /\ PermittedValue(owner, spender)' = SumFunction(Counted(owner, spender)')
           /\ PermittedValue(owner, spender) \in Int
           /\ PermittedValue(owner, spender)' \in Int
<1>1. /\ Counted(owner, spender) \in [Permits -> Int]
      /\ Counted(owner, spender)' \in [Permits -> Int]
  BY MessageTypes DEF Counted
<1>2. /\ PermittedValue(owner, spender) = SumFunction(Counted(owner, spender))
      /\ PermittedValue(owner, spender)' = SumFunction(Counted(owner, spender)')
  BY DEF PermittedValue, Counted
<1>3. IsFiniteSet(Permits)
  BY SignedAssumption
<1> QED BY <1>1, <1>2, <1>3, SumIsInt

\* What is executed stays executed.
LEMMA ExecutedGrows ==
    ASSUME MessagesInv, NEW m \in Permits \cup Delegations, Accept(m), NEW u \in Users
    PROVE  /\ Range(executed[u]) \subseteq Range(executed'[u])
           /\ u = m.owner => Range(executed'[u]) = Range(executed[u]) \cup {m}
           /\ u # m.owner => Range(executed'[u]) = Range(executed[u])
<1>1. executed \in [Users -> Seq(Permits \cup Delegations)]
  BY DEF MessagesInv, SignedTypeOK
<1>2. executed' = [executed EXCEPT ![m.owner] = Append(executed[m.owner], m)]
  BY DEF Accept
<1>3. CASE u # m.owner
  BY <1>1, <1>2, <1>3
<1>4. CASE u = m.owner
  <2> DEFINE s == executed[u]
             n == Len(s)
  <2>1. s \in Seq(Permits \cup Delegations) /\ n \in Nat /\ DOMAIN s = 1..n
    BY <1>1
  <2>2. executed'[u] = Append(s, m)
    BY <1>1, <1>2, <1>4
  <2>3. /\ DOMAIN Append(s, m) = 1..(n + 1)
        /\ \A i \in 1..n : Append(s, m)[i] = s[i]
        /\ Append(s, m)[n + 1] = m
    BY <2>1
  <2>4. 1..(n + 1) = 1..n \cup {n + 1}
    BY <2>1
  <2>5. Range(Append(s, m)) = Range(s) \cup {m}
    BY <2>1, <2>3, <2>4, Zenon DEF Range
  <2> QED BY <2>2, <2>5, <1>4
<1> QED BY <1>3, <1>4

\* A message that is accepted was not executed before: its nonce is past those
\* of all that were.
LEMMA AcceptedIsNew ==
    ASSUME MessagesInv, NEW m \in Permits \cup Delegations, Accept(m)
    PROVE  m \notin Range(executed[m.owner])
<1>1. SUFFICES ASSUME NEW i \in DOMAIN executed[m.owner], executed[m.owner][i] = m PROVE FALSE
  BY Zenon DEF Range
<1>2. m.owner \in Users
  BY MessageTypes
<1>3. /\ Len(executed[m.owner]) = nonces[m.owner]
      /\ executed[m.owner][i].nonce = i - 1
      /\ executed[m.owner] \in Seq(Permits \cup Delegations)
  BY <1>2 DEF MessagesInv, InOrderOfNonces, SignedTypeOK
<1>4. i \in 1..Len(executed[m.owner]) /\ Len(executed[m.owner]) \in Nat
  BY <1>3
<1>5. m.nonce = nonces[m.owner]
  BY DEF Accept
<1> QED BY <1>1, <1>3, <1>4, <1>5

\* What permits allow a spender never shrinks, and grows by the value of a
\* permit when it takes effect.
LEMMA PermittedGrows ==
    ASSUME MessagesInv, NEW m \in Permits \cup Delegations, Accept(m),
           NEW owner \in Users, NEW spender \in Spenders
    PROVE  /\ PermittedValue(owner, spender) <= PermittedValue(owner, spender)'
           /\ m \in Permits /\ m.owner = owner /\ m.spender = spender =>
                PermittedValue(owner, spender)' = PermittedValue(owner, spender) + m.value
<1> DEFINE f == Counted(owner, spender)
           g == Counted(owner, spender)'
<1>1. f \in [Permits -> Int] /\ g \in [Permits -> Int]
  BY CountedType
<1>2. /\ \A p \in Permits : f[p] =
             IF p \in Range(executed[owner]) /\ p.spender = spender THEN p.value ELSE 0
      /\ \A p \in Permits : g[p] =
             IF p \in Range(executed'[owner]) /\ p.spender = spender THEN p.value ELSE 0
  BY DEF Counted
<1>3. IsFiniteSet(Permits)
  BY SignedAssumption
<1>4. \A p \in Permits : f[p] <= g[p]
  <2>1. Range(executed[owner]) \subseteq Range(executed'[owner])
    BY ExecutedGrows
  <2>2. TAKE p \in Permits
  <2>3. p.value \in Nat
    BY MessageTypes
  <2> HIDE DEF f, g
  <2>4. CASE f[p] = 0
    <3>1. g[p] \in {0, p.value}
      BY <1>2
    <3> QED BY <3>1, <2>3, <2>4
  <2>5. CASE p \in Range(executed[owner]) /\ p.spender = spender
    <3>1. f[p] = p.value /\ g[p] = p.value
      BY <1>2, <2>1, <2>5
    <3> QED BY <3>1, <2>3
  <2> QED BY <2>4, <2>5, <1>2
<1>5. PermittedValue(owner, spender) <= PermittedValue(owner, spender)'
  <2>1. SumFunction(f) <= SumFunction(g)
    BY <1>1, <1>3, <1>4, SumOrder
  <2> QED BY <2>1, CountedType
<1>6. ASSUME m \in Permits, m.owner = owner, m.spender = spender
      PROVE  PermittedValue(owner, spender)' = PermittedValue(owner, spender) + m.value
  <2>1. Range(executed'[owner]) = Range(executed[owner]) \cup {m}
    BY <1>6, ExecutedGrows
  <2>2. m \notin Range(executed[owner])
    BY <1>6, AcceptedIsNew
  <2> HIDE DEF f, g
  <2>3. \A p \in Permits \ {m} : g[p] = f[p]
    BY <1>2, <2>1
  <2>4. f[m] = 0 /\ g[m] = m.value
    BY <1>2, <1>6, <2>1, <2>2
  <2>5. SumFunction(g) = SumFunction(f) + g[m] - f[m]
    BY <1>1, <1>3, <1>6, <2>3, SumUpdate
  <2>6. m.value \in Int /\ PermittedValue(owner, spender) \in Int
    BY <1>6, MessageTypes, CountedType
  <2>7. PermittedValue(owner, spender) = SumFunction(f) /\ PermittedValue(owner, spender)' = SumFunction(g)
    BY CountedType DEF f, g
  <2> QED BY <2>4, <2>5, <2>6, <2>7
<1> QED BY <1>5, <1>6

LEMMA InitPermitsInv == ASSUME InitSigned PROVE PermitsInv
<1>1. MessagesInv
  BY InitMessagesInv
<1>2. ASSUME NEW owner \in Users, NEW spender \in Spenders
      PROVE  allowances[owner][spender] + spent[owner][spender]
                 <= granted[owner][spender] + PermittedValue(owner, spender)
  <2>1. Range(executed[owner]) = {}
    BY DEF InitSigned, Range
  <2>2. \A m \in Permits : Counted(owner, spender)[m] = 0
    BY <2>1 DEF Counted
  <2>3. SumFunction(Counted(owner, spender)) = 0
    BY <2>2, CountedType, SumZero, SignedAssumption
  <2>4. PermittedValue(owner, spender) = 0
    BY <2>3, CountedType
  <2> QED BY <2>4 DEF InitSigned
<1> QED BY <1>1, <1>2 DEF PermitsInv, SpentWithinGrants

\* One owner and spender at a time: the left side grows by no more than the
\* right side does.
LEMMA NextPermitsInv ==
    ASSUME PermitsInv, [NextSigned]_allVars
    PROVE  PermitsInv'
<1>1. MessagesInv /\ MessagesInv' /\ SignedTypeOK /\ SignedTypeOK'
  BY NextMessagesInv DEF PermitsInv, MessagesInv
<1> SUFFICES ASSUME NEW o \in Users, NEW s \in Spenders
             PROVE  allowances'[o][s] + spent'[o][s]
                        <= granted'[o][s] + PermittedValue(o, s)'
  BY <1>1 DEF PermitsInv, SpentWithinGrants
<1>2. allowances[o][s] + spent[o][s] <= granted[o][s] + PermittedValue(o, s)
  BY DEF PermitsInv, SpentWithinGrants
<1>3. /\ allowances[o][s] \in Nat /\ spent[o][s] \in Nat /\ granted[o][s] \in Nat
      /\ allowances'[o][s] \in Nat /\ spent'[o][s] \in Nat /\ granted'[o][s] \in Nat
      /\ PermittedValue(o, s) \in Int /\ PermittedValue(o, s)' \in Int
  BY <1>1, CountedType DEF SignedTypeOK
<1>4. /\ allowances \in [Users -> [Spenders -> Nat]]
      /\ spent \in [Users -> [Spenders -> Nat]]
      /\ granted \in [Users -> [Spenders -> Nat]]
  BY <1>1 DEF SignedTypeOK
<1>5. executed' = executed => PermittedValue(o, s)' = PermittedValue(o, s)
  BY DEF PermittedValue
<1>6. CASE UNCHANGED signedVars
  BY <1>2, <1>5, <1>6 DEF signedVars, historyVars
<1>7. CASE AllowanceStep
  <2>1. PICK owner \in Users, spender \in Spenders, amount \in Nat, grant \in Nat :
            /\ amount <= allowances[owner][spender] + grant
            /\ SetAllowance(owner, spender, amount, grant)
    BY <1>7 DEF AllowanceStep
  <2>2. /\ executed' = executed /\ spent' = spent
        /\ allowances' = [allowances EXCEPT ![owner][spender] = amount]
        /\ granted' = [granted EXCEPT ![owner][spender] = @ + grant]
    BY <2>1 DEF SetAllowance
  <2>3. CASE o = owner /\ s = spender
    <3>1. allowances'[o][s] = amount /\ granted'[o][s] = granted[o][s] + grant
      BY <2>2, <2>3, <1>4
    <3> QED BY <3>1, <2>1, <2>2, <2>3, <1>2, <1>3, <1>5
  <2>4. CASE ~(o = owner /\ s = spender)
    <3>1. allowances'[o][s] = allowances[o][s] /\ granted'[o][s] = granted[o][s]
      BY <2>2, <2>4, <1>4
    <3> QED BY <3>1, <2>2, <1>2, <1>5
  <2> QED BY <2>3, <2>4
<1>8. CASE SpendStep
  <2>1. PICK owner \in Users, spender \in Spenders, amount \in Nat :
            /\ allowances[owner][spender] >= amount
            /\ allowances' = [allowances EXCEPT ![owner][spender] = @ - amount]
            /\ spent' = [spent EXCEPT ![owner][spender] = @ + amount]
            /\ UNCHANGED <<nonces, executed, granted>>
    BY <1>8 DEF SpendStep
  <2>2. CASE o = owner /\ s = spender
    <3>1. allowances'[o][s] = allowances[o][s] - amount /\ spent'[o][s] = spent[o][s] + amount
      BY <2>1, <2>2, <1>4
    <3> QED BY <3>1, <2>1, <1>2, <1>3, <1>5
  <2>3. CASE ~(o = owner /\ s = spender)
    <3>1. allowances'[o][s] = allowances[o][s] /\ spent'[o][s] = spent[o][s]
      BY <2>1, <2>3, <1>4
    <3> QED BY <3>1, <2>1, <1>2, <1>5
  <2> QED BY <2>2, <2>3
<1>9. CASE PermitStep
  <2>1. PICK m \in Permits : Permit(m)
    BY <1>9 DEF PermitStep
  <2>2. /\ Accept(m) /\ UNCHANGED <<granted, spent>>
        /\ allowances' = [allowances EXCEPT ![m.owner][m.spender] = m.value]
    BY <2>1 DEF Permit
  <2>3. PermittedValue(o, s) <= PermittedValue(o, s)'
    BY <1>1, <2>2, PermittedGrows
  <2>4. CASE o = m.owner /\ s = m.spender
    <3>1. allowances'[o][s] = m.value /\ m.value \in Nat
      BY <2>2, <2>4, <1>4, MessageTypes
    <3>2. PermittedValue(o, s)' = PermittedValue(o, s) + m.value
      BY <1>1, <2>2, <2>4, PermittedGrows
    <3>3. spent'[o][s] = spent[o][s] /\ granted'[o][s] = granted[o][s]
      BY <2>2
    <3> QED BY <3>1, <3>2, <3>3, <1>2, <1>3
  <2>5. CASE ~(o = m.owner /\ s = m.spender)
    <3>1. allowances'[o][s] = allowances[o][s]
      BY <2>2, <2>5, <1>4
    <3>2. spent'[o][s] = spent[o][s] /\ granted'[o][s] = granted[o][s]
      BY <2>2
    <3> QED BY <3>1, <3>2, <2>3, <1>2, <1>3
  <2> QED BY <2>4, <2>5
<1>10. CASE DelegateStep
  <2>1. PICK m \in Delegations : Accept(m) /\ UNCHANGED <<allowances, granted, spent>>
    BY <1>10 DEF DelegateStep
  <2>2. PermittedValue(o, s) <= PermittedValue(o, s)'
    BY <1>1, <2>1, PermittedGrows
  <2> QED BY <2>1, <2>2, <1>2, <1>3
<1> QED BY <1>1, <1>6, <1>7, <1>8, <1>9, <1>10, SignedSteps

\* Whatever the order of approvals, permits, delegations and transfers, no
\* spender takes more than the owner approved and signed for, each signature
\* counted once.
THEOREM AllowancesSpentOnce == SpecSigned => []SpentWithinGrants
<1>1. InitSigned => PermitsInv
  BY InitPermitsInv
<1>2. PermitsInv /\ [NextSigned]_allVars => PermitsInv'
  BY NextPermitsInv
<1>3. PermitsInv => SpentWithinGrants
  BY DEF PermitsInv
<1> QED BY <1>1, <1>2, <1>3, PTL DEF SpecSigned

----------------------------------------------------------------------------
(* The token underneath. *)

\* Below allowances and nonces every step is a transaction of the token, or a
\* delegation that somebody submitted for its owner.
LEMMA TokenSteps ==
    ASSUME [NextSigned]_allVars
    PROVE  \/ [Next]_vars
           \/ \E m \in Delegations : DelegateTypes(m.owner, m.delegatee, m.types)
<1>1. CASE UNCHANGED allVars
  BY <1>1 DEF allVars
<1>2. CASE Next /\ UNCHANGED signedVars
  BY <1>2
<1>3. ASSUME NEW owner \in Users, NEW spender \in Spenders, NEW amount \in Amounts \cup {0},
             Approve(owner, spender, amount)
      PROVE  UNCHANGED vars
  BY <1>3 DEF Approve, SetAllowance
<1>4. ASSUME NEW owner \in Users, NEW spender \in Spenders, NEW amount \in Amounts,
             IncreaseAllowance(owner, spender, amount) \/ DecreaseAllowance(owner, spender, amount)
      PROVE  UNCHANGED vars
  BY <1>4 DEF IncreaseAllowance, DecreaseAllowance, SetAllowance
<1>5. ASSUME NEW spender \in Spenders, NEW from \in Users, NEW to \in Users,
             NEW amount \in Amounts, TransferFrom(spender, from, to, amount)
      PROVE  Next
  BY <1>5 DEF TransferFrom, Next
<1>6. ASSUME NEW m \in Permits, Permit(m) PROVE UNCHANGED vars
  BY <1>6 DEF Permit
<1>7. ASSUME NEW m \in Delegations, DelegateBySig(m)
      PROVE  DelegateTypes(m.owner, m.delegatee, m.types)
  BY <1>7 DEF DelegateBySig
<1> QED BY <1>1, <1>2, <1>3, <1>4, <1>5, <1>6, <1>7 DEF NextSigned

LEMMA DelegationTypes ==
    \A m \in Delegations : m.owner \in Users /\ m.delegatee \in Users /\ m.types \in SUBSET Types
  BY SignedAssumption

LEMMA NextSignedGovernance ==
    ASSUME GovernanceInv, [NextSigned]_allVars
    PROVE  GovernanceInv'
<1>1. ASSUME NEW m \in Delegations, DelegateTypes(m.owner, m.delegatee, m.types)
      PROVE  GovernanceInv'
  BY <1>1, DelegationTypes, DelegateKeepsInv
<1> QED BY <1>1, TokenSteps, NextInv

LEMMA SignedGovernance == SpecSigned => []GovernanceInv
<1>1. InitSigned => GovernanceInv
  BY InitInv DEF InitSigned
<1>2. GovernanceInv /\ [NextSigned]_allVars => GovernanceInv'
  BY NextSignedGovernance
<1> QED BY <1>1, <1>2, PTL DEF SpecSigned

\* Delegations that anybody submits, late and for balances and delegatees that
\* have changed since, keep the promise of voting power like those an owner
\* sends, and so do the transfers of a spender.
THEOREM SignedPastIsKept == SnapshotsFromStart => (SpecSigned => SignedKeepsPromise)
<1> SUFFICES ASSUME SnapshotsFromStart PROVE SpecSigned => SignedKeepsPromise
  OBVIOUS
<1>1. InitSigned => HistoryInv /\ Promise!Init
  BY InitKeepsPromise DEF InitSigned
<1>2. ASSUME HistoryInv, [NextSigned]_allVars
      PROVE  HistoryInv' /\ [Promise!Next]_(Promise!vars)
  <2>1. ASSUME NEW m \in Delegations, DelegateTypes(m.owner, m.delegatee, m.types)
        PROVE  HistoryInv' /\ Promise!Next
    <3>1. m.owner \in Users /\ m.delegatee \in Users /\ m.types \in SUBSET Types
      BY DelegationTypes
    <3>2. HistoryInv' /\ Promise!ChooseDelegatee(m.owner, m.delegatee, m.types)
      BY <1>2, <2>1, <3>1, DelegationKeepsPromise
    <3> QED BY <3>1, <3>2 DEF Promise!Next
  <2> QED BY <1>2, <2>1, TokenSteps, NextKeepsPromise
<1> QED BY <1>1, <1>2, PTL DEF SpecSigned, SignedKeepsPromise, Promise!Spec

----------------------------------------------------------------------------
(* Messages stay good. *)

\* What a delegation asks of the power of the delegatee there is.
DelegationPasses(m) ==
    \A type \in m.types :
        CanMoveDelegates(type, GetDelegatee(type, m.owner), m.delegatee, balances[m.owner])

MessagesPass == \A m \in Delegations : DelegationPasses(m)

\* The nonce, the deadline and that condition are the whole guard: with them
\* the action is a choice of values for the next state.
LEMMA DelegationPassesIsGuard ==
    ASSUME NEW m
    PROVE  DelegateBySig(m) <=>
             /\ blockNumber <= m.deadline
             /\ m.nonce = nonces[m.owner]
             /\ DelegationPasses(m)
             /\ nonces' = [nonces EXCEPT ![m.owner] = @ + 1]
             /\ executed' = [executed EXCEPT ![m.owner] = Append(@, m)]
             /\ delegates' = [type \in Types |->
                    IF type \in m.types THEN [delegates[type] EXCEPT ![m.owner] = m.delegatee]
                                        ELSE delegates[type]]
             /\ snapshots' = [type \in Types |->
                    IF type \in m.types
                    THEN MoveDelegatesByType(type, GetDelegatee(type, m.owner), m.delegatee,
                                             balances[m.owner])
                    ELSE snapshots[type]]
             /\ UNCHANGED <<balances, blockNumber, allowances, granted, spent>>
  BY DEF DelegateBySig, Accept, DelegateTypes, DelegationPasses

LEMMA PermitHasNoOtherGuard ==
    ASSUME NEW m
    PROVE  Permit(m) <=>
             /\ blockNumber <= m.deadline
             /\ m.nonce = nonces[m.owner]
             /\ nonces' = [nonces EXCEPT ![m.owner] = @ + 1]
             /\ executed' = [executed EXCEPT ![m.owner] = Append(@, m)]
             /\ allowances' = [allowances EXCEPT ![m.owner][m.spender] = m.value]
             /\ UNCHANGED <<balances, delegates, snapshots, blockNumber, granted, spent>>
  BY DEF Permit, Accept, vars, powerVars

\* No change of balances, power or delegatees between the signature and the
\* submission makes a message revert: what remains of its guard is the nonce
\* and the deadline.
THEOREM MessagesCanTakeEffect == SpecSigned => []MessagesPass
<1>1. ASSUME GovernanceInv PROVE MessagesPass
  <2> SUFFICES ASSUME NEW m \in Delegations, NEW type \in m.types
               PROVE  CanMoveDelegates(type, GetDelegatee(type, m.owner), m.delegatee,
                                       balances[m.owner])
    BY DEF MessagesPass, DelegationPasses
  <2>1. m.owner \in Users /\ type \in Types
    BY DelegationTypes
  <2> QED BY <1>1, <2>1, PowerCoversBalance DEF CanMoveDelegates
<1> QED BY <1>1, SignedGovernance, PTL

----------------------------------------------------------------------------
(* VotingUpgrade.  Voting power is followed alone, through both revisions: of *)
(* it all holders have snapshots, which is not so of proposition power.       *)

VotingDelegates == [type \in {VOTING_POWER} |-> delegates[type]]
VotingSnapshots == [type \in {VOTING_POWER} |-> snapshots[type]]

Voting == INSTANCE GovernanceProofs WITH
    Types <- {VOTING_POWER}, delegates <- VotingDelegates, snapshots <- VotingSnapshots

LEMMA VotingAssumed == Voting!GovernanceAssumption
<1>1. IsFiniteSet(Users) <=> Voting!IsFiniteSet(Users)
  BY DEF IsFiniteSet, Voting!IsFiniteSet
<1> QED BY <1>1, GovernanceAssumption
        DEF Voting!GovernanceAssumption, Voting!DelegationType, Voting!VOTING_POWER,
            Voting!PROPOSITION_POWER, VOTING_POWER

----------------------------------------------------------------------------
(* Of voting power the two say the same. *)

LEMMA SameTotal == ASSUME NEW f PROVE Voting!SumFunction(f) = SumFunction(f)
  BY DEF SumFunction, SumFunctionOnSet, FoldFunctionOnSet, MapThenFoldSet,
         Voting!SumFunction, Voting!SumFunctionOnSet, Voting!FoldFunctionOnSet,
         Voting!MapThenFoldSet

LEMMA SameSlots ==
    VotingSnapshots[VOTING_POWER] = snapshots[VOTING_POWER]
    /\ VotingDelegates[VOTING_POWER] = delegates[VOTING_POWER]
  BY DEF VotingSnapshots, VotingDelegates

LEMMA SameReading ==
    ASSUME NEW u
    PROVE  /\ Voting!GetDelegatee(VOTING_POWER, u) = GetDelegatee(VOTING_POWER, u)
           /\ Voting!PreviousPower(VOTING_POWER, u) = PreviousPower(VOTING_POWER, u)
           /\ \A b : Voting!GetPowerAtBlock(u, b, VOTING_POWER) = GetPowerAtBlock(u, b, VOTING_POWER)
<1>1. ASSUME NEW log, NEW b PROVE Voting!BinarySearch(log, b) = BinarySearch(log, b)
  BY DEF Voting!BinarySearch, BinarySearch
<1> QED BY <1>1, SameSlots
        DEF Voting!GetDelegatee, GetDelegatee, Voting!PreviousPower, PreviousPower,
            Voting!GetPowerAtBlock, GetPowerAtBlock, Voting!SearchByBlockNumber, SearchByBlockNumber,
            Voting!Latest, Latest

LEMMA SameMove ==
    ASSUME NEW from, NEW to, NEW amount
    PROVE  /\ Voting!CanMoveDelegates(VOTING_POWER, from, to, amount) <=>
                CanMoveDelegates(VOTING_POWER, from, to, amount)
           /\ Voting!MoveDelegatesByType(VOTING_POWER, from, to, amount) =
                MoveDelegatesByType(VOTING_POWER, from, to, amount)
  BY SameReading, SameSlots
     DEF Voting!CanMoveDelegates, CanMoveDelegates, Voting!MoveDelegatesByType, MoveDelegatesByType,
         Voting!WriteSnapshot, WriteSnapshot, Voting!Latest, Latest

LEMMA HookOfVoting ==
    ASSUME NEW from, NEW to, NEW amount, BeforeTokenTransfer(from, to, amount)
    PROVE  Voting!BeforeTokenTransfer(from, to, amount)
<1>1. VotingSnapshots' = [type \in {VOTING_POWER} |->
           MoveDelegatesByType(type, GetDelegatee(type, from), GetDelegatee(type, to), amount)]
  BY VotingUpgradeAssumption DEF BeforeTokenTransfer, VotingSnapshots
<1>2. VotingDelegates' = VotingDelegates
  BY DEF BeforeTokenTransfer, VotingDelegates
<1>3. CanMoveDelegates(VOTING_POWER, GetDelegatee(VOTING_POWER, from),
                       GetDelegatee(VOTING_POWER, to), amount)
  BY VotingUpgradeAssumption DEF BeforeTokenTransfer
<1> QED BY <1>1, <1>2, <1>3, SameMove, SameReading DEF Voting!BeforeTokenTransfer

LEMMA DelegationOfVoting ==
    ASSUME NEW u, NEW v, NEW types \in SUBSET Types, DelegateTypes(u, v, types)
    PROVE  Voting!DelegateTypes(u, v, types \cap {VOTING_POWER})
<1>1. VotingSnapshots' = [type \in {VOTING_POWER} |->
           IF type \in types
           THEN MoveDelegatesByType(type, GetDelegatee(type, u), v, balances[u])
           ELSE snapshots[type]]
  BY VotingUpgradeAssumption DEF DelegateTypes, VotingSnapshots
<1>2. VotingDelegates' = [type \in {VOTING_POWER} |->
           IF type \in types THEN [delegates[type] EXCEPT ![u] = v] ELSE delegates[type]]
  BY VotingUpgradeAssumption DEF DelegateTypes, VotingDelegates
<1>3. VOTING_POWER \in types =>
        CanMoveDelegates(VOTING_POWER, GetDelegatee(VOTING_POWER, u), v, balances[u])
  BY DEF DelegateTypes
<1>4. UNCHANGED <<balances, blockNumber>>
  BY DEF DelegateTypes
<1> QED BY <1>1, <1>2, <1>3, <1>4, SameMove, SameReading, SameSlots DEF Voting!DelegateTypes

----------------------------------------------------------------------------
(* The promise is the same. *)

DelegateeMap == [type \in {VOTING_POWER} |-> [u \in Users |-> GetDelegatee(type, u)]]

PastMap ==
    [b \in 1..(blockNumber - 1) |-> [type \in {VOTING_POWER} |->
        [u \in Users |-> GetPowerAtBlock(u, b, type)]]]

LEMMA SameMaps ==
    /\ [type \in {VOTING_POWER} |-> [u \in Users |-> Voting!GetDelegatee(type, u)]] = DelegateeMap
    /\ Voting!PastPower = PastMap
<1>1. \A u \in Users : Voting!GetDelegatee(VOTING_POWER, u) = GetDelegatee(VOTING_POWER, u)
  BY SameReading
<1>2. \A u \in Users, b \in 1..(blockNumber - 1) :
        Voting!GetPowerAtBlock(u, b, VOTING_POWER) = GetPowerAtBlock(u, b, VOTING_POWER)
  BY SameReading
<1> QED BY <1>1, <1>2 DEF DelegateeMap, PastMap, Voting!PastPower

LEMMA SamePromisedPower == VotingPromise!AllPower = Voting!Promise!AllPower
<1>1. ASSUME NEW f PROVE VotingPromise!SumFunction(f) = Voting!Promise!SumFunction(f)
  BY DEF VotingPromise!SumFunction, VotingPromise!SumFunctionOnSet,
         VotingPromise!FoldFunctionOnSet, VotingPromise!MapThenFoldSet,
         Voting!Promise!SumFunction, Voting!Promise!SumFunctionOnSet,
         Voting!Promise!FoldFunctionOnSet, Voting!Promise!MapThenFoldSet
<1> QED BY <1>1, SameMaps
        DEF DelegateeMap, VotingPromise!AllPower, VotingPromise!Power,
            Voting!Promise!AllPower, Voting!Promise!Power

LEMMA SameVotingPromise ==
    /\ VotingPromise!Init <=> Voting!Promise!Init
    /\ VotingPromise!Next <=> Voting!Promise!Next
    /\ (UNCHANGED VotingPromise!vars) <=> (UNCHANGED Voting!Promise!vars)
<1> DEFINE map == [type \in {VOTING_POWER} |-> [u \in Users |-> GetDelegatee(type, u)]]
           past == [b \in 1..(blockNumber - 1) |-> [type \in {VOTING_POWER} |->
                       [u \in Users |-> GetPowerAtBlock(u, b, type)]]]
           votingMap == [type \in {VOTING_POWER} |-> [u \in Users |-> Voting!GetDelegatee(type, u)]]
<1>1. map = votingMap /\ past = Voting!PastPower
  BY SameMaps DEF DelegateeMap, PastMap
<1>2. (map = votingMap)' /\ (past = Voting!PastPower)'
  BY <1>1, SameMaps, PTL DEF DelegateeMap, PastMap
<1>3. VotingPromise!Init <=> Voting!Promise!Init
  BY <1>1, SamePromisedPower DEF VotingPromise!Init, Voting!Promise!Init
<1>4. VotingPromise!ChangeBalances <=> Voting!Promise!ChangeBalances
  BY <1>1, <1>2 DEF VotingPromise!ChangeBalances, Voting!Promise!ChangeBalances
<1>5. ASSUME NEW u, NEW y, NEW types
      PROVE  VotingPromise!ChooseDelegatee(u, y, types) <=> Voting!Promise!ChooseDelegatee(u, y, types)
  BY <1>1, <1>2 DEF VotingPromise!ChooseDelegatee, Voting!Promise!ChooseDelegatee
<1>6. VotingPromise!EndBlock <=> Voting!Promise!EndBlock
  BY <1>1, <1>2, SamePromisedPower DEF VotingPromise!EndBlock, Voting!Promise!EndBlock
<1>7. VotingPromise!Next <=> Voting!Promise!Next
  BY <1>4, <1>5, <1>6 DEF VotingPromise!Next, Voting!Promise!Next
<1>8. (UNCHANGED VotingPromise!vars) <=> (UNCHANGED Voting!Promise!vars)
  BY <1>1, <1>2 DEF VotingPromise!vars, Voting!Promise!vars
<1> QED BY <1>3, <1>7, <1>8

----------------------------------------------------------------------------
(* The first StakedToken.  Nobody has a delegatee yet, and a log of balances *)
(* is a log of voting power.                                                 *)

FirstRevision ==
    /\ delegates = [type \in Types |-> [u \in Users |-> ZERO]]
    /\ snapshots = [type \in Types |->
           IF type = VOTING_POWER THEN snapshots[type] ELSE [u \in Users |-> <<>>]]

LEMMA OwnDelegatees ==
    ASSUME FirstRevision
    PROVE  /\ \A type \in Types, u \in Users : GetDelegatee(type, u) = u
           /\ Voting!GetDelegatee(VOTING_POWER, ZERO) = ZERO
           /\ \A u \in Users : Voting!GetDelegatee(VOTING_POWER, u) = u
<1>1. \A type \in Types, u \in Users : GetDelegatee(type, u) = u
  BY GovernanceAssumption DEF FirstRevision, GetDelegatee
<1> QED BY <1>1, SameReading, VotingUpgradeAssumption DEF Voting!GetDelegatee

LEMMA BalanceIsVotingPower ==
    ASSUME FirstRevision, Voting!GovernanceInv, NEW u \in Users
    PROVE  PreviousPower(VOTING_POWER, u) = balances[u]
<1>1. /\ Voting!TypeOK /\ Voting!PowerOf(VOTING_POWER, u)
  BY DEF Voting!GovernanceInv, Voting!PowerInv
<1>2. Voting!OwnOnly(VOTING_POWER, u)
  BY OwnDelegatees DEF Voting!OwnOnly
<1>3. Voting!PreviousPower(VOTING_POWER, u) = balances[u]
  BY <1>1, <1>2, VotingAssumed, Voting!PreviousPowerIsPower, Voting!OwnPower
<1> QED BY <1>3, SameReading

LEMMA FirstHookOfVoting ==
    ASSUME FirstRevision, Voting!GovernanceInv,
           NEW from \in Account, NEW to \in Account, NEW amount,
           BeforeTokenTransferV1(from, to, amount)
    PROVE  Voting!BeforeTokenTransfer(from, to, amount) /\ FirstRevision'
<1>1. FirstRevision'
  BY DEF BeforeTokenTransferV1, FirstRevision
<1>2. VotingDelegates' = VotingDelegates
  BY DEF BeforeTokenTransferV1, VotingDelegates
<1>3. snapshots'[VOTING_POWER] = [u \in Users |->
          CASE from # to /\ u = from -> WriteSnapshot(snapshots[VOTING_POWER][u], balances[u] - amount)
            [] from # to /\ u = to   -> WriteSnapshot(snapshots[VOTING_POWER][u], balances[u] + amount)
            [] OTHER                 -> snapshots[VOTING_POWER][u]]
  <2>1. VOTING_POWER \in DOMAIN snapshots
    BY VotingUpgradeAssumption DEF FirstRevision
  <2> QED BY <2>1, GovernanceAssumption
          DEF BeforeTokenTransferV1, TouchedByTransfer, WriteBalanceSnapshot
<1>4. snapshots'[VOTING_POWER] = MoveDelegatesByType(VOTING_POWER, from, to, amount)
  BY <1>3, BalanceIsVotingPower DEF MoveDelegatesByType
<1>5. CanMoveDelegates(VOTING_POWER, from, to, amount)
  BY BalanceIsVotingPower
     DEF CanMoveDelegates, BeforeTokenTransferV1, TouchedByTransfer, Account
<1>6. VotingSnapshots' = [type \in {VOTING_POWER} |->
          Voting!MoveDelegatesByType(type, Voting!GetDelegatee(type, from),
                                     Voting!GetDelegatee(type, to), amount)]
  BY <1>4, SameMove, OwnDelegatees DEF VotingSnapshots, Account
<1>7. Voting!CanMoveDelegates(VOTING_POWER, Voting!GetDelegatee(VOTING_POWER, from),
                              Voting!GetDelegatee(VOTING_POWER, to), amount)
  BY <1>5, SameMove, OwnDelegatees DEF Account
<1> QED BY <1>1, <1>2, <1>6, <1>7 DEF Voting!BeforeTokenTransfer

\* Of the other kind of power nothing is written before the upgrade, so that
\* what holds of voting power holds of both when it comes.
LEMMA FirstRevisionInv ==
    FirstRevision /\ Voting!GovernanceInv => GovernanceInv
<1> SUFFICES ASSUME FirstRevision, Voting!GovernanceInv PROVE GovernanceInv
  OBVIOUS
<1>1. TypeOK
  BY SameSlots, VotingUpgradeAssumption
     DEF FirstRevision, Voting!GovernanceInv, Voting!TypeOK, Voting!Snapshot, TypeOK, Snapshot
<1>2. ASSUME NEW type \in Types, NEW u \in Users
      PROVE  LET log == snapshots[type][u] IN
             /\ \A i, j \in DOMAIN log : i < j => log[i].blockNumber < log[j].blockNumber
             /\ \A i \in DOMAIN log : log[i].blockNumber <= blockNumber
  <2>1. CASE type = VOTING_POWER
    BY <2>1, SameSlots DEF Voting!GovernanceInv, Voting!SnapshotsOrdered
  <2>2. CASE type # VOTING_POWER
    BY <2>2 DEF FirstRevision
  <2> QED BY <2>1, <2>2
<1>3. ASSUME NEW type \in Types, NEW u \in Users
      PROVE  PowerOf(type, u)
  <2>1. CASE snapshots[type][u] = <<>>
    BY <2>1, OwnDelegatees DEF PowerOf, OwnOnly
  <2>2. CASE snapshots[type][u] # <<>>
    <3>1. type = VOTING_POWER
      BY <2>2 DEF FirstRevision
    <3>2. Voting!DelegatedBalance(VOTING_POWER, u) = DelegatedBalance(VOTING_POWER, u)
      BY SameReading, SameTotal DEF Voting!DelegatedBalance, DelegatedBalance
    <3> QED BY <2>2, <3>1, <3>2, SameSlots
            DEF PowerOf, Latest, Voting!PowerOf, Voting!Latest, Voting!GovernanceInv, Voting!PowerInv
  <2> QED BY <2>1, <2>2
<1> QED BY <1>1, <1>2, <1>3 DEF GovernanceInv, SnapshotsOrdered, PowerInv

----------------------------------------------------------------------------
(* Across the upgrade. *)

VotingUpgradeInv ==
    /\ revision \in {1, 2}
    /\ revision = 1 => FirstRevision
    /\ GovernanceInv
    /\ Voting!HistoryInv

LEMMA InitUpgradeInv == InitUpgrade => VotingUpgradeInv /\ VotingPromise!Init
<1> SUFFICES ASSUME InitUpgrade PROVE VotingUpgradeInv /\ VotingPromise!Init
  OBVIOUS
<1>1. FirstRevision
  BY DEF InitUpgrade, Init, FirstRevision
<1>2. Voting!Init
  BY VotingUpgradeAssumption
     DEF InitUpgrade, Init, Voting!Init, VotingDelegates, VotingSnapshots, Voting!VOTING_POWER, VOTING_POWER
<1>3. Voting!SnapshotsFromStart
  BY VotingUpgradeAssumption, SameTotal
     DEF Voting!SnapshotsFromStart, Voting!VOTING_POWER, VOTING_POWER
<1>4. Voting!HistoryInv /\ Voting!Promise!Init
  BY <1>2, <1>3, VotingAssumed, Voting!InitKeepsPromise
<1>5. GovernanceInv
  BY InitInv DEF InitUpgrade
<1> QED BY <1>1, <1>4, <1>5, SameVotingPromise DEF VotingUpgradeInv, InitUpgrade

LEMMA FirstKeepsPromise ==
    ASSUME VotingUpgradeInv, NextV1
    PROVE  VotingUpgradeInv' /\ Voting!Promise!Next
<1>1. /\ revision = 1 /\ FirstRevision /\ Voting!HistoryInv /\ Voting!GovernanceInv
      /\ \A amount \in Amounts \cup {0} : amount \in Nat
  BY GovernanceAssumption DEF VotingUpgradeInv, NextV1, Voting!HistoryInv
<1>2. ASSUME NEW u \in Users, NEW amount \in Amounts, StakeV1(u, amount)
      PROVE  FirstRevision' /\ Voting!HistoryInv' /\ Voting!Promise!Next
  <2>1. Voting!BeforeTokenTransfer(ZERO, u, amount) /\ FirstRevision'
    BY <1>1, <1>2, FirstHookOfVoting DEF StakeV1, Account
  <2>2. /\ blockNumber' = blockNumber /\ balances' = [balances EXCEPT ![u] = @ + amount]
        /\ Voting!TotalSupply + amount <= MAX_SUPPLY
    BY <1>2, SameTotal DEF StakeV1, TotalSupply, Voting!TotalSupply
  <2>3. Voting!HistoryInv' /\ Voting!Promise!ChangeBalances
    BY <1>1, <2>1, <2>2, VotingAssumed, Voting!MintKeepsPromise
  <2> QED BY <2>1, <2>3 DEF Voting!Promise!Next
<1>3. ASSUME NEW u \in Users, NEW amount \in Amounts, RedeemV1(u, amount)
      PROVE  FirstRevision' /\ Voting!HistoryInv' /\ Voting!Promise!Next
  <2>1. Voting!BeforeTokenTransfer(u, ZERO, amount) /\ FirstRevision'
    BY <1>1, <1>3, FirstHookOfVoting DEF RedeemV1, Account
  <2>2. /\ blockNumber' = blockNumber /\ balances[u] >= amount
        /\ balances' = [balances EXCEPT ![u] = @ - amount]
    BY <1>3 DEF RedeemV1
  <2>3. Voting!HistoryInv' /\ Voting!Promise!ChangeBalances
    BY <1>1, <2>1, <2>2, VotingAssumed, Voting!BurnKeepsPromise
  <2> QED BY <2>1, <2>3 DEF Voting!Promise!Next
<1>4. ASSUME NEW from \in Users, NEW to \in Users, NEW amount \in Amounts \cup {0},
             TransferV1(from, to, amount)
      PROVE  FirstRevision' /\ Voting!HistoryInv' /\ Voting!Promise!Next
  <2>1. Voting!BeforeTokenTransfer(from, to, amount) /\ FirstRevision'
    BY <1>1, <1>4, FirstHookOfVoting DEF TransferV1, Account
  <2>2. Voting!Transfer(from, to, amount)
    BY <1>4, <2>1 DEF TransferV1, Voting!Transfer
  <2>3. Voting!HistoryInv' /\ Voting!Promise!ChangeBalances
    BY <1>1, <2>2, VotingAssumed, Voting!TransferKeepsPromise
  <2> QED BY <2>1, <2>3 DEF Voting!Promise!Next
<1>5. ASSUME NextBlock
      PROVE  FirstRevision' /\ Voting!HistoryInv' /\ Voting!Promise!Next
  <2>1. FirstRevision'
    BY <1>1, <1>5 DEF NextBlock, powerVars, FirstRevision
  <2>2. Voting!NextBlock
    BY <1>5 DEF NextBlock, powerVars, Voting!NextBlock, Voting!powerVars, VotingDelegates, VotingSnapshots
  <2>3. Voting!HistoryInv' /\ Voting!Promise!EndBlock
    BY <1>1, <2>2, VotingAssumed, Voting!NextBlockKeepsPromise
  <2> QED BY <2>1, <2>3 DEF Voting!Promise!Next
<1>6. FirstRevision' /\ Voting!HistoryInv' /\ Voting!Promise!Next /\ revision' = revision
  <2>1. revision' = revision
    BY DEF NextV1, StakeV1, RedeemV1, TransferV1
  <2> QED BY <1>2, <1>3, <1>4, <1>5, <2>1 DEF NextV1
<1>7. (FirstRevision /\ Voting!GovernanceInv => GovernanceInv)'
  BY FirstRevisionInv, PTL
<1> QED BY <1>1, <1>6, <1>7 DEF VotingUpgradeInv, Voting!HistoryInv

LEMMA SecondKeepsPromise ==
    ASSUME VotingUpgradeInv, Next \/ UNCHANGED vars, revision' = revision, revision = 2
    PROVE  VotingUpgradeInv' /\ [Voting!Promise!Next]_(Voting!Promise!vars)
<1>0. /\ GovernanceInv /\ Voting!HistoryInv
      /\ \A amount \in Amounts : amount \in Nat
  BY GovernanceAssumption DEF VotingUpgradeInv
<1>1. GovernanceInv'
  BY <1>0, NextInv
<1>2. ASSUME NEW u \in Users, NEW amount \in Amounts, Mint(u, amount)
      PROVE  Voting!HistoryInv' /\ Voting!Promise!Next
  <2>1. /\ Voting!BeforeTokenTransfer(ZERO, u, amount)
        /\ blockNumber' = blockNumber /\ balances' = [balances EXCEPT ![u] = @ + amount]
        /\ Voting!TotalSupply + amount <= MAX_SUPPLY
    BY <1>2, HookOfVoting, SameTotal DEF Mint, TotalSupply, Voting!TotalSupply
  <2>2. Voting!HistoryInv' /\ Voting!Promise!ChangeBalances
    BY <1>0, <2>1, VotingAssumed, Voting!MintKeepsPromise
  <2> QED BY <2>2 DEF Voting!Promise!Next
<1>3. ASSUME NEW u \in Users, NEW amount \in Amounts, Burn(u, amount)
      PROVE  Voting!HistoryInv' /\ Voting!Promise!Next
  <2>1. /\ Voting!BeforeTokenTransfer(u, ZERO, amount)
        /\ blockNumber' = blockNumber /\ balances[u] >= amount
        /\ balances' = [balances EXCEPT ![u] = @ - amount]
    BY <1>3, HookOfVoting DEF Burn
  <2>2. Voting!HistoryInv' /\ Voting!Promise!ChangeBalances
    BY <1>0, <2>1, VotingAssumed, Voting!BurnKeepsPromise
  <2> QED BY <2>2 DEF Voting!Promise!Next
<1>4. ASSUME NEW from \in Users, NEW to \in Users, NEW amount \in Amounts,
             Transfer(from, to, amount)
      PROVE  Voting!HistoryInv' /\ Voting!Promise!Next
  <2>1. Voting!Transfer(from, to, amount)
    BY <1>4, HookOfVoting DEF Transfer, Voting!Transfer
  <2>2. Voting!HistoryInv' /\ Voting!Promise!ChangeBalances
    BY <1>0, <2>1, VotingAssumed, Voting!TransferKeepsPromise
  <2> QED BY <2>2 DEF Voting!Promise!Next
<1>5. ASSUME NEW u \in Users, NEW y \in Users, NEW types \in SUBSET Types,
             DelegateTypes(u, y, types)
      PROVE  Voting!HistoryInv' /\ Voting!Promise!Next
  <2>1. Voting!DelegateTypes(u, y, types \cap {VOTING_POWER})
        /\ types \cap {VOTING_POWER} \in SUBSET {VOTING_POWER}
    BY <1>5, DelegationOfVoting
  <2>2. Voting!HistoryInv' /\ Voting!Promise!ChooseDelegatee(u, y, types \cap {VOTING_POWER})
    BY <1>0, <2>1, VotingAssumed, Voting!DelegationKeepsPromise
  <2> QED BY <2>1, <2>2 DEF Voting!Promise!Next
<1>6. ASSUME NextBlock
      PROVE  Voting!HistoryInv' /\ Voting!Promise!Next
  <2>1. Voting!NextBlock
    BY <1>6 DEF NextBlock, powerVars, Voting!NextBlock, Voting!powerVars, VotingDelegates, VotingSnapshots
  <2>2. Voting!HistoryInv' /\ Voting!Promise!EndBlock
    BY <1>0, <2>1, VotingAssumed, Voting!NextBlockKeepsPromise
  <2> QED BY <2>2 DEF Voting!Promise!Next
<1>7. ASSUME UNCHANGED vars
      PROVE  Voting!HistoryInv' /\ [Voting!Promise!Next]_(Voting!Promise!vars)
  <2>1. UNCHANGED Voting!vars
    BY <1>7 DEF vars, powerVars, Voting!vars, Voting!powerVars, VotingDelegates, VotingSnapshots
  <2> QED BY <1>0, <2>1, VotingAssumed, Voting!NextKeepsPromise
<1>8. \A type \in Types : {type} \in SUBSET Types
  OBVIOUS
<1>9. Voting!HistoryInv' /\ [Voting!Promise!Next]_(Voting!Promise!vars)
  BY <1>2, <1>3, <1>4, <1>5, <1>6, <1>7, <1>8 DEF Next, DelegateByType, Delegate
<1> QED BY <1>1, <1>9 DEF VotingUpgradeInv

LEMMA NextUpgradeInv ==
    ASSUME VotingUpgradeInv, [NextUpgrade]_upgradeVars
    PROVE  VotingUpgradeInv' /\ [VotingPromise!Next]_(VotingPromise!vars)
<1>1. CASE NextV1
  BY <1>1, FirstKeepsPromise, SameVotingPromise
<1>2. CASE NextV2
  BY <1>2, SecondKeepsPromise, SameVotingPromise DEF NextV2
<1>3. CASE Upgrade \/ UNCHANGED upgradeVars
  <2>1. UNCHANGED vars /\ revision' \in {1, 2} /\ (revision' = 1 => revision = 1)
    BY <1>3 DEF Upgrade, upgradeVars, VotingUpgradeInv
  <2>2. UNCHANGED <<balances, delegates, snapshots, blockNumber>> /\ UNCHANGED Voting!vars
    BY <2>1 DEF vars, powerVars, Voting!vars, Voting!powerVars, VotingDelegates, VotingSnapshots
  <2>3. Voting!HistoryInv' /\ GovernanceInv'
    BY <2>1, <2>2, NextInv, VotingAssumed, Voting!NextKeepsPromise DEF VotingUpgradeInv
  <2>4. revision' = 1 => FirstRevision'
    BY <2>1, <2>2 DEF VotingUpgradeInv, FirstRevision
  <2>5. UNCHANGED VotingPromise!vars
    BY <2>2 DEF VotingPromise!vars, GetDelegatee, GetPowerAtBlock, SearchByBlockNumber
  <2> QED BY <2>1, <2>3, <2>4, <2>5 DEF VotingUpgradeInv
<1> QED BY <1>1, <1>2, <1>3 DEF NextUpgrade

\* The balances the first StakedToken recorded go on as voting power: what
\* getPowerAtBlock of its successor says of any block, before the upgrade, after
\* it or its own, is the power everybody had when the block ended.
THEOREM VotingPastIsKept == SpecUpgrade => VotingKeepsPromise
<1>1. InitUpgrade => VotingUpgradeInv /\ VotingPromise!Init
  BY InitUpgradeInv
<1>2. VotingUpgradeInv /\ [NextUpgrade]_upgradeVars
        => VotingUpgradeInv' /\ [VotingPromise!Next]_(VotingPromise!vars)
  BY NextUpgradeInv
<1> QED BY <1>1, <1>2, PTL DEF SpecUpgrade, VotingKeepsPromise, VotingPromise!Spec

\* getPowerCurrent is the balance delegated to an account in both revisions, also
\* for proposition power, of which the first one recorded nothing.
THEOREM UpgradeKeepsPower == SpecUpgrade => []PowerIsDelegatedBalance
<1>1. InitUpgrade => VotingUpgradeInv
  BY InitUpgradeInv
<1>2. VotingUpgradeInv /\ [NextUpgrade]_upgradeVars => VotingUpgradeInv'
  BY NextUpgradeInv
<1>3. VotingUpgradeInv => PowerIsDelegatedBalance
  BY CurrentIsDelegated DEF VotingUpgradeInv
<1> QED BY <1>1, <1>2, <1>3, PTL DEF SpecUpgrade

=============================================================================
