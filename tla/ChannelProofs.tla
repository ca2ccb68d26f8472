--------------------------- MODULE ChannelProofs ---------------------------
(***************************************************************************)
(* Every property of AgentChannel that the run checks, for any number of   *)
(* hosts, keys, tokens and nonces and for all lifetimes.                   *)
(*                                                                         *)
(* Three inductive parts.  KeyInv and TokenInv: _keys records the host of  *)
(* every key that was ever enrolled, and a credential its token.  ChainInv,*)
(* DistinctInv and HeardInv: the credentials of one token form one chain of*)
(* rotations, each older one out of use an overlap after the next was      *)
(* issued.  SequenceInv and NonceInv: last and seen are what the delivered *)
(* reports say they are, up to nonces whose report has expired.            *)
(***************************************************************************)
EXTENDS AgentChannel, TLAPS

KeyInv == \A i \in Identity : Enrolled(i) => holder[i[2]] = i[1]

TokenInv ==
  /\ \A t \in Token : tokens[t].status # "unissued" => tokens[t].host \in Host
  /\ \A i \in Identity : Enrolled(i) =>
       /\ credentials[i].token \in Token
       /\ tokens[credentials[i].token].status = "consumed"
       /\ tokens[credentials[i].token].host = i[1]

\* j was issued later in the chain of i's token.
Older(i, j) ==
  /\ Enrolled(i) /\ Enrolled(j)
  /\ credentials[i].token = credentials[j].token
  /\ credentials[i].generation < credentials[j].generation

ChainInv ==
  \A i, j \in Identity : Older(i, j) =>
    /\ credentials[i].issued <= credentials[j].issued
    /\ credentials[i].status # "active"
    /\ credentials[i].status = "retiring" => credentials[i].retires <= credentials[j].issued + Overlap

DistinctInv ==
  \A i, j \in Identity :
    Enrolled(i) /\ Enrolled(j) /\ credentials[i].token = credentials[j].token /\ i # j =>
      credentials[i].generation # credentials[j].generation

HeardInv ==
  \A i, j \in Identity : Older(i, j) =>
    \A m \in DOMAIN delivered[i] : delivered[i][m].at <= credentials[j].issued + Overlap + Lag

\* The replay state of one identity: sequence numbers, nonces.
SequenceInv ==
  \A i \in Identity :
    /\ \A m \in DOMAIN delivered[i] : delivered[i][m].sequence <= last[i] /\ delivered[i][m].at <= now
    /\ last[i] # 0 => \E m \in DOMAIN delivered[i] : delivered[i][m].sequence = last[i]

NonceInv ==
  \A i \in Identity :
    /\ \A m \in DOMAIN delivered[i] :
         /\ delivered[i][m].expires > 0
         /\ \/ delivered[i][m].expires <= seen[i][delivered[i][m].nonce]
            \/ delivered[i][m].expires < now
    /\ \A n \in Nonce : seen[i][n] # 0 => \E m \in DOMAIN delivered[i] : delivered[i][m].nonce = n

IInv ==
  /\ ChannelTypeOK
  /\ KeyInv /\ TokenInv
  /\ ChainInv /\ DistinctInv /\ HeardInv
  /\ SequenceInv /\ NonceInv
  /\ DeliveredOnceInOrder

-----------------------------------------------------------------------------
(* Types *)

LEMMA InstantType ==
  ASSUME ChannelTypeOK, NEW at \in Instant
  PROVE  at \in Nat /\ at <= now /\ now <= at + Lag
  BY ChannelAssumption DEF ChannelTypeOK, Instant

LEMMA ExpiresType ==
  ASSUME NEW e \in ChannelEnvelope
  PROVE  Expires(e) \in Nat /\ Expires(e) > 0
  BY ChannelAssumption DEF ChannelEnvelope, Expires

\* What accept leaves of the nonce table is a nonce table.
LEMMA PrunedType ==
  ASSUME ChannelTypeOK, NEW i \in Identity, NEW at \in Nat
  PROVE  Pruned(i, at) \in [Nonce -> Nat]
  BY DEF ChannelTypeOK, Pruned

LEMMA ActiveType ==
  ASSUME NEW at \in Nat, NEW g \in Nat, NEW t \in Token \cup {Nobody}
  PROVE  Active(at, g, t) \in HostCredential
  BY ChannelAssumption DEF Active, HostCredential

\* A credential with another status and another retirement is a credential.
LEMMA ChangedType ==
  ASSUME NEW c \in HostCredential, NEW s \in {"retiring", "revoked"}, NEW r \in Nat
  PROVE  [c EXCEPT !.status = s, !.retires = r] \in HostCredential
<1> DEFINE d == [c EXCEPT !.status = s]
<1>1. d \in HostCredential
  BY DEF HostCredential
<1>2. [c EXCEPT !.status = s, !.retires = r] = [d EXCEPT !.retires = r]
  BY Zenon
<1> HIDE DEF d
<1> QED
  BY <1>1, <1>2 DEF HostCredential

\* The channel's state has its types after every operation.
THEOREM ChannelTypes == ChannelSpec => []ChannelTypeOK
<1>1. Init => ChannelTypeOK
  <2> SUFFICES ASSUME Init PROVE ChannelTypeOK
    OBVIOUS
  <2>1. Unissued \in EnrollmentToken
    BY DEF Unissued, EnrollmentToken
  <2>2. Absent \in HostCredential
    BY DEF Absent, HostCredential
  <2> QED
    BY <2>1, <2>2, ChannelAssumption DEF Init, ChannelTypeOK
<1>2. ChannelTypeOK /\ [Next]_vars => ChannelTypeOK'
  <2> SUFFICES ASSUME ChannelTypeOK, [Next]_vars PROVE ChannelTypeOK'
    OBVIOUS
  <2>1. CASE UNCHANGED vars
    BY <2>1 DEF ChannelTypeOK, vars
  <2>2. CASE Tick
    BY <2>2, ChannelAssumption DEF ChannelTypeOK, Tick
  <2>3. ASSUME NEW at \in Instant, NEW t \in Token, NEW h \in Host, issue_token(t, h, at)
        PROVE  ChannelTypeOK'
    <3>1. [status |-> "outstanding", host |-> h, issued |-> at, expires |-> at + TokenLife] \in EnrollmentToken
      BY InstantType, ChannelAssumption DEF EnrollmentToken
    <3> QED
      BY <2>3, <3>1 DEF ChannelTypeOK, issue_token
  <2>4. ASSUME NEW at \in Instant, NEW t \in Token, NEW k \in Key, enroll(t, k, at)
        PROVE  ChannelTypeOK'
    <3>1. Active(at, 1, t) \in HostCredential
      BY InstantType, ActiveType
    <3>2. [tokens[t] EXCEPT !.status = "consumed"] \in EnrollmentToken
      BY DEF ChannelTypeOK, EnrollmentToken
    <3>3. tokens' \in [Token -> EnrollmentToken]
      BY <2>4, <3>2 DEF ChannelTypeOK, enroll
    <3>4. credentials' \in [Identity -> HostCredential]
      BY <2>4, <3>1 DEF ChannelTypeOK, enroll
    <3>5. tokens[t].host \in Host \cup {Nobody}
      BY DEF ChannelTypeOK, EnrollmentToken
    <3>6. holder' \in [Key -> Host \cup {Nobody}]
      BY <2>4, <3>5 DEF ChannelTypeOK, enroll
    <3> QED
      BY <2>4, <3>3, <3>4, <3>6 DEF ChannelTypeOK, enroll
  <2>5. ASSUME NEW at \in Instant, NEW h \in Host, NEW k \in Key, NEW new \in Key, rotate(h, k, new, at)
        PROVE  ChannelTypeOK'
    <3> DEFINE c == credentials[<<h, k>>]
               C == [credentials EXCEPT ![<<h, k>>] = [c EXCEPT !.status = "retiring", !.retires = at + Overlap]]
    <3>1. c \in HostCredential
      BY DEF ChannelTypeOK, Identity
    <3>2. Active(at, c.generation + 1, c.token) \in HostCredential
      BY <3>1, InstantType, ActiveType DEF HostCredential
    <3>3. [c EXCEPT !.status = "retiring", !.retires = at + Overlap] \in HostCredential
      <4>1. at + Overlap \in Nat
        BY InstantType, ChannelAssumption
      <4> QED
        BY <3>1, <4>1, ChangedType
    <3>4. C \in [Identity -> HostCredential]
      BY <3>3 DEF ChannelTypeOK
    <3>5. credentials' = [C EXCEPT ![<<h, new>>] = Active(at, c.generation + 1, c.token)]
      BY <2>5, Zenon DEF rotate
    <3>6. credentials' \in [Identity -> HostCredential]
      <4> HIDE DEF C
      <4> QED BY <3>2, <3>4, <3>5
    <3> QED
      BY <2>5, <3>6 DEF ChannelTypeOK, rotate
  <2>6. ASSUME NEW at \in Instant, NEW h \in Host, NEW k \in Key, revoke(h, k, at)
        PROVE  ChannelTypeOK'
    <3> DEFINE c == credentials[<<h, k>>]
               d == [c EXCEPT !.status = "revoked", !.retires = 0]
    <3>1. d \in HostCredential
      <4>1. c \in HostCredential
        BY DEF ChannelTypeOK, Identity
      <4> QED
        BY <4>1, ChangedType
    <3>2. credentials' = [credentials EXCEPT ![<<h, k>>] = d]
      BY <2>6, Zenon DEF revoke
    <3>3. credentials' \in [Identity -> HostCredential]
      <4> HIDE DEF d
      <4> QED BY <3>1, <3>2 DEF ChannelTypeOK
    <3> QED
      BY <2>6, <3>3 DEF ChannelTypeOK, revoke
  <2>7. ASSUME NEW at \in Instant, NEW e \in ChannelEnvelope, accept(e, at)
        PROVE  ChannelTypeOK'
    <3> DEFINE i == <<e.host, e.key>>
               r == [sequence |-> e.sequence, nonce |-> e.nonce,
                     expires |-> Expires(e), at |-> now]
    <3>1. i \in Identity /\ e.nonce \in Nonce /\ e.sequence \in 1..MaxSequence
      BY DEF ChannelEnvelope, Identity
    <3>2. Pruned(i, at) \in [Nonce -> Nat]
      BY <3>1, InstantType, PrunedType
    <3>3. r \in AcceptedReport
      BY <3>1, ExpiresType, ChannelAssumption DEF AcceptedReport, ChannelEnvelope, ChannelTypeOK
    <3>4. delivered' \in [Identity -> Seq(AcceptedReport)]
      <4>1. Append(delivered[i], r) \in Seq(AcceptedReport)
        BY <3>1, <3>3 DEF ChannelTypeOK
      <4> QED
        BY <2>7, <3>1, <4>1 DEF accept, ChannelTypeOK
    <3>5. seen' \in [Identity -> [Nonce -> Nat]]
      BY <2>7, <3>1, <3>2, ExpiresType DEF accept, ChannelTypeOK
    <3>6. last' \in [Identity -> 0..MaxSequence]
      BY <2>7, <3>1, ChannelAssumption DEF accept, ChannelTypeOK
    <3> QED
      BY <2>7, <3>4, <3>5, <3>6 DEF accept, ChannelTypeOK
  <2>8. ASSUME NEW at \in Instant, NEW e \in ChannelEnvelope, RefuseNonce(e, at)
        PROVE  ChannelTypeOK'
    <3>1. <<e.host, e.key>> \in Identity
      BY DEF ChannelEnvelope, Identity
    <3>2. Pruned(<<e.host, e.key>>, at) \in [Nonce -> Nat]
      BY <3>1, InstantType, PrunedType
    <3> QED
      BY <2>8, <3>1, <3>2 DEF RefuseNonce, ChannelTypeOK
  <2> QED
    BY <2>1, <2>2, <2>3, <2>4, <2>5, <2>6, <2>7, <2>8 DEF Next
<1> QED
  BY <1>1, <1>2, PTL DEF ChannelSpec

-----------------------------------------------------------------------------
(* The credentials: keys, tokens, chains *)

\* The part of IInv that speaks of credentials alone.
CredInv == KeyInv /\ TokenInv /\ ChainInv /\ DistinctInv

\* A key no host holds has no credential.
LEMMA UnheldIsAbsent ==
  ASSUME ChannelTypeOK, KeyInv, NEW h \in Host, NEW k \in Key, holder[k] = Nobody
  PROVE  ~Enrolled(<<h, k>>)
  BY ChannelAssumption DEF KeyInv, Identity

\* enroll adds one credential, the first of its token.
LEMMA EnrollStep ==
  ASSUME ChannelTypeOK, CredInv, NEW at \in Instant, NEW t \in Token, NEW k \in Key,
         enroll(t, k, at)
  PROVE  CredInv' /\ \A i, j \in Identity : Older(i, j)' =>
           Older(i, j) /\ credentials'[j] = credentials[j]
<1> DEFINE n == <<tokens[t].host, k>>
<1>1. tokens[t].status = "outstanding" /\ holder[k] = Nobody
  BY DEF enroll, Redeemable
<1>2. tokens[t].host \in Host /\ n \in Identity
  BY <1>1 DEF CredInv, TokenInv, Identity
<1>3. ~Enrolled(n)
  BY <1>1, <1>2, UnheldIsAbsent DEF CredInv
<1>4. credentials'[n] = Active(at, 1, t) /\ \A i \in Identity : i # n => credentials'[i] = credentials[i]
  BY <1>2 DEF enroll, ChannelTypeOK
<1>5. credentials'[n].token = t /\ credentials'[n].status = "active"
  BY <1>4 DEF Active
<1>6. \A i \in Identity : i # n /\ Enrolled(i) => credentials[i].token # t
  BY <1>1 DEF CredInv, TokenInv
<1>7. \A i \in Identity : i # n => (Enrolled(i)' <=> Enrolled(i))
  BY <1>4 DEF Enrolled
<1>8. \A i, j \in Identity : Older(i, j)' => i # n /\ j # n /\ Older(i, j)
  BY <1>4, <1>5, <1>6, <1>7 DEF Older, Active
<1>9. \A i, j \in Identity : Older(i, j)' => Older(i, j) /\ credentials'[j] = credentials[j]
  BY <1>4, <1>8
<1>10. KeyInv'
  <2> SUFFICES ASSUME NEW i \in Identity, Enrolled(i)' PROVE holder'[i[2]] = i[1]
    BY DEF KeyInv
  <2>1. CASE i = n
    BY <2>1, <1>2 DEF enroll, ChannelTypeOK
  <2>2. CASE i # n
    <3>1. i[2] \in Key /\ i[1] \in Host /\ holder[i[2]] = i[1]
      BY <2>2, <1>7 DEF CredInv, KeyInv, Identity
    <3>2. i[2] # k
      BY <3>1, <1>1, ChannelAssumption
    <3> QED
      BY <3>1, <3>2 DEF enroll, ChannelTypeOK
  <2> QED
    BY <2>1, <2>2
<1>11. TokenInv'
  <2>1. \A u \in Token : /\ tokens'[u].host = tokens[u].host
                         /\ tokens'[u].status = IF u = t THEN "consumed" ELSE tokens[u].status
    BY DEF enroll, ChannelTypeOK, EnrollmentToken
  <2>2. \A u \in Token : tokens'[u].status # "unissued" => tokens'[u].host \in Host
    BY <2>1, <1>2 DEF CredInv, TokenInv
  <2> SUFFICES ASSUME NEW i \in Identity, Enrolled(i)'
               PROVE  /\ credentials'[i].token \in Token
                      /\ tokens'[credentials'[i].token].status = "consumed"
                      /\ tokens'[credentials'[i].token].host = i[1]
    BY <2>2 DEF TokenInv
  <2>3. CASE i = n
    BY <2>1, <2>3, <1>2, <1>5
  <2>4. CASE i # n
    BY <2>1, <2>4, <1>4, <1>7 DEF CredInv, TokenInv
  <2> QED
    BY <2>3, <2>4
<1>12. ChainInv'
  BY <1>4, <1>8 DEF CredInv, ChainInv
<1>13. DistinctInv'
  BY <1>4, <1>5, <1>6, <1>7 DEF CredInv, DistinctInv
<1> QED
  BY <1>9, <1>10, <1>11, <1>12, <1>13 DEF CredInv

\* The active key is the newest of its token.
LEMMA ActiveIsNewest ==
  ASSUME ChannelTypeOK, CredInv, NEW i \in Identity, NEW o \in Identity, i # o,
         Enrolled(i), credentials[o].status = "active", credentials[i].token = credentials[o].token
  PROVE  Older(i, o)
<1>1. Enrolled(o)
  BY DEF Enrolled
<1>2. credentials[i].generation # credentials[o].generation
  BY <1>1 DEF CredInv, DistinctInv
<1>3. ~Older(o, i)
  BY DEF CredInv, ChainInv
<1>4. credentials[i].generation \in Nat /\ credentials[o].generation \in Nat
  BY DEF ChannelTypeOK, HostCredential
<1> QED
  BY <1>1, <1>2, <1>3, <1>4 DEF Older

\* rotate puts a new credential at the end of the chain of the old one.
LEMMA RotateStep ==
  ASSUME ChannelTypeOK, CredInv, NEW at \in Instant, NEW h \in Host, NEW k \in Key, NEW new \in Key,
         rotate(h, k, new, at)
  PROVE  /\ CredInv'
         /\ \A i, j \in Identity : Older(i, j)' =>
              \/ Older(i, j) /\ credentials'[j].issued = credentials[j].issued
              \/ credentials'[j].issued = at /\ (i = <<h, k>> \/ Older(i, <<h, k>>))
         /\ credentials[<<h, k>>].issued <= at
<1> DEFINE o == <<h, k>>
           n == <<h, new>>
<1>1. credentials[o].status = "active" /\ at >= credentials[o].issued /\ holder[new] = Nobody
  BY DEF rotate
<1>2. o \in Identity /\ n \in Identity /\ Enrolled(o)
  BY <1>1 DEF Identity, Enrolled
<1>3. ~Enrolled(n) /\ n # o
  BY <1>1, <1>2, UnheldIsAbsent DEF CredInv
<1>4. /\ credentials'[n] = Active(at, credentials[o].generation + 1, credentials[o].token)
      /\ \A i \in Identity : i # n /\ i # o => credentials'[i] = credentials[i]
      /\ credentials'[o] = [credentials[o] EXCEPT !.status = "retiring", !.retires = at + Overlap]
  BY <1>2, <1>3 DEF rotate, ChannelTypeOK
<1>5. /\ credentials'[n].token = credentials[o].token
      /\ credentials'[n].generation = credentials[o].generation + 1
      /\ credentials'[n].issued = at
      /\ credentials'[n].status = "active"
  BY <1>4 DEF Active
<1>6. /\ credentials'[o].token = credentials[o].token
      /\ credentials'[o].generation = credentials[o].generation
      /\ credentials'[o].issued = credentials[o].issued
      /\ credentials'[o].status = "retiring"
      /\ credentials'[o].retires = at + Overlap
  BY <1>2, <1>4 DEF ChannelTypeOK, HostCredential
<1>7. \A i \in Identity : i # n =>
        /\ Enrolled(i)' <=> Enrolled(i)
        /\ credentials'[i].token = credentials[i].token
        /\ credentials'[i].generation = credentials[i].generation
        /\ credentials'[i].issued = credentials[i].issued
  BY <1>2, <1>4, <1>6 DEF Enrolled
<1>8. \A i \in Identity : /\ credentials[i].generation \in Nat /\ credentials[i].issued \in Nat
                          /\ credentials[i].retires \in Nat
  BY DEF ChannelTypeOK, HostCredential
<1>9. at \in Nat /\ Overlap \in Nat
  BY InstantType, ChannelAssumption
<1>10. \A i \in Identity : i # n /\ Enrolled(i) /\ credentials[i].token = credentials[o].token =>
         i = o \/ Older(i, o)
  BY <1>1, <1>2, ActiveIsNewest
<1>11. ASSUME NEW i \in Identity, NEW j \in Identity, Older(i, j)'
       PROVE  \/ i # n /\ i # o /\ j # n /\ Older(i, j) /\ credentials'[j].issued = credentials[j].issued
              \/ i # n /\ j = n /\ (i = o \/ Older(i, o))
  <2>1. CASE i = n
    <3>1. j # n
      BY <1>11, <2>1, <1>5, <1>8, <1>2 DEF Older
    <3>2. Enrolled(j) /\ credentials[j].token = credentials[o].token
          /\ credentials[o].generation + 1 < credentials[j].generation
      BY <1>11, <2>1, <3>1, <1>5, <1>7 DEF Older
    <3> QED
      BY <3>1, <3>2, <1>2, <1>8, <1>10 DEF Older
  <2>2. CASE i # n /\ j = n
    BY <1>11, <2>2, <1>5, <1>7, <1>10 DEF Older
  <2>3. CASE i # n /\ j # n
    <3>1. Older(i, j)
      BY <1>11, <2>3, <1>7 DEF Older
    <3>2. i # o
      BY <3>1, <1>1 DEF CredInv, ChainInv
    <3> QED
      BY <2>3, <3>1, <3>2, <1>7
  <2> QED
    BY <2>1, <2>2, <2>3
<1>12. KeyInv'
  <2> SUFFICES ASSUME NEW i \in Identity, Enrolled(i)' PROVE holder'[i[2]] = i[1]
    BY DEF KeyInv
  <2>1. CASE i = n
    BY <2>1, <1>2 DEF rotate, ChannelTypeOK
  <2>2. CASE i # n
    <3>1. i[2] \in Key /\ i[1] \in Host /\ holder[i[2]] = i[1]
      BY <2>2, <1>7 DEF CredInv, KeyInv, Identity
    <3>2. i[2] # new
      BY <3>1, <1>1, ChannelAssumption
    <3> QED
      BY <3>1, <3>2 DEF rotate, ChannelTypeOK
  <2> QED
    BY <2>1, <2>2
<1>13. TokenInv'
  <2>1. tokens' = tokens
    BY DEF rotate
  <2> SUFFICES ASSUME NEW i \in Identity, Enrolled(i)'
               PROVE  /\ credentials'[i].token \in Token
                      /\ tokens[credentials'[i].token].status = "consumed"
                      /\ tokens[credentials'[i].token].host = i[1]
    BY <2>1 DEF TokenInv, CredInv
  <2>2. CASE i = n
    BY <2>2, <1>2, <1>5 DEF CredInv, TokenInv
  <2>3. CASE i # n
    BY <2>3, <1>7 DEF CredInv, TokenInv
  <2> QED
    BY <2>2, <2>3
<1>14. ChainInv'
  <2> SUFFICES ASSUME NEW i \in Identity, NEW j \in Identity, Older(i, j)'
               PROVE  /\ credentials'[i].issued <= credentials'[j].issued
                      /\ credentials'[i].status # "active"
                      /\ credentials'[i].status = "retiring" =>
                           credentials'[i].retires <= credentials'[j].issued + Overlap
    BY DEF ChainInv
  <2>1. CASE j = n /\ i = o
    BY <2>1, <1>1, <1>5, <1>6, <1>8, <1>9
  <2>2. CASE j = n /\ i # n /\ i # o /\ Older(i, o)
    <3>1. /\ credentials[i].issued <= credentials[o].issued
          /\ credentials[i].status # "active"
          /\ credentials[i].status = "retiring" => credentials[i].retires <= credentials[o].issued + Overlap
      BY <2>2, <1>2 DEF CredInv, ChainInv
    <3> QED
      BY <2>2, <3>1, <1>1, <1>2, <1>4, <1>5, <1>8, <1>9
  <2>3. CASE i # n /\ i # o /\ j # n /\ Older(i, j)
    BY <2>3, <1>4, <1>7 DEF CredInv, ChainInv
  <2> QED
    BY <2>1, <2>2, <2>3, <1>11
<1>15. DistinctInv'
  <2> SUFFICES ASSUME NEW i \in Identity, NEW j \in Identity, i # j, Enrolled(i)', Enrolled(j)',
                      credentials'[i].token = credentials'[j].token
               PROVE  credentials'[i].generation # credentials'[j].generation
    BY DEF DistinctInv
  <2>1. CASE i # n /\ j # n
    BY <2>1, <1>7 DEF CredInv, DistinctInv
  <2>2. ASSUME NEW l \in Identity, l # n, Enrolled(l)', credentials'[l].token = credentials'[n].token
        PROVE  credentials'[l].generation # credentials'[n].generation
    <3>1. l = o \/ Older(l, o)
      BY <2>2, <1>5, <1>7, <1>10
    <3> QED
      BY <2>2, <3>1, <1>2, <1>5, <1>7, <1>8 DEF Older
  <2> QED
    BY <2>1, <2>2
<1> QED
  BY <1>1, <1>5, <1>11, <1>12, <1>13, <1>14, <1>15 DEF CredInv

\* revoke changes a status; keys, tokens and generations stay.
LEMMA RevokeStep ==
  ASSUME ChannelTypeOK, CredInv, NEW at \in Instant, NEW h \in Host, NEW k \in Key, revoke(h, k, at)
  PROVE  /\ CredInv'
         /\ \A i, j \in Identity : Older(i, j)' =>
              Older(i, j) /\ credentials'[j].issued = credentials[j].issued
<1> DEFINE o == <<h, k>>
<1>1. o \in Identity /\ Enrolled(o)
  BY DEF revoke, Identity, Enrolled
<1>2. /\ credentials'[o] = [credentials[o] EXCEPT !.status = "revoked", !.retires = 0]
      /\ \A i \in Identity : i # o => credentials'[i] = credentials[i]
  BY <1>1 DEF revoke, ChannelTypeOK
<1>3. /\ credentials'[o].token = credentials[o].token
      /\ credentials'[o].generation = credentials[o].generation
      /\ credentials'[o].issued = credentials[o].issued
      /\ credentials'[o].status = "revoked"
  BY <1>1, <1>2 DEF ChannelTypeOK, HostCredential
<1>4. \A i \in Identity :
        /\ Enrolled(i)' <=> Enrolled(i)
        /\ credentials'[i].token = credentials[i].token
        /\ credentials'[i].generation = credentials[i].generation
        /\ credentials'[i].issued = credentials[i].issued
        /\ \/ credentials'[i].status = "revoked"
           \/ credentials'[i] = credentials[i]
  BY <1>1, <1>2, <1>3 DEF Enrolled
<1>5. \A i, j \in Identity : Older(i, j)' => Older(i, j)
  BY <1>4 DEF Older
<1>6. KeyInv' /\ TokenInv'
  BY <1>4 DEF CredInv, KeyInv, TokenInv, revoke
<1>7. ChainInv'
  BY <1>4, <1>5 DEF CredInv, ChainInv
<1>8. DistinctInv'
  BY <1>4 DEF CredInv, DistinctInv
<1> QED
  BY <1>4, <1>5, <1>6, <1>7, <1>8 DEF CredInv

-----------------------------------------------------------------------------
(* The replay state *)

\* The part of IInv that speaks of the replay state alone.
ReplayInv == SequenceInv /\ NonceInv /\ DeliveredOnceInOrder

\* What a delivery does to the history of one identity.
LEMMA Appended ==
  ASSUME NEW S, NEW d \in Seq(S), NEW r \in S
  PROVE  /\ DOMAIN Append(d, r) = 1..(Len(d) + 1) /\ DOMAIN d = 1..Len(d) /\ Len(d) \in Nat
         /\ Append(d, r)[Len(d) + 1] = r
         /\ \A m \in DOMAIN d : Append(d, r)[m] = d[m]
  OBVIOUS

\* Nothing the nonce table forgets is a nonce of a report that could still be
\* delivered again.
LEMMA PrunedKeeps ==
  ASSUME ChannelTypeOK, NonceInv, NEW i \in Identity, NEW at \in Instant, NEW m \in DOMAIN delivered[i]
  PROVE  /\ \/ delivered[i][m].expires <= Pruned(i, at)[delivered[i][m].nonce]
            \/ delivered[i][m].expires < now
         /\ Pruned(i, at)[delivered[i][m].nonce] = 0 => delivered[i][m].expires < now
<1> DEFINE d == delivered[i][m]
<1>1. d \in AcceptedReport
  BY DEF ChannelTypeOK
<1>2. d.nonce \in Nonce /\ d.expires \in Nat /\ d.expires > 0
  BY <1>1 DEF AcceptedReport, NonceInv
<1>3. Pruned(i, at)[d.nonce] = IF seen[i][d.nonce] < at THEN 0 ELSE seen[i][d.nonce]
  BY <1>2 DEF Pruned
<1>4. seen[i][d.nonce] \in Nat /\ now \in Nat /\ at \in Nat /\ at <= now
  BY <1>2, InstantType, ChannelAssumption DEF ChannelTypeOK
<1>5. d.expires <= seen[i][d.nonce] \/ d.expires < now
  BY DEF NonceInv
<1> HIDE DEF d
<1>6. /\ d.expires <= Pruned(i, at)[d.nonce] \/ d.expires < now
      /\ Pruned(i, at)[d.nonce] = 0 => d.expires < now
  BY <1>2, <1>3, <1>4, <1>5
<1> QED
  BY <1>6 DEF d

\* accept commits one report to the replay state of its identity.
LEMMA AcceptStep ==
  ASSUME ChannelTypeOK, ReplayInv, NEW at \in Instant, NEW e \in ChannelEnvelope, accept(e, at)
  PROVE  ReplayInv'
<1> DEFINE i == <<e.host, e.key>>
           d == delivered[i]
           r == [sequence |-> e.sequence, nonce |-> e.nonce,
                 expires |-> Expires(e), at |-> now]
<1>1. i \in Identity /\ e.nonce \in Nonce /\ e.sequence \in 1..MaxSequence
  BY DEF ChannelEnvelope, Identity
<1>2. r \in AcceptedReport
  BY <1>1, ExpiresType, ChannelAssumption DEF AcceptedReport, ChannelEnvelope, ChannelTypeOK
<1>3. d \in Seq(AcceptedReport)
  BY <1>1 DEF ChannelTypeOK
<1>4. /\ delivered'[i] = Append(d, r)
      /\ \A j \in Identity : j # i => delivered'[j] = delivered[j]
  BY <1>1 DEF accept, ChannelTypeOK
<1>5. /\ DOMAIN delivered'[i] = 1..(Len(d) + 1) /\ DOMAIN d = 1..Len(d) /\ Len(d) \in Nat
      /\ delivered'[i][Len(d) + 1] = r
      /\ \A m \in DOMAIN d : delivered'[i][m] = d[m]
  <2> HIDE DEF i, d, r
  <2> QED
    BY <1>2, <1>3, <1>4, Appended
<1>6. last'[i] = e.sequence /\ \A j \in Identity : j # i => last'[j] = last[j]
  BY <1>1 DEF accept, ChannelTypeOK
<1>7. /\ seen'[i] = [Pruned(i, at) EXCEPT ![e.nonce] = Expires(e)]
      /\ \A j \in Identity : j # i => seen'[j] = seen[j]
  BY <1>1 DEF accept, ChannelTypeOK
<1>8. e.sequence > last[i] /\ Pruned(i, at)[e.nonce] = 0 /\ now' = now
  BY DEF accept, Checked, Fresh
<1>9. last[i] \in Nat /\ e.sequence \in Nat /\ now \in Nat
  BY <1>1, ChannelAssumption DEF ChannelTypeOK
<1>10. \A m \in DOMAIN d : d[m] \in AcceptedReport
  BY <1>3
<1>11. r.sequence = e.sequence /\ r.nonce = e.nonce /\ r.expires = Expires(e) /\ r.at = now
  OBVIOUS
<1>12. \A m \in DOMAIN d : d[m].sequence <= last[i] /\ d[m].at <= now
  BY <1>1 DEF ReplayInv, SequenceInv
<1> HIDE DEF r
<1>13. SequenceInv'
  <2> SUFFICES ASSUME NEW j \in Identity
               PROVE  /\ \A m \in DOMAIN delivered'[j] :
                           delivered'[j][m].sequence <= last'[j] /\ delivered'[j][m].at <= now'
                      /\ last'[j] # 0 => \E m \in DOMAIN delivered'[j] : delivered'[j][m].sequence = last'[j]
    BY DEF SequenceInv
  <2>1. CASE j # i
    BY <2>1, <1>4, <1>6, <1>8 DEF ReplayInv, SequenceInv
  <2>2. CASE j = i
    <3>1. \A m \in DOMAIN d : d[m].sequence <= e.sequence /\ d[m].at <= now
      BY <1>8, <1>9, <1>10, <1>12 DEF AcceptedReport
    <3>2. Len(d) + 1 \in DOMAIN delivered'[i]
      BY <1>5
    <3>3. \A m \in DOMAIN delivered'[i] : m \in DOMAIN d \/ m = Len(d) + 1
      BY <1>5
    <3>4. \A m \in DOMAIN delivered'[i] : delivered'[i][m].sequence <= e.sequence /\ delivered'[i][m].at <= now
      <4>1. r.sequence <= e.sequence /\ r.at <= now
        BY <1>9, <1>11
      <4> HIDE DEF i, d
      <4> QED
        BY <3>1, <3>3, <4>1, <1>5
    <3>5. delivered'[i][Len(d) + 1].sequence = e.sequence
      BY <1>5, <1>11
    <3> HIDE DEF i, d
    <3> QED
      BY <2>2, <3>2, <3>4, <3>5, <1>6, <1>8
  <2> QED
    BY <2>1, <2>2
<1>14. \A m \in DOMAIN delivered'[i] : m \in DOMAIN d \/ m = Len(d) + 1
  BY <1>5
<1>15. Pruned(i, at) \in [Nonce -> Nat]
  BY <1>1, InstantType, PrunedType
<1>16. \A n \in Nonce : seen'[i][n] = IF n = e.nonce THEN Expires(e) ELSE Pruned(i, at)[n]
  BY <1>1, <1>7, <1>15
<1>17. Expires(e) \in Nat /\ Expires(e) > 0
  BY ExpiresType
<1>18. NonceInv'
  <2>1. ASSUME NEW j \in Identity, j # i
        PROVE  /\ \A m \in DOMAIN delivered'[j] :
                    /\ delivered'[j][m].expires > 0
                    /\ \/ delivered'[j][m].expires <= seen'[j][delivered'[j][m].nonce]
                       \/ delivered'[j][m].expires < now'
               /\ \A n \in Nonce : seen'[j][n] # 0 => \E m \in DOMAIN delivered'[j] : delivered'[j][m].nonce = n
    BY <2>1, <1>4, <1>7, <1>8 DEF ReplayInv, NonceInv
  <2>2. ASSUME NEW m \in DOMAIN d
        PROVE  /\ d[m].expires > 0
               /\ d[m].expires <= seen'[i][d[m].nonce] \/ d[m].expires < now
    <3>1. /\ d[m].expires <= Pruned(i, at)[d[m].nonce] \/ d[m].expires < now
          /\ Pruned(i, at)[d[m].nonce] = 0 => d[m].expires < now
      BY <1>1, PrunedKeeps DEF ReplayInv
    <3>2. d[m].expires > 0 /\ d[m].nonce \in Nonce
      BY <1>1, <1>10 DEF ReplayInv, NonceInv, AcceptedReport
    <3>3. CASE d[m].nonce = e.nonce
      BY <3>1, <3>2, <3>3, <1>8
    <3>4. CASE d[m].nonce # e.nonce
      BY <3>1, <3>2, <3>4, <1>16
    <3> QED
      BY <3>3, <3>4
  <2>3. seen'[i][e.nonce] = r.expires /\ r.expires > 0 /\ r.expires \in Nat
    BY <1>1, <1>11, <1>16, <1>17
  <2>4. \A m \in DOMAIN delivered'[i] :
          /\ delivered'[i][m].expires > 0
          /\ \/ delivered'[i][m].expires <= seen'[i][delivered'[i][m].nonce]
             \/ delivered'[i][m].expires < now'
    <3> SUFFICES ASSUME NEW m \in DOMAIN delivered'[i]
                 PROVE  /\ delivered'[i][m].expires > 0
                        /\ \/ delivered'[i][m].expires <= seen'[i][delivered'[i][m].nonce]
                           \/ delivered'[i][m].expires < now'
      OBVIOUS
    <3>1. CASE m \in DOMAIN d
      <4>1. delivered'[i][m] = d[m]
        BY <3>1, <1>5
      <4> QED
        BY <2>2, <3>1, <4>1, <1>8
    <3>2. CASE m = Len(d) + 1
      <4>1. delivered'[i][m] = r
        BY <3>2, <1>5
      <4>2. r.expires <= seen'[i][r.nonce]
        BY <2>3, <1>11
      <4> QED
        BY <2>3, <4>1, <4>2
    <3> QED
      BY <3>1, <3>2, <1>14
  <2>5. ASSUME NEW n \in Nonce, seen'[i][n] # 0
        PROVE  \E m \in DOMAIN delivered'[i] : delivered'[i][m].nonce = n
    <3>1. CASE n = e.nonce
      <4>1. Len(d) + 1 \in DOMAIN delivered'[i]
        BY <1>5
      <4> QED
        BY <3>1, <4>1, <1>5, <1>11
    <3>2. CASE n # e.nonce
      <4>1. seen[i][n] # 0
        BY <2>5, <3>2, <1>16 DEF Pruned
      <4>2. PICK m \in DOMAIN d : d[m].nonce = n
        BY <4>1, <1>1 DEF ReplayInv, NonceInv
      <4>3. m \in DOMAIN delivered'[i] /\ delivered'[i][m] = d[m]
        BY <1>5
      <4> QED
        BY <4>2, <4>3
    <3> QED
      BY <3>1, <3>2
  <2> QED
    BY <2>1, <2>4, <2>5 DEF NonceInv
<1>19. DeliveredOnceInOrder'
  <2> SUFFICES ASSUME NEW j \in Identity, NEW m \in DOMAIN delivered'[j], NEW n \in DOMAIN delivered'[j], m < n
               PROVE  /\ delivered'[j][m].sequence < delivered'[j][n].sequence
                      /\ delivered'[j][m].nonce = delivered'[j][n].nonce =>
                           delivered'[j][m].expires < delivered'[j][n].at
    BY DEF DeliveredOnceInOrder
  <2>1. CASE j # i
    BY <2>1, <1>4 DEF ReplayInv, DeliveredOnceInOrder
  <2>2. CASE j = i /\ n \in DOMAIN d
    <3>1. m \in DOMAIN d
      BY <2>2, <1>5
    <3> QED
      BY <2>2, <3>1, <1>1, <1>5 DEF ReplayInv, DeliveredOnceInOrder
  <2>3. CASE j = i /\ n = Len(d) + 1
    <3>1. m \in DOMAIN d
      BY <2>3, <1>5
    <3>2. d[m].sequence < e.sequence
      BY <3>1, <1>8, <1>9, <1>10, <1>12 DEF AcceptedReport
    <3>3. d[m].nonce = e.nonce => d[m].expires < now
      BY <3>1, <1>1, <1>8, PrunedKeeps DEF ReplayInv
    <3> QED
      BY <2>3, <3>1, <3>2, <3>3, <1>5, <1>11
  <2> QED
    BY <2>1, <2>2, <2>3, <1>14
<1> QED
  BY <1>13, <1>18, <1>19 DEF ReplayInv

\* A report refused for its nonce has pruned the table and nothing else.
LEMMA RefuseStep ==
  ASSUME ChannelTypeOK, ReplayInv, NEW at \in Instant, NEW e \in ChannelEnvelope, RefuseNonce(e, at)
  PROVE  ReplayInv'
<1> DEFINE i == <<e.host, e.key>>
<1>1. i \in Identity
  BY DEF ChannelEnvelope, Identity
<1>2. delivered' = delivered /\ last' = last /\ now' = now
  BY DEF RefuseNonce
<1>3. seen'[i] = Pruned(i, at) /\ \A j \in Identity : j # i => seen'[j] = seen[j]
  BY <1>1 DEF RefuseNonce, ChannelTypeOK
<1>4. SequenceInv' /\ DeliveredOnceInOrder'
  BY <1>2 DEF ReplayInv, SequenceInv, DeliveredOnceInOrder
<1>5. \A n \in Nonce : Pruned(i, at)[n] # 0 => seen[i][n] # 0
  BY DEF Pruned
<1>6. \A m \in DOMAIN delivered[i] :
        \/ delivered[i][m].expires <= Pruned(i, at)[delivered[i][m].nonce]
        \/ delivered[i][m].expires < now
  BY <1>1, PrunedKeeps DEF ReplayInv
<1>7. NonceInv'
  BY <1>1, <1>2, <1>3, <1>5, <1>6 DEF ReplayInv, NonceInv
<1> QED
  BY <1>4, <1>7 DEF ReplayInv

-----------------------------------------------------------------------------
(* The inductive invariant *)

LEMMA InitIInv == Init => IInv
<1> SUFFICES ASSUME Init PROVE KeyInv /\ TokenInv /\ ChainInv /\ DistinctInv /\ HeardInv
                               /\ SequenceInv /\ NonceInv /\ DeliveredOnceInOrder /\ ChannelTypeOK
  BY DEF IInv
<1>1. ChannelTypeOK
  <2>1. Unissued \in EnrollmentToken
    BY DEF Unissued, EnrollmentToken
  <2>2. Absent \in HostCredential
    BY DEF Absent, HostCredential
  <2> QED
    BY <2>1, <2>2, ChannelAssumption DEF Init, ChannelTypeOK
<1>2. \A i \in Identity : ~Enrolled(i)
  BY DEF Init, Enrolled, Absent
<1>3. \A i \in Identity : delivered[i] = <<>> /\ DOMAIN delivered[i] = {}
  BY DEF Init
<1>4. KeyInv /\ ChainInv /\ DistinctInv /\ HeardInv
  BY <1>2 DEF KeyInv, ChainInv, DistinctInv, HeardInv, Older
<1>5. TokenInv
  BY <1>2 DEF TokenInv, Init, Unissued
<1>6. SequenceInv /\ NonceInv /\ DeliveredOnceInOrder
  BY <1>3 DEF SequenceInv, NonceInv, DeliveredOnceInOrder, Init
<1> QED
  BY <1>1, <1>4, <1>5, <1>6

\* Steps that leave keys, tokens' hosts, credentials and history alone.
LEMMA QuietCred ==
  ASSUME CredInv, HeardInv, UNCHANGED <<credentials, holder, delivered>>,
         \A t \in Token : /\ tokens'[t].status = "consumed" <=> tokens[t].status = "consumed"
                          /\ tokens[t].status = "consumed" => tokens'[t].host = tokens[t].host
                          /\ tokens'[t].status # "unissued" => tokens'[t].host \in Host
  PROVE  CredInv' /\ HeardInv'
<1>1. TokenInv'
  BY DEF CredInv, TokenInv, Enrolled
<1>2. KeyInv' /\ ChainInv' /\ DistinctInv' /\ HeardInv'
  BY DEF CredInv, KeyInv, ChainInv, DistinctInv, HeardInv, Older, Enrolled
<1> QED
  BY <1>1, <1>2 DEF CredInv

LEMMA QuietReplay ==
  ASSUME ChannelTypeOK, ReplayInv, UNCHANGED <<last, seen, delivered>>, now' \in Nat, now <= now'
  PROVE  ReplayInv'
<1>1. SequenceInv'
  <2>1. \A i \in Identity : \A m \in DOMAIN delivered[i] : delivered[i][m].at <= now'
    <3> SUFFICES ASSUME NEW i \in Identity, NEW m \in DOMAIN delivered[i] PROVE delivered[i][m].at <= now'
      OBVIOUS
    <3>1. delivered[i][m] \in AcceptedReport
      BY DEF ChannelTypeOK
    <3> QED
      BY <3>1, ChannelAssumption DEF AcceptedReport, ReplayInv, SequenceInv, ChannelTypeOK
  <2> QED
    BY <2>1 DEF ReplayInv, SequenceInv
<1>2. NonceInv'
  <2>1. \A i \in Identity : \A m \in DOMAIN delivered[i] :
          delivered[i][m].expires < now => delivered[i][m].expires < now'
    <3> SUFFICES ASSUME NEW i \in Identity, NEW m \in DOMAIN delivered[i]
                 PROVE  delivered[i][m].expires < now => delivered[i][m].expires < now'
      OBVIOUS
    <3>1. delivered[i][m] \in AcceptedReport
      BY DEF ChannelTypeOK
    <3> QED
      BY <3>1, ChannelAssumption DEF AcceptedReport, ChannelTypeOK
  <2> QED
    BY <2>1 DEF ReplayInv, NonceInv
<1> QED
  BY <1>1, <1>2 DEF ReplayInv, DeliveredOnceInOrder

LEMMA NextIInv == IInv /\ ChannelTypeOK' /\ [Next]_vars => IInv'
<1> SUFFICES ASSUME IInv, ChannelTypeOK', [Next]_vars PROVE CredInv' /\ HeardInv' /\ ReplayInv'
  BY DEF IInv, CredInv, ReplayInv
<1>0. CredInv /\ HeardInv /\ ReplayInv /\ ChannelTypeOK
  BY DEF IInv, CredInv, ReplayInv
<1>t. now \in Nat /\ now' \in Nat
  BY <1>0, ChannelAssumption DEF ChannelTypeOK
<1>1. CASE UNCHANGED vars
  <2>1. CredInv' /\ HeardInv'
    BY <1>0, <1>1 DEF vars, CredInv, KeyInv, TokenInv, ChainInv, DistinctInv, HeardInv, Older, Enrolled
  <2> QED
    BY <2>1, <1>0, <1>1, <1>t, QuietReplay DEF vars
<1>2. CASE Tick
  <2>1. \A t \in Token : tokens[t].status # "unissued" => tokens[t].host \in Host
    BY <1>0 DEF CredInv, TokenInv
  <2>2. CredInv' /\ HeardInv'
    BY <2>1, <1>0, <1>2, QuietCred DEF Tick
  <2>3. ReplayInv'
    BY <1>0, <1>2, <1>t, QuietReplay DEF Tick
  <2> QED
    BY <2>2, <2>3
<1>3. ASSUME NEW at \in Instant, NEW t \in Token, NEW h \in Host, issue_token(t, h, at)
      PROVE  CredInv' /\ HeardInv' /\ ReplayInv'
  <2>1. /\ tokens'[t].status = "outstanding" /\ tokens'[t].host = h /\ tokens[t].status = "unissued"
        /\ \A u \in Token : u # t => tokens'[u] = tokens[u]
    BY <1>0, <1>3 DEF issue_token, ChannelTypeOK
  <2>2. \A u \in Token : /\ tokens'[u].status = "consumed" <=> tokens[u].status = "consumed"
                         /\ tokens[u].status = "consumed" => tokens'[u].host = tokens[u].host
                         /\ tokens'[u].status # "unissued" => tokens'[u].host \in Host
    BY <2>1, <1>0 DEF CredInv, TokenInv
  <2>3. CredInv' /\ HeardInv'
    BY <2>2, <1>0, <1>3, QuietCred DEF issue_token
  <2>4. ReplayInv'
    BY <1>0, <1>3, <1>t, QuietReplay DEF issue_token
  <2> QED
    BY <2>3, <2>4
<1>4. ASSUME NEW at \in Instant, NEW t \in Token, NEW k \in Key, enroll(t, k, at)
      PROVE  CredInv' /\ HeardInv' /\ ReplayInv'
  <2>1. CredInv' /\ \A i, j \in Identity : Older(i, j)' =>
          Older(i, j) /\ credentials'[j] = credentials[j]
    BY <1>0, <1>4, EnrollStep
  <2>2. HeardInv'
    BY <2>1, <1>0, <1>4 DEF HeardInv, enroll
  <2>3. ReplayInv'
    BY <1>0, <1>4, <1>t, QuietReplay DEF enroll
  <2> QED
    BY <2>1, <2>2, <2>3
<1>5. ASSUME NEW at \in Instant, NEW h \in Host, NEW k \in Key, NEW new \in Key, rotate(h, k, new, at)
      PROVE  CredInv' /\ HeardInv' /\ ReplayInv'
  <2> DEFINE o == <<h, k>>
  <2>1. /\ CredInv'
        /\ \A i, j \in Identity : Older(i, j)' =>
             \/ Older(i, j) /\ credentials'[j].issued = credentials[j].issued
             \/ credentials'[j].issued = at /\ (i = o \/ Older(i, o))
        /\ credentials[o].issued <= at
    BY <1>0, <1>5, RotateStep
  <2>2. HeardInv'
    <3> SUFFICES ASSUME NEW i \in Identity, NEW j \in Identity, Older(i, j)', NEW m \in DOMAIN delivered[i]
                 PROVE  delivered[i][m].at <= credentials'[j].issued + Overlap + Lag
      BY <1>5 DEF HeardInv, rotate
    <3>1. delivered[i][m] \in AcceptedReport /\ delivered[i][m].at <= now
      BY <1>0 DEF ChannelTypeOK, ReplayInv, SequenceInv
    <3>2. delivered[i][m].at \in Nat
      BY <3>1 DEF AcceptedReport
    <3>3. o \in Identity /\ credentials[o].issued \in Nat
      BY <1>0 DEF Identity, ChannelTypeOK, HostCredential
    <3>4. at \in Nat /\ now <= at + Lag /\ Overlap \in Nat /\ Lag \in Nat
      BY <1>0, InstantType, ChannelAssumption
    <3>5. CASE Older(i, j) /\ credentials'[j].issued = credentials[j].issued
      BY <3>5, <1>0 DEF HeardInv
    <3>6. CASE credentials'[j].issued = at /\ i = o
      BY <3>1, <3>2, <3>4, <3>6, <1>t
    <3>7. CASE credentials'[j].issued = at /\ Older(i, o)
      <4>1. delivered[i][m].at <= credentials[o].issued + Overlap + Lag
        BY <3>3, <3>7, <1>0 DEF HeardInv
      <4> QED
        BY <4>1, <2>1, <3>2, <3>3, <3>4, <3>7
    <3> QED
      BY <2>1, <3>5, <3>6, <3>7
  <2>3. ReplayInv'
    BY <1>0, <1>5, <1>t, QuietReplay DEF rotate
  <2> QED
    BY <2>1, <2>2, <2>3
<1>6. ASSUME NEW at \in Instant, NEW h \in Host, NEW k \in Key, revoke(h, k, at)
      PROVE  CredInv' /\ HeardInv' /\ ReplayInv'
  <2>1. CredInv' /\ \A i, j \in Identity : Older(i, j)' =>
          Older(i, j) /\ credentials'[j].issued = credentials[j].issued
    BY <1>0, <1>6, RevokeStep
  <2>2. HeardInv'
    BY <2>1, <1>0, <1>6 DEF HeardInv, revoke
  <2>3. ReplayInv'
    BY <1>0, <1>6, <1>t, QuietReplay DEF revoke
  <2> QED
    BY <2>1, <2>2, <2>3
<1>7. ASSUME NEW at \in Instant, NEW e \in ChannelEnvelope, accept(e, at)
      PROVE  CredInv' /\ HeardInv' /\ ReplayInv'
  <2> DEFINE n == <<e.host, e.key>>
             d == delivered[n]
             r == [sequence |-> e.sequence, nonce |-> e.nonce,
                   expires |-> Expires(e), at |-> now]
  <2>1. ReplayInv'
    BY <1>0, <1>7, AcceptStep
  <2>2. UNCHANGED <<now, tokens, credentials, holder>>
    BY <1>7 DEF accept
  <2>3. CredInv'
    BY <2>2, <1>0 DEF CredInv, KeyInv, TokenInv, ChainInv, DistinctInv, Older, Enrolled
  <2>4. n \in Identity
    BY DEF ChannelEnvelope, Identity
  <2>5. delivered'[n] = Append(d, r) /\ \A i \in Identity : i # n => delivered'[i] = delivered[i]
    BY <1>0, <1>7, <2>4 DEF accept, ChannelTypeOK
  <2>6. d \in Seq(AcceptedReport) /\ r \in AcceptedReport
    <3>1. d \in Seq(AcceptedReport)
      BY <1>0, <2>4 DEF ChannelTypeOK
    <3>2. r \in AcceptedReport
      BY <1>t, ExpiresType DEF AcceptedReport, ChannelEnvelope
    <3> QED
      BY <3>1, <3>2
  <2>7. r.at = now
    OBVIOUS
  <2>8. \A m \in DOMAIN delivered'[n] : delivered'[n][m].at = now \/ (m \in DOMAIN d /\ delivered'[n][m] = d[m])
    <3>1. /\ DOMAIN delivered'[n] = 1..(Len(d) + 1) /\ DOMAIN d = 1..Len(d) /\ Len(d) \in Nat
          /\ delivered'[n][Len(d) + 1] = r
          /\ \A m \in DOMAIN d : delivered'[n][m] = d[m]
      <4> HIDE DEF n, d, r
      <4> QED
        BY <2>5, <2>6, Appended
    <3>2. \A m \in DOMAIN delivered'[n] : m = Len(d) + 1 \/ m \in DOMAIN d
      BY <3>1
    <3> HIDE DEF n, d, r
    <3> QED
      BY <3>1, <3>2, <2>7
  <2>9. \A j \in Identity : Older(n, j) => now <= credentials[j].issued + Overlap + Lag
    <3> SUFFICES ASSUME NEW j \in Identity, Older(n, j) PROVE now <= credentials[j].issued + Overlap + Lag
      OBVIOUS
    <3>1. usable_at(credentials[n], at)
      BY <1>7 DEF accept, Checked
    <3>2. credentials[n].status = "retiring" /\ credentials[n].retires <= credentials[j].issued + Overlap
      BY <3>1, <2>4, <1>0 DEF CredInv, ChainInv, usable_at
    <3>3. at <= credentials[n].retires
      BY <3>1, <3>2 DEF usable_at
    <3>4. credentials[n].retires \in Nat /\ credentials[j].issued \in Nat
      BY <2>4, <1>0 DEF ChannelTypeOK, HostCredential
    <3>5. at \in Nat /\ now <= at + Lag /\ Overlap \in Nat /\ Lag \in Nat
      BY <1>0, InstantType, ChannelAssumption
    <3> QED
      BY <3>2, <3>3, <3>4, <3>5, <1>t
  <2>10. HeardInv'
    <3> SUFFICES ASSUME NEW i \in Identity, NEW j \in Identity, Older(i, j), NEW m \in DOMAIN delivered'[i]
                 PROVE  delivered'[i][m].at <= credentials[j].issued + Overlap + Lag
      BY <2>2 DEF HeardInv, Older, Enrolled
    <3>1. CASE i # n
      BY <3>1, <2>5, <1>0 DEF HeardInv
    <3>2. CASE i = n
      <4>1. CASE delivered'[n][m].at = now
        BY <4>1, <3>2, <2>9
      <4>2. CASE m \in DOMAIN d /\ delivered'[n][m] = d[m]
        BY <4>2, <3>2, <2>4, <1>0 DEF HeardInv
      <4> QED
        BY <4>1, <4>2, <3>2, <2>8
    <3> QED
      BY <3>1, <3>2
  <2> QED
    BY <2>1, <2>3, <2>10
<1>8. ASSUME NEW at \in Instant, NEW e \in ChannelEnvelope, RefuseNonce(e, at)
      PROVE  CredInv' /\ HeardInv' /\ ReplayInv'
  <2>1. ReplayInv'
    BY <1>0, <1>8, RefuseStep
  <2>2. CredInv' /\ HeardInv'
    BY <1>0, <1>8 DEF RefuseNonce, CredInv, KeyInv, TokenInv, ChainInv, DistinctInv, HeardInv, Older, Enrolled
  <2> QED
    BY <2>1, <2>2
<1> QED
  BY <1>1, <1>2, <1>3, <1>4, <1>5, <1>6, <1>7, <1>8 DEF Next

\* The invariant that carries the results below.
THEOREM ChannelInvariant == ChannelSpec => []IInv
<1>1. ChannelSpec => []ChannelTypeOK
  BY ChannelTypes
<1>2. IInv /\ ChannelTypeOK' /\ [Next]_vars => IInv'
  BY NextIInv
<1>3. Init => IInv
  BY InitIInv
<1> QED
  BY <1>1, <1>2, <1>3, PTL DEF ChannelSpec

-----------------------------------------------------------------------------
(* The results *)

\* A report is delivered at most once, in its host's order, and a nonce comes
\* back only after its report expired, whatever the wire and the callers'
\* clocks do (accept).
THEOREM DeliveryIsOnceInOrder == ChannelSpec => []DeliveredOnceInOrder
<1>1. IInv => DeliveredOnceInOrder
  BY DEF IInv
<1> QED
  BY <1>1, ChannelInvariant, PTL

\* A public key speaks for one host forever (enroll, rotate, revoke).
THEOREM KeysNameOneHost == ChannelSpec => []KeyNamesOneHost
<1>1. IInv => KeyNamesOneHost
  <2> SUFFICES ASSUME KeyInv, NEW g \in Host, NEW h \in Host, NEW k \in Key,
                      Enrolled(<<g, k>>), Enrolled(<<h, k>>)
               PROVE  g = h
    BY DEF IInv, KeyNamesOneHost
  <2> QED
    BY DEF KeyInv, Identity
<1> QED
  BY <1>1, ChannelInvariant, PTL

\* One redemption gives one active key at a time (enroll, rotate).
THEOREM TokensNameOneKey == ChannelSpec => []OneKeyPerToken
<1>1. IInv => OneKeyPerToken
  <2> SUFFICES ASSUME IInv, NEW i \in Identity, NEW j \in Identity, Enrolled(i), Enrolled(j),
                      credentials[i].token = credentials[j].token, i # j
               PROVE  i[1] = j[1] /\ ~(credentials[i].status = "active" /\ credentials[j].status = "active")
    BY DEF OneKeyPerToken
  <2>1. i[1] = j[1]
    BY DEF IInv, TokenInv
  <2>2. ~(credentials[i].status = "active" /\ credentials[j].status = "active")
    <3>1. ChannelTypeOK /\ CredInv
      BY DEF IInv, CredInv
    <3>2. ASSUME credentials[i].status = "active", credentials[j].status = "active" PROVE FALSE
      <4>1. Older(j, i)
        BY <3>1, <3>2, ActiveIsNewest
      <4> QED
        BY <3>1, <3>2, <4>1 DEF CredInv, ChainInv
    <3> QED
      BY <3>2
  <2> QED
    BY <2>1, <2>2
<1> QED
  BY <1>1, ChannelInvariant, PTL

\* A rotated key is heard for the overlap only (rotate, usable_at).
THEOREM OverlapBounded == ChannelSpec => []OverlapIsBounded
<1>1. IInv => OverlapIsBounded
  BY DEF IInv, HeardInv, Older, OverlapIsBounded
<1> QED
  BY <1>1, ChannelInvariant, PTL

\* Whatever is enrolled, rotated and revoked: one host per key, one active key
\* per token, and silence after the overlap (enroll, rotate, usable_at).
THEOREM CredentialsSound == ChannelSpec => []CredentialsAreSound
<1>1. KeyNamesOneHost /\ OneKeyPerToken /\ OverlapIsBounded => CredentialsAreSound
  BY DEF CredentialsAreSound
<1> QED
  BY <1>1, KeysNameOneHost, TokensNameOneKey, OverlapBounded, PTL

\* Refused and forged reports burn no sequence number and no nonce (accept).
THEOREM RefusalsAreFree == ChannelSpec => []RefusalsBurnNothing
<1>1. IInv => RefusalsBurnNothing
  <2> SUFFICES ASSUME IInv, NEW e \in ChannelEnvelope, e.genuine,
                      credentials[<<e.host, e.key>>].status # "absent",
                      usable_at(credentials[<<e.host, e.key>>], now),
                      now < Expires(e), now >= e.issued - Skew,
                      \A m \in DOMAIN delivered[<<e.host, e.key>>] :
                        /\ delivered[<<e.host, e.key>>][m].sequence < e.sequence
                        /\ delivered[<<e.host, e.key>>][m].nonce # e.nonce
               PROVE  Checked(e, now) /\ Pruned(<<e.host, e.key>>, now)[e.nonce] = 0
    BY DEF RefusalsBurnNothing
  <2> DEFINE i == <<e.host, e.key>>
  <2>1. i \in Identity /\ e.nonce \in Nonce /\ e.sequence \in 1..MaxSequence
    BY DEF ChannelEnvelope, Identity
  <2>2. last[i] = 0 \/ last[i] < e.sequence
    BY <2>1 DEF IInv, SequenceInv
  <2>3. Fresh(e)
    BY <2>1, <2>2, ChannelAssumption DEF Fresh
  <2>4. seen[i][e.nonce] = 0
    BY <2>1 DEF IInv, NonceInv
  <2>5. Pruned(i, now)[e.nonce] = 0
    BY <2>1, <2>4 DEF Pruned
  <2> QED
    BY <2>3, <2>5 DEF Checked, Enrolled
<1> QED
  BY <1>1, ChannelInvariant, PTL

\* A revoked key stays revoked, stays its host's, and is never heard again.
THEOREM RevocationFinal == ChannelSpec => RevocationIsFinal
<1>1. IInv /\ [Next]_vars => [\A i \in Identity : credentials[i].status = "revoked" =>
                                 /\ credentials'[i].status = "revoked"
                                 /\ holder'[i[2]] = i[1]
                                 /\ delivered'[i] = delivered[i]]_vars
  <2> SUFFICES ASSUME IInv, Next, NEW i \in Identity, credentials[i].status = "revoked"
               PROVE  /\ credentials'[i].status = "revoked"
                      /\ holder'[i[2]] = i[1]
                      /\ delivered'[i] = delivered[i]
    OBVIOUS
  <2>0. ChannelTypeOK /\ CredInv /\ KeyInv /\ TokenInv
    BY DEF IInv, CredInv
  <2>1. Enrolled(i) /\ holder[i[2]] = i[1] /\ i[1] \in Host /\ i[2] \in Key /\ i = <<i[1], i[2]>>
    BY <2>0 DEF KeyInv, Enrolled, Identity
  <2>2. holder[i[2]] # Nobody
    BY <2>1, ChannelAssumption
  <2>3. CASE Tick
    BY <2>1, <2>3 DEF Tick
  <2>4. ASSUME NEW at \in Instant, NEW t \in Token, NEW h \in Host, issue_token(t, h, at)
        PROVE  credentials' = credentials /\ holder' = holder /\ delivered' = delivered
    BY <2>4 DEF issue_token
  <2>5. ASSUME NEW at \in Instant, NEW t \in Token, NEW k \in Key, enroll(t, k, at)
        PROVE  credentials'[i] = credentials[i] /\ holder'[i[2]] = holder[i[2]] /\ delivered' = delivered
    <3>1. k # i[2]
      BY <2>2, <2>5 DEF enroll
    <3>2. i # <<tokens[t].host, k>>
      BY <3>1, <2>1
    <3> QED
      BY <3>1, <3>2, <2>0, <2>1, <2>5 DEF enroll, ChannelTypeOK
  <2>6. ASSUME NEW at \in Instant, NEW h \in Host, NEW k \in Key, NEW new \in Key, rotate(h, k, new, at)
        PROVE  credentials'[i] = credentials[i] /\ holder'[i[2]] = holder[i[2]] /\ delivered' = delivered
    <3>1. new # i[2]
      BY <2>2, <2>6 DEF rotate
    <3>2. i # <<h, new>> /\ i # <<h, k>>
      BY <3>1, <2>1, <2>6 DEF rotate
    <3> QED
      BY <3>1, <3>2, <2>0, <2>1, <2>6 DEF rotate, ChannelTypeOK
  <2>7. ASSUME NEW at \in Instant, NEW h \in Host, NEW k \in Key, revoke(h, k, at)
        PROVE  credentials'[i] = credentials[i] /\ holder' = holder /\ delivered' = delivered
    <3>1. i # <<h, k>>
      BY <2>7 DEF revoke
    <3> QED
      BY <3>1, <2>0, <2>7 DEF revoke, ChannelTypeOK
  <2>8. ASSUME NEW at \in Instant, NEW e \in ChannelEnvelope, accept(e, at)
        PROVE  credentials' = credentials /\ holder' = holder /\ delivered'[i] = delivered[i]
    <3>1. i # <<e.host, e.key>>
      BY <2>8 DEF accept, Checked, usable_at
    <3> QED
      BY <3>1, <2>0, <2>8 DEF accept, ChannelTypeOK
  <2>9. ASSUME NEW at \in Instant, NEW e \in ChannelEnvelope, RefuseNonce(e, at)
        PROVE  credentials' = credentials /\ holder' = holder /\ delivered' = delivered
    BY <2>9 DEF RefuseNonce
  <2> QED
    BY <2>1, <2>3, <2>4, <2>5, <2>6, <2>7, <2>8, <2>9 DEF Next
<1>2. [Next]_vars /\ IInv => [\A i \in Identity : credentials[i].status = "revoked" =>
                                 /\ credentials'[i].status = "revoked"
                                 /\ holder'[i[2]] = i[1]
                                 /\ delivered'[i] = delivered[i]]_vars
  BY <1>1
<1> QED
  BY <1>2, ChannelInvariant, PTL DEF ChannelSpec, RevocationIsFinal
=============================================================================
