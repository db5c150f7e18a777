--------------------------- MODULE Tokens_proofs ---------------------------
(***************************************************************************)
(* Proofs about the tokens.  However the calls interleave, a spent token   *)
(* is not taken up again and the tokens of a reservation do not multiply;  *)
(* when one call runs at a time, what a token says stays true of its       *)
(* reservation.                                                            *)
(***************************************************************************)
EXTENDS Serial_proofs

LEMMA KeyTypes ==
  ASSUME Inv
  PROVE  /\ now \in Nat
         /\ rows \in [Ids -> Row \cup {NoRow}]
         /\ tokens \in [TokenIds -> Token \cup {NoToken}]
         /\ acc \in [Doors -> AccCall]
         /\ granted \in [TokenIds -> Nat]
         /\ {TokenLead, TokenLife, UpdateLead, CancelLead} \subseteq Nat
BY WindowAssumption DEF Inv, TypeInv, TypeOK, ResTypeOK, StoreTypeOK, AccTypeOK

-----------------------------------------------------------------------------
(* What has opened the door is marked used in the table, and who is to mark *)
(* a token does so whatever he has read: no save takes the mark back.       *)
Spent(t) == t # NoToken /\ t.used = TRUE

SpentInv ==
  /\ \A k \in TokenIds : granted[k] >= 1 => Spent(tokens[k])
  /\ \A d \in Doors :
       /\ acc[d].pc \in {"load", "write"} => acc[d].mem.used = TRUE
       /\ acc[d].pc = "write" /\ acc[d].seen.used = TRUE => Spent(tokens[acc[d].tok])

LEMMA SpentInit == Init => SpentInv
BY DEF Init, ResInit, StoreInit, AccInit, AccIdle, SpentInv

\* A token is spent, or it stays as it is.
SpentOrSame(k) ==
  \/ tokens'[k] = tokens[k]
  \/ tokens[k] \in Token /\ Spent(tokens'[k]) /\ tokens'[k].res = tokens[k].res

\* All that the requests, the cron handlers and the clock do to the tokens.
LEMMA OthersSpend ==
  ASSUME Inv, [Next]_vars, ~Entry
  PROVE  UNCHANGED <<acc, granted>> /\ \A k \in TokenIds : SpentOrSame(k)
<1>1. CASE Request
  <2> PICK p \in Requests : ResBegin(p) \/ ResStep(p)
    BY <1>1 DEF Request
  <2>1. CASE CancelTokens(p)
    <3> SUFFICES ASSUME NEW k \in TokenIds PROVE SpentOrSame(k)
      BY <1>1 DEF Request
    <3>1. CASE k \in UnusedTokens(req[p].id)
      <4>1. tokens[k] \in Token /\ tokens'[k] = [tokens[k] EXCEPT !.used = TRUE]
        BY <2>1, <3>1, KeyTypes DEF CancelTokens, UnusedTokens, AccessRecords
      <4>2. /\ tokens'[k] \in Token /\ tokens'[k].used = TRUE
            /\ tokens'[k].res = tokens[k].res
        BY <4>1 DEF Token
      <4> QED BY <4>1, <4>2, NoTokenAssumption DEF SpentOrSame, Spent
    <3>2. CASE k \notin UnusedTokens(req[p].id)
      BY <2>1, <3>2 DEF CancelTokens, SpentOrSame
    <3> QED BY <3>1, <3>2
  <2>2. CASE ~CancelTokens(p)
    <3>1. UNCHANGED tokens
      BY <2>2, ZenonT(40) DEF ResBegin, ResStep, CreateBegin, UpdateTimes, UpdateDetails,
         CancelBegin, ConfirmBegin, Begin, CreateCheck, CreateInsert, UpdateCheck, Goto,
         Reject, SaveLoad, SaveWrite, Abort, store
    <3> QED BY <1>1, <3>1 DEF Request, SpentOrSame
  <2> QED BY <2>1, <2>2
<1>2. CASE Cron
  <2>1. UNCHANGED tokens
    BY <1>2 DEF Cron, JobNew, JobStep, JobDecide, NoShowScan, CompletionScan, Scan,
       NoShowMark, NoShowSkip, CompletionMark, Mark, JobLoad, JobWrite, JobAbort, store
  <2> QED BY <1>2, <2>1 DEF Cron, SpentOrSame
<1>3. CASE Time \/ UNCHANGED vars
  BY <1>3 DEF Time, Clock, Tick, vars, store, SpentOrSame
<1> QED BY <1>1, <1>2, <1>3 DEF Next

\* A call of AccessService goes on, but in the write of VerifyWrite and in
\* GenerateInsert, without touching the tables.
LEMMA VerifySpends ==
  ASSUME Inv, SpentInv, NEW d \in Doors, VerifyWrite(d)
  PROVE  LET k == acc[d].tok
         IN  /\ k \in TokenIds
             /\ Spent(tokens'[k]) /\ SpentOrSame(k)
             /\ \A l \in TokenIds \ {k} : tokens'[l] = tokens[l] /\ granted'[l] = granted[l]
<1> DEFINE k == acc[d].tok
           m == acc[d].mem
           t == MergeToken(tokens[k], m, acc[d].seen)
<1>1. /\ acc[d].pc = "write" /\ k \in TokenIds /\ tokens[k] \in Token
      /\ m \in Token /\ acc[d].seen \in Token /\ m.used = TRUE
      /\ acc[d].seen.used = TRUE => Spent(tokens[k])
  BY DEF VerifyWrite, SpentInv, Inv, TypeInv, EntriesHold
<1>2. t \in Token /\ t.res = tokens[k].res
  BY <1>1, MergeTokenType DEF MergeToken
<1>3. t.used = TRUE
  <2>1. CASE acc[d].seen.used = TRUE
    BY <1>1, <2>1 DEF MergeToken, Column, Spent
  <2>2. CASE acc[d].seen.used # TRUE
    BY <1>1, <2>2 DEF MergeToken, Column
  <2> QED BY <2>1, <2>2
<1>4. /\ tokens'[k] = t
      /\ \A l \in TokenIds \ {k} : tokens'[l] = tokens[l] /\ granted'[l] = granted[l]
  BY <1>1, KeyTypes DEF VerifyWrite
<1> HIDE DEF k, t
<1>5. Spent(tokens'[k]) /\ SpentOrSame(k)
  BY <1>1, <1>2, <1>3, <1>4, NoTokenAssumption DEF Spent, SpentOrSame
<1> QED BY <1>1, <1>4, <1>5 DEF k

LEMMA SpentEntry ==
  ASSUME Inv, SpentInv, NEW d \in Doors, AccNew(d) \/ AccStep(d)
  PROVE  SpentInv'
<1>0. acc \in [Doors -> AccCall] /\ EntriesHold
  BY KeyTypes DEF Inv, TypeInv
<1>1. ASSUME NEW c, acc' = [acc EXCEPT ![d] = c], UNCHANGED <<tokens, granted>>,
             c.pc \in {"load", "write"} => c.mem.used = TRUE,
             c.pc = "write" /\ c.seen.used = TRUE => Spent(tokens[c.tok])
      PROVE  SpentInv'
  <2>1. acc'[d] = c /\ \A e \in Doors \ {d} : acc'[e] = acc[e]
    BY <1>0, <1>1
  <2>2. ASSUME NEW e \in Doors
        PROVE  /\ acc'[e].pc \in {"load", "write"} => acc'[e].mem.used = TRUE
               /\ acc'[e].pc = "write" /\ acc'[e].seen.used = TRUE
                    => Spent(tokens'[acc'[e].tok])
    BY <1>1, <2>1 DEF SpentInv
  <2>3. \A k \in TokenIds : granted'[k] >= 1 => Spent(tokens'[k])
    BY <1>1 DEF SpentInv
  <2> QED BY <2>2, <2>3 DEF SpentInv, Spent
\* The call is over and the tokens written with it were not spent before.
<1>2. ASSUME NEW k \in TokenIds, acc' = [acc EXCEPT ![d] = AccIdle],
             \A l \in TokenIds \ {k} : tokens'[l] = tokens[l] /\ granted'[l] = granted[l],
             \/ Spent(tokens'[k])
             \/ tokens[k] = NoToken /\ granted'[k] = granted[k]
      PROVE  SpentInv'
  <2>1. acc'[d] = AccIdle /\ \A e \in Doors \ {d} : acc'[e] = acc[e]
    BY <1>0, <1>2
  <2>2. \A l \in TokenIds : granted'[l] >= 1 => Spent(tokens'[l])
    BY <1>2 DEF SpentInv, Spent
  <2>3. ASSUME NEW e \in Doors
        PROVE  /\ acc'[e].pc \in {"load", "write"} => acc'[e].mem.used = TRUE
               /\ acc'[e].pc = "write" /\ acc'[e].seen.used = TRUE
                    => Spent(tokens'[acc'[e].tok])
    <3>1. CASE e = d
      BY <2>1, <3>1 DEF AccIdle
    <3>2. CASE e # d
      <4>1. acc[e].pc = "write" => acc[e].tok \in TokenIds /\ tokens[acc[e].tok] \in Token
        BY <1>0 DEF EntriesHold
      <4> QED BY <1>2, <2>1, <3>2, <4>1, NoTokenAssumption DEF SpentInv
    <3> QED BY <3>1, <3>2
  <2> QED BY <2>2, <2>3 DEF SpentInv, Spent
<1>3. CASE \E i \in Ids, u \in Users : GenerateBegin(d, u, i)
  <2> PICK i \in Ids, u \in Users : GenerateBegin(d, u, i)
    BY <1>3
  <2> DEFINE c == [pc |-> "lookup", tok |-> NoId,
                   mem |-> [res |-> i, expires |-> rows[i].start + TokenLife,
                            used |-> FALSE, time |-> NoTime],
                   seen |-> NoToken]
  <2>1. c.pc = "lookup" /\ acc' = [acc EXCEPT ![d] = c] /\ UNCHANGED <<tokens, granted>>
    BY DEF GenerateBegin, AccBegin, store
  <2> HIDE DEF c
  <2> QED BY <1>1, <2>1
<1>4. CASE \E k \in TokenIds : VerifyBegin(d, k)
  <2> PICK k \in TokenIds : VerifyBegin(d, k)
    BY <1>4
  <2> DEFINE m == [tokens[k] EXCEPT !.used = TRUE, !.time = now]
             c == [pc |-> "load", tok |-> k, mem |-> m, seen |-> NoToken]
  <2>1. /\ UNCHANGED <<tokens, granted>> /\ acc' = [acc EXCEPT ![d] = c]
        /\ tokens[k] \in Token
    BY KeyTypes DEF VerifyBegin, AccBegin, store
  <2>2. m.used = TRUE
    BY <2>1 DEF Token
  <2>3. c.pc = "load" /\ c.mem = m
    OBVIOUS
  <2> HIDE DEF c, m
  <2> QED BY <1>1, <2>1, <2>2, <2>3
<1>5. CASE GenerateReuse(d) \/ AccAbort(d)
  <2>1. UNCHANGED <<tokens, granted>> /\ acc' = [acc EXCEPT ![d] = AccIdle]
    BY <1>5 DEF GenerateReuse, AccAbort, AccDone, store
  <2>2. AccIdle.pc = "idle"
    BY DEF AccIdle
  <2> QED BY <1>1, <2>1, <2>2
<1>6. CASE GenerateNew(d)
  <2> DEFINE c == [acc[d] EXCEPT !.pc = "insert"]
  <2>1. UNCHANGED <<tokens, granted>> /\ acc' = [acc EXCEPT ![d] = c] /\ c.pc = "insert"
    BY <1>0, <1>6 DEF GenerateNew, store, AccCall
  <2> HIDE DEF c
  <2> QED BY <1>1, <2>1
<1>7. CASE VerifyLoad(d)
  <2> DEFINE c == [acc[d] EXCEPT !.pc = "write", !.seen = tokens[acc[d].tok]]
  <2>1. /\ UNCHANGED <<tokens, granted>> /\ acc' = [acc EXCEPT ![d] = c]
        /\ acc[d].pc = "load" /\ tokens[acc[d].tok] \in Token
        /\ c.pc = "write" /\ c.tok = acc[d].tok /\ c.mem = acc[d].mem
        /\ c.seen = tokens[acc[d].tok]
    BY <1>0, <1>7 DEF VerifyLoad, store, AccCall, EntriesHold
  <2> HIDE DEF c
  <2>2. c.mem.used = TRUE
    BY <2>1 DEF SpentInv
  <2>3. c.seen.used = TRUE => Spent(tokens[c.tok])
    BY <2>1, NoTokenAssumption DEF Spent
  <2> QED BY <1>1, <2>1, <2>2, <2>3
<1>8. CASE \E k \in TokenIds : GenerateInsert(d, k)
  BY <1>0, <1>2, <1>8, KeyTypes DEF GenerateInsert, AccDone
<1>9. CASE VerifyWrite(d)
  <2>1. acc' = [acc EXCEPT ![d] = AccIdle]
    BY <1>9 DEF VerifyWrite, AccDone
  <2> QED BY <1>2, <1>9, <2>1, VerifySpends
<1> QED BY <1>3, <1>4, <1>5, <1>6, <1>7, <1>8, <1>9 DEF AccNew, AccStep

LEMMA SpentNext == Inv /\ SpentInv /\ [Next]_vars => SpentInv'
<1> SUFFICES ASSUME Inv, SpentInv, [Next]_vars PROVE SpentInv'
  OBVIOUS
<1>1. CASE Entry
  BY <1>1, SpentEntry DEF Entry
<1>2. CASE ~Entry
  <2>1. UNCHANGED <<acc, granted>> /\ \A k \in TokenIds : SpentOrSame(k)
    BY <1>2, OthersSpend
  <2>2. \A k \in TokenIds : Spent(tokens[k]) => Spent(tokens'[k])
    BY <2>1 DEF SpentOrSame
  <2>3. \A d \in Doors : acc[d].pc = "write" => acc[d].tok \in TokenIds
    BY DEF Inv, TypeInv, EntriesHold
  <2> QED BY <2>1, <2>2, <2>3 DEF SpentInv, Spent
<1> QED BY <1>1, <1>2

\* A device takes up a token only when it finds it unused.
LEMMA TakenUpUnused ==
  ASSUME Inv, SpentInv, [Next]_vars, NEW k \in TokenIds, NEW d \in Doors,
         granted[k] >= 1, acc'[d].tok = k
  PROVE  acc[d].tok = k
<1>0. acc \in [Doors -> AccCall] /\ Spent(tokens[k]) /\ NoId # k
  BY KeyTypes, StoreAssumption DEF SpentInv
<1>1. CASE Entry
  <2> PICK e \in Doors : AccNew(e) \/ AccStep(e)
    BY <1>1 DEF Entry
  <2>1. ASSUME d = e, AccStep(e) PROVE acc[d].tok = k
    BY <1>0, <2>1 DEF AccStep, GenerateReuse, GenerateNew, GenerateInsert, VerifyLoad,
       VerifyWrite, AccAbort, AccDone, AccIdle, AccCall
  <2>2. ASSUME d = e, AccNew(e) PROVE FALSE
    <3>1. PICK pc, l, m : AccBegin(d, pc, l, m) /\ (l # NoId => ~tokens[l].used)
      BY <2>2 DEF AccNew, GenerateBegin, VerifyBegin
    <3>2. acc'[d].tok = l
      BY <1>0, <3>1 DEF AccBegin
    <3> QED BY <1>0, <3>1, <3>2 DEF Spent
  <2>3. CASE d # e
    BY <1>0, <2>3 DEF AccNew, AccStep, GenerateBegin, VerifyBegin, AccBegin, GenerateReuse,
       GenerateNew, GenerateInsert, VerifyLoad, VerifyWrite, AccAbort, AccDone
  <2> QED BY <2>1, <2>2, <2>3
<1>2. CASE ~Entry
  BY <1>2, OthersSpend
<1> QED BY <1>1, <1>2

(* However many devices hold it, a token that has opened the door once is   *)
(* taken up by no further one.                                              *)
THEOREM SpentTokensStaySpent == Spec => SpentForGood
<1> DEFINE Step == \A k \in TokenIds, d \in Doors :
              granted[k] >= 1 /\ acc'[d].tok = k => acc[d].tok = k
<1>1. Inv /\ SpentInv /\ [Next]_vars => [Step]_vars
  BY TakenUpUnused
<1> QED BY <1>1, Invariance, SpentInit, SpentNext, PTL DEF Spec, SpentForGood

-----------------------------------------------------------------------------
\* Two finite sets that may only lose elements do not grow together.
LEMMA NoGrowth ==
  ASSUME NEW A, NEW B, IsFiniteSet(A), IsFiniteSet(B),
         NEW C \in SUBSET A, NEW D \in SUBSET B
  PROVE  Cardinality(C) + Cardinality(D) <= Cardinality(A) + Cardinality(B)
<1>1. IsFiniteSet(C) /\ Cardinality(C) <= Cardinality(A)
  BY FS_Subset
<1>2. IsFiniteSet(D) /\ Cardinality(D) <= Cardinality(B)
  BY FS_Subset
<1> QED BY <1>1, <1>2, FS_CardinalityType

\* Nor if the one gains an element as the other loses one.
LEMMA OneForAnother ==
  ASSUME NEW A, NEW B, IsFiniteSet(A), IsFiniteSet(B), NEW k, NEW d \in B,
         NEW C \in SUBSET (A \cup {k}), NEW D \in SUBSET (B \ {d})
  PROVE  Cardinality(C) + Cardinality(D) <= Cardinality(A) + Cardinality(B)
<1>1. /\ IsFiniteSet(A \cup {k})
      /\ Cardinality(A \cup {k}) <= Cardinality(A) + 1
  <2>1. IsFiniteSet(A \cup {k}) /\ Cardinality(A) \in Nat
    BY FS_AddElement, FS_CardinalityType
  <2>2. CASE k \in A
    <3>1. A \cup {k} = A
      BY <2>2
    <3> QED BY <2>1, <3>1
  <2>3. CASE k \notin A
    BY <2>1, <2>3, FS_AddElement
  <2> QED BY <2>2, <2>3
<1>2. /\ IsFiniteSet(B \ {d})
      /\ Cardinality(B \ {d}) = Cardinality(B) - 1
  BY FS_RemoveElement
<1>3. Cardinality(C) + Cardinality(D) <= Cardinality(A \cup {k}) + Cardinality(B \ {d})
  BY <1>1, <1>2, NoGrowth
<1>4. /\ Cardinality(A) \in Nat /\ Cardinality(B) \in Nat
      /\ Cardinality(A \cup {k}) \in Nat /\ Cardinality(B \ {d}) \in Nat
      /\ Cardinality(C) \in Nat /\ Cardinality(D) \in Nat
  <2>1. IsFiniteSet(C) /\ IsFiniteSet(D)
    BY <1>1, <1>2, FS_Subset
  <2> QED BY <1>1, <1>2, <2>1, FS_CardinalityType
<1> QED BY <1>1, <1>2, <1>3, <1>4

LEMMA TokensFewer ==
  ASSUME IsFiniteSet(TokenIds), IsFiniteSet(Doors),
         Inv, SpentInv, [Next]_vars, NEW i \in Ids,
         UnusedTokens(i) # {},
         \A k \in UnusedTokens(i) : now < tokens[k].expires
  PROVE  Cardinality(UnusedTokens(i)') + Cardinality(Making(i)')
           <= Cardinality(UnusedTokens(i)) + Cardinality(Making(i))
<1>0. /\ now \in Nat
      /\ tokens \in [TokenIds -> Token \cup {NoToken}]
      /\ acc \in [Doors -> AccCall] /\ EntriesHold
  BY KeyTypes DEF Inv, TypeInv
<1>1. IsFiniteSet(UnusedTokens(i)) /\ IsFiniteSet(Making(i))
  <2>1. UnusedTokens(i) \in SUBSET TokenIds /\ Making(i) \in SUBSET Doors
    BY DEF UnusedTokens, AccessRecords, Making
  <2> QED BY <2>1, FS_Subset
<1>2. SUFFICES \/ UnusedTokens(i)' \subseteq UnusedTokens(i) /\ Making(i)' \subseteq Making(i)
               \/ \E k, d : /\ d \in Making(i)
                            /\ UnusedTokens(i)' \subseteq UnusedTokens(i) \cup {k}
                            /\ Making(i)' \subseteq Making(i) \ {d}
  BY <1>1, NoGrowth, OneForAnother
<1>3. (\A k \in TokenIds : SpentOrSame(k)) => UnusedTokens(i)' \subseteq UnusedTokens(i)
  BY DEF SpentOrSame, Spent, UnusedTokens, AccessRecords
<1>4. CASE ~Entry
  <2>1. UNCHANGED acc /\ \A k \in TokenIds : SpentOrSame(k)
    BY <1>4, OthersSpend
  <2> QED BY <1>3, <2>1 DEF Making
<1>5. CASE Entry
  <2> PICK d \in Doors : AccNew(d) \/ AccStep(d)
    BY <1>5 DEF Entry
  <2>1. ASSUME NEW c, acc' = [acc EXCEPT ![d] = c],
               c.pc = "insert" => c.mem.res # i
        PROVE  Making(i)' \subseteq Making(i) \ {d}
    BY <1>0, <2>1 DEF Making
  <2>2. tokens' = tokens => UnusedTokens(i)' \subseteq UnusedTokens(i)
    BY <1>3 DEF SpentOrSame
  <2>3. CASE AccNew(d)
    <3>1. tokens' = tokens
      BY <2>3 DEF AccNew, GenerateBegin, VerifyBegin, AccBegin, store
    <3>2. /\ acc'[d].pc \in {"lookup", "load"}
          /\ \A e \in Doors \ {d} : acc'[e] = acc[e]
      <4>1. PICK pc \in {"lookup", "load"} : \E k, m : AccBegin(d, pc, k, m)
        BY <2>3 DEF AccNew, GenerateBegin, VerifyBegin
      <4> QED BY <1>0, <4>1 DEF AccBegin
    <3> QED BY <2>2, <3>1, <3>2 DEF Making
  <2>4. CASE GenerateReuse(d) \/ AccAbort(d)
    <3>1. tokens' = tokens /\ acc' = [acc EXCEPT ![d] = AccIdle]
      BY <2>4 DEF GenerateReuse, AccAbort, AccDone, store
    <3> QED BY <2>1, <2>2, <3>1 DEF AccIdle
  <2>5. CASE GenerateNew(d)
    <3> DEFINE c == [acc[d] EXCEPT !.pc = "insert"]
               m == acc[d].mem
    <3>1. /\ tokens' = tokens /\ acc' = [acc EXCEPT ![d] = c]
          /\ c.pc = "insert" /\ c.mem = m
      BY <1>0, <2>5 DEF GenerateNew, store, AccCall
    <3>2. m.res # i
      <4> SUFFICES ASSUME m.res = i PROVE FALSE
        OBVIOUS
      <4>1. \E k \in UnusedTokens(i) : now >= tokens[k].expires
        BY <2>5 DEF GenerateNew
      <4> QED BY <1>0, <4>1 DEF UnusedTokens, AccessRecords, Token
    <3> HIDE DEF c, m
    <3> QED BY <2>1, <2>2, <3>1, <3>2
  <2>6. CASE VerifyLoad(d)
    <3> DEFINE c == [acc[d] EXCEPT !.pc = "write", !.seen = tokens[acc[d].tok]]
    <3>1. tokens' = tokens /\ acc' = [acc EXCEPT ![d] = c] /\ c.pc = "write"
      BY <1>0, <2>6 DEF VerifyLoad, store, AccCall
    <3> HIDE DEF c
    <3> QED BY <2>1, <2>2, <3>1
  <2>7. CASE VerifyWrite(d)
    <3>1. \A k \in TokenIds : SpentOrSame(k)
      BY <2>7, VerifySpends DEF SpentOrSame
    <3>2. acc' = [acc EXCEPT ![d] = AccIdle]
      BY <2>7 DEF VerifyWrite, AccDone
    <3> QED BY <1>3, <2>1, <3>1, <3>2 DEF AccIdle
  <2>8. CASE \E k \in TokenIds : GenerateInsert(d, k)
    <3> PICK k \in TokenIds : GenerateInsert(d, k)
      BY <2>8
    <3> DEFINE m == acc[d].mem
    <3>1. /\ tokens'[k] = m /\ \A l \in TokenIds \ {k} : tokens'[l] = tokens[l]
          /\ acc' = [acc EXCEPT ![d] = AccIdle] /\ acc[d].pc = "insert"
      BY <1>0 DEF GenerateInsert, AccDone
    <3>2. Making(i)' \subseteq Making(i) \ {d}
      BY <2>1, <3>1 DEF AccIdle
    <3>3. UnusedTokens(i)' \subseteq UnusedTokens(i) \cup {k}
      BY <3>1 DEF UnusedTokens, AccessRecords
    <3>4. CASE m.res = i
      <4>1. d \in Making(i)
        BY <3>1, <3>4 DEF Making
      <4> QED BY <3>2, <3>3, <4>1
    <3>5. CASE m.res # i
      <4>1. UnusedTokens(i)' \subseteq UnusedTokens(i)
        BY <3>1, <3>5 DEF UnusedTokens, AccessRecords
      <4> QED BY <3>2, <4>1
    <3> QED BY <3>4, <3>5
  <2> QED BY <2>3, <2>4, <2>5, <2>6, <2>7, <2>8 DEF AccStep
<1> QED BY <1>4, <1>5

(* A reservation comes by a second living token only through a call that    *)
(* had looked for one before the first was there.                           *)
THEOREM TokensNeverMultiply ==
  ASSUME IsFiniteSet(TokenIds), IsFiniteSet(Doors)
  PROVE  Spec => TokensDoNotMultiply
<1> DEFINE Step == \A i \in Ids :
              UnusedTokens(i) # {} /\ (\A k \in UnusedTokens(i) : now < tokens[k].expires)
                => Cardinality(UnusedTokens(i)') + Cardinality(Making(i)')
                     <= Cardinality(UnusedTokens(i)) + Cardinality(Making(i))
<1>1. Inv /\ SpentInv /\ [Next]_vars => [Step]_vars
  BY TokensFewer
<1> QED BY <1>1, Invariance, SpentInit, SpentNext, PTL DEF Spec, TokensDoNotMultiply

-----------------------------------------------------------------------------
(* A token belongs to a reservation that was let in once and is not         *)
(* cancelled afterwards; it carries the time of its reservation's start.    *)
TokenSound(k) ==
  LET t == tokens[k]
  IN  t # NoToken =>
        /\ rows[t.res] # NoRow
        /\ rows[t.res].status # "CANCELLED"
        /\ rows[t.res].start - TokenLead <= now
        /\ t.expires = rows[t.res].start + TokenLife
        /\ t.used => t.time # NoTime

(* Whoever moves or cancels a reservation does so before there are tokens.  *)
RequestUnlocked(p) ==
  LET c == req[p]
  IN  /\ c.pc \in Saving
      /\ c.mem.start # rows[c.id].start \/ c.mem.status = "CANCELLED"
      => AccessRecords(c.id) = {}

(* What a call of AccessService has read is still so.                       *)
EntrySound(d) ==
  LET c == acc[d]
  IN  /\ c.pc \in {"lookup", "insert"} =>
           /\ rows[c.mem.res] # NoRow
           /\ rows[c.mem.res].status # "CANCELLED"
           /\ rows[c.mem.res].start - TokenLead <= now
           /\ c.mem.expires = rows[c.mem.res].start + TokenLife
           /\ ~c.mem.used
      /\ c.pc \in {"load", "write"} => c.mem.time # NoTime
      /\ c.pc = "write" => c.seen = tokens[c.tok]

Keys == /\ \A k \in TokenIds : TokenSound(k)
        /\ \A p \in Requests : RequestUnlocked(p)
        /\ \A d \in Doors : EntrySound(d)

LEMMA InitKeys == Init => Keys
BY DEF Init, ResInit, StoreInit, AccInit, Idle, AccIdle, Keys, TokenSound,
       RequestUnlocked, EntrySound, Saving

-----------------------------------------------------------------------------
\* Time may pass, but no table changes.
LEMMA QuietKeys ==
  ASSUME Inv, Keys, now' \in Nat, now <= now', UNCHANGED <<rows, tokens, acc>>,
         \A p \in Requests : RequestUnlocked(p)'
  PROVE  Keys'
<1>1. ASSUME NEW k \in TokenIds
      PROVE  TokenSound(k)'
  BY <1>1, KeyTypes DEF Keys, TokenSound, Row, Token
<1>2. ASSUME NEW d \in Doors
      PROVE  EntrySound(d)'
  <2>1. acc[d].pc \in {"lookup", "insert"} => acc[d].mem \in Token
    BY DEF Inv, TypeInv, EntriesHold
  <2> QED BY <2>1, KeyTypes DEF Keys, EntrySound, Row, Token
<1> QED BY <1>1, <1>2 DEF Keys

\* As long as a reservation can be moved or cancelled it has no token.
LEMMA NoTokenYet ==
  ASSUME Inv, Keys, NEW i \in Ids, rows[i] # NoRow,
         MayUpdate(rows[i], now) \/ MayCancel(rows[i], now)
  PROVE  AccessRecords(i) = {}
<1> SUFFICES ASSUME NEW k \in AccessRecords(i)
             PROVE  FALSE
  OBVIOUS
<1>1. rows[i].start - TokenLead <= now
  BY DEF AccessRecords, Keys, TokenSound
<1> QED BY <1>1, KeyTypes, WindowAssumption DEF MayUpdate, MayCancel, Row

\* Nor has one that is not stored.
LEMMA NoTokenWithoutRow ==
  ASSUME Keys, NEW i \in Ids, rows[i] = NoRow
  PROVE  AccessRecords(i) = {}
BY DEF Keys, TokenSound, AccessRecords

\* So cancelling finds no token to spend.
LEMMA CancelSpendsNothing ==
  ASSUME Inv, Keys, NEW p \in Requests, CancelTokens(p)
  PROVE  tokens' = tokens
<1>1. req[p].pc = "tokens" /\ req[p].mem.status = "CANCELLED"
  BY RequestTypes DEF CancelTokens, RequestFresh
<1>2. UnusedTokens(req[p].id) = {}
  BY <1>1 DEF Keys, RequestUnlocked, Saving, UnusedTokens
<1>3. tokens' = [k \in TokenIds |-> tokens[k]]
  BY <1>2 DEF CancelTokens
<1> QED BY <1>3, KeyTypes

-----------------------------------------------------------------------------
LEMMA BeginUnlocked ==
  ASSUME Inv, Keys, NEW p \in Requests, ResBegin(p)
  PROVE  RequestUnlocked(p)'
<1>0. /\ req \in [Requests -> Call] /\ rows \in [Ids -> Row \cup {NoRow}]
  BY RequestTypes
<1>1. CASE \E u \in Users, r \in Rooms, s \in Starts, e \in Ends, n \in Parties :
             CreateBegin(p, u, r, s, e, n)
  BY <1>0, <1>1 DEF CreateBegin, Begin, RequestUnlocked, Saving
<1>2. CASE \E i \in Ids : \E m : \E pc : /\ rows[i] # NoRow
                                         /\ MayUpdate(rows[i], now) \/ MayCancel(rows[i], now)
                                         /\ Begin(p, pc, i, m)
  BY <1>0, <1>2, NoTokenYet DEF Begin, RequestUnlocked, AccessRecords
<1>3. CASE \E i \in Ids : ConfirmBegin(p, i)
  <2> PICK i \in Ids : ConfirmBegin(p, i)
    BY <1>3
  <2>1. rows[i] \in Row
    BY <1>0 DEF ConfirmBegin
  <2>2. /\ req'[p].id = i /\ rows' = rows
        /\ req'[p].mem.start = rows[i].start /\ req'[p].mem.status = "CONFIRMED"
    BY <1>0, <2>1 DEF ConfirmBegin, Begin, Row
  <2> QED BY <2>2 DEF RequestUnlocked
<1>4. ResBegin(p) => \/ \E u \in Users, r \in Rooms, s \in Starts, e \in Ends, n \in Parties :
                          CreateBegin(p, u, r, s, e, n)
                     \/ \E i \in Ids, u \in Users :
                          \/ CancelBegin(p, u, i)
                          \/ \E n : UpdateDetails(p, u, i, n)
                          \/ \E s, e, n : UpdateTimes(p, u, i, s, e, n)
                     \/ \E i \in Ids : ConfirmBegin(p, i)
  BY DEF ResBegin
<1> QED BY <1>1, <1>2, <1>3, <1>4 DEF CancelBegin, UpdateDetails, UpdateTimes

LEMMA StepUnlocked ==
  ASSUME Inv, Keys, NEW p \in Requests, ResStep(p), UNCHANGED <<rows, tokens>>
  PROVE  RequestUnlocked(p)'
<1>1. CASE req'[p] = Idle
  BY <1>1 DEF Idle, RequestUnlocked, Saving
<1>2. CASE req'[p] # Idle
  <2>1. /\ req'[p].id = req[p].id /\ req'[p].mem = req[p].mem
        /\ req'[p].pc \in Saving => req[p].pc \in Saving
    BY <1>2, StepShape
  <2> QED BY <2>1 DEF Keys, RequestUnlocked, AccessRecords
<1> QED BY <1>1, <1>2

\* The requests and the cron handlers leave the tokens alone.
LEMMA TokensStill ==
  ASSUME Inv, Keys, [Next]_vars, ~Entry
  PROVE  UNCHANGED <<tokens, acc>> /\ now' \in Nat /\ now <= now'
<1>0. now \in Nat
  BY KeyTypes
<1>1. CASE Request
  <2> PICK p \in Requests : ResBegin(p) \/ ResStep(p)
    BY <1>1 DEF Request
  <2>1. CASE CancelTokens(p)
    <3>1. tokens' = tokens
      BY <2>1, CancelSpendsNothing
    <3>2. now' = now
      BY <2>1 DEF CancelTokens
    <3> QED BY <1>0, <1>1, <3>1, <3>2 DEF Request
  <2>2. CASE ~CancelTokens(p)
    <3>1. UNCHANGED <<now, tokens>>
      BY <2>2, ZenonT(40) DEF ResBegin, ResStep, CreateBegin, UpdateTimes, UpdateDetails,
         CancelBegin, ConfirmBegin, Begin, CreateCheck, CreateInsert, UpdateCheck, Goto,
         Reject, SaveLoad, SaveWrite, Abort, store
    <3> QED BY <1>0, <1>1, <3>1 DEF Request
  <2> QED BY <2>1, <2>2
<1>2. CASE Cron
  <2>1. UNCHANGED <<now, tokens>>
    BY <1>2 DEF Cron, JobNew, JobStep, JobDecide, NoShowScan, CompletionScan, Scan,
       NoShowMark, NoShowSkip, CompletionMark, Mark, JobLoad, JobWrite, JobAbort, store
  <2> QED BY <1>0, <1>2, <2>1 DEF Cron
<1>3. CASE Time \/ UNCHANGED vars
  BY <1>0, <1>3 DEF Time, Clock, Tick, vars, store
<1> QED BY <1>1, <1>2, <1>3 DEF Next

\* A step of a request, a cron handler or the clock that writes no reservation.
LEMMA OtherKeys ==
  ASSUME Inv, Keys, [Next]_vars, ~Entry, rows' = rows
  PROVE  Keys'
<1>1. UNCHANGED <<tokens, acc>> /\ now' \in Nat /\ now <= now'
  BY TokensStill
<1>2. ASSUME NEW p \in Requests
      PROVE  RequestUnlocked(p)'
  <2>1. CASE req'[p] = req[p]
    BY <1>1, <2>1 DEF Keys, RequestUnlocked, AccessRecords
  <2>2. CASE \E q \in Requests : ResBegin(q) \/ ResStep(q)
    <3> PICK q \in Requests : ResBegin(q) \/ ResStep(q)
      BY <2>2
    <3>1. CASE q = p
      BY <1>1, <3>1, BeginUnlocked, StepUnlocked
    <3>2. CASE q # p
      <4>1. req'[p] = req[p]
        BY <3>2, RequestShape
      <4> QED BY <2>1, <4>1
    <3> QED BY <3>1, <3>2
  <2> QED BY <2>1, <2>2 DEF Next, Time, Request, Cron, vars
<1> QED BY <1>1, <1>2, QuietKeys

-----------------------------------------------------------------------------
\* A reservation is written by the only call in flight, which is then over:
\* one without tokens, or one whose start stays and which is not cancelled.
LEMMA WriteKeys ==
  ASSUME Inv, Keys, NEW i \in Ids, NEW r \in Row,
         rows' = [rows EXCEPT ![i] = r], UNCHANGED <<now, tokens>>,
         \/ AccessRecords(i) = {}
         \/ rows[i] # NoRow /\ r.start = rows[i].start /\ r.status # "CANCELLED",
         \A p \in Requests : req'[p].pc = "idle",
         \A d \in Doors : acc'[d].pc = "idle"
  PROVE  Keys'
<1>0. rows'[i] = r /\ \A x \in Ids \ {i} : rows'[x] = rows[x]
  BY KeyTypes
<1>1. ASSUME NEW k \in TokenIds
      PROVE  TokenSound(k)'
  <2>0. TokenSound(k) /\ tokens'[k] = tokens[k] /\ now' = now
    BY DEF Keys
  <2>1. CASE tokens[k] = NoToken
    BY <2>0, <2>1 DEF TokenSound
  <2>2. CASE tokens[k] # NoToken
    <3>1. tokens[k].res \in Ids
      BY <2>2, KeyTypes DEF Token
    <3>2. CASE tokens[k].res # i
      BY <1>0, <2>0, <2>2, <3>1, <3>2 DEF TokenSound
    <3>3. CASE tokens[k].res = i
      <4>1. rows[i] # NoRow /\ r.start = rows[i].start /\ r.status # "CANCELLED"
        BY <2>2, <3>3 DEF AccessRecords
      <4> QED BY <1>0, <2>0, <2>2, <3>3, <4>1, NoRowAssumption DEF TokenSound
    <3> QED BY <3>2, <3>3
  <2> QED BY <2>1, <2>2
<1>2. \A p \in Requests : RequestUnlocked(p)'
  BY DEF RequestUnlocked, Saving
<1>3. \A d \in Doors : EntrySound(d)'
  BY DEF EntrySound
<1> QED BY <1>1, <1>2, <1>3 DEF Keys

LEMMA RowKeys ==
  ASSUME Safe, Keys, [Next]_vars, rows' # rows
  PROVE  Keys'
<1>0. Inv /\ Alone /\ Past /\ Slots
  BY DEF Safe
<1>1. CASE /\ job' = job
           /\ \E p \in Requests : SaveWrite(p) \/ \E k \in Ids : CreateInsert(p, k)
  <2> PICK p \in Requests : SaveWrite(p) \/ \E k \in Ids : CreateInsert(p, k)
    BY <1>1
  <2>0. /\ req \in [Requests -> Call] /\ Held(req[p]) /\ req[p].pc # "idle"
        /\ req' = [req EXCEPT ![p] = Idle] /\ UNCHANGED <<now, tokens>>
    BY <1>0, RequestTypes DEF SaveWrite, CreateInsert
  <2>1. InFlight \subseteq {p}
    BY <1>0, <2>0 DEF Alone, InFlight
  <2>2. \A q \in Requests : req'[q].pc = "idle"
    <3>1. \A q \in Requests \ {p} : req[q].pc = "idle"
      BY <2>1 DEF InFlight
    <3> QED BY <2>0, <3>1 DEF Idle
  <2>3. \A d \in Doors : acc'[d].pc = "idle"
    BY <1>0, <2>1, KindsDisjoint, WhoWrites DEF InFlight
  <2>4. CASE SaveWrite(p)
    <3> DEFINE k == req[p].id
               m == req[p].mem
               r == MergeRow(rows[k], m, rows[k])
    <3>1. /\ k \in Ids /\ rows[k] \in Row /\ m \in Row
          /\ rows' = [rows EXCEPT ![k] = r] /\ req[p].pc = "write"
      BY <1>0, <2>4, WriteIsSave DEF SaveWrite
    <3>2. r \in Row /\ r.start = m.start /\ r.status = m.status
      BY <3>1, MergeFresh, MergeRowType
    <3>3. \/ AccessRecords(k) = {}
          \/ rows[k] # NoRow /\ r.start = rows[k].start /\ r.status # "CANCELLED"
      BY <3>1, <3>2, NoRowAssumption DEF Keys, RequestUnlocked, Saving
    <3> HIDE DEF k, r
    <3> QED BY <1>0, <2>0, <2>2, <2>3, <3>1, <3>2, <3>3, WriteKeys
  <2>5. CASE \E k \in Ids : CreateInsert(p, k)
    <3> PICK k \in Ids : CreateInsert(p, k)
      BY <2>5
    <3>1. /\ req[p].mem \in Row /\ rows' = [rows EXCEPT ![k] = req[p].mem]
          /\ AccessRecords(k) = {}
      BY <2>0, NoTokenWithoutRow DEF CreateInsert, WriteRow, Held
    <3> QED BY <1>0, <2>0, <2>2, <2>3, <3>1, WriteKeys
  <2> QED BY <2>4, <2>5
<1>2. CASE req' = req /\ \E j \in Jobs : JobWrite(j)
  <2> PICK j \in Jobs : JobWrite(j)
    BY <1>2
  <2> DEFINE k == job[j].id
             m == job[j].mem
             r == MergeRow(rows[k], m, rows[k])
  <2>1. /\ k \in Ids /\ rows[k] \in Row /\ m \in Row
        /\ rows' = [rows EXCEPT ![k] = r] /\ UNCHANGED <<now, tokens>>
        /\ m.status \in {"COMPLETED", "NO_SHOW"} /\ job[j].pc = "write"
        /\ m.start = rows[k].start
    BY <1>0, WriteIsMark DEF JobWrite, Slots, JobSlot, SameDetails
  <2>2. r \in Row /\ r.start = rows[k].start /\ r.status # "CANCELLED" /\ rows[k] # NoRow
    BY <2>1, MergeFresh, MergeRowType, NoRowAssumption
  <2>3. InFlight \subseteq {j}
    BY <1>0, <2>1 DEF Alone, InFlight
  <2>4. /\ \A q \in Requests : req'[q].pc = "idle"
        /\ \A d \in Doors : acc'[d].pc = "idle"
    BY <1>0, <1>2, <2>3, KindsDisjoint, WhoWrites DEF InFlight
  <2> HIDE DEF k, m, r
  <2> QED BY <1>0, <2>1, <2>2, <2>4, WriteKeys
<1> QED BY <1>0, <1>1, <1>2, WhoWrites

-----------------------------------------------------------------------------
\* A step of an access call, which is the only one in flight.
LEMMA DoorKeys ==
  ASSUME Keys, NEW d \in Doors, InFlight \subseteq {d}, req' = req,
         \A e \in Doors \ {d} : acc'[e] = acc[e],
         \A k \in TokenIds : TokenSound(k)',
         EntrySound(d)'
  PROVE  Keys'
<1>1. \A p \in Requests : req'[p].pc = "idle"
  BY KindsDisjoint DEF InFlight
<1>2. \A e \in Doors \ {d} : acc'[e].pc = "idle"
  BY DEF InFlight
<1> QED BY <1>1, <1>2 DEF Keys, RequestUnlocked, EntrySound, Saving

\* One that leaves the tokens alone.
LEMMA DoorQuiet ==
  ASSUME Inv, Keys, NEW d \in Doors, NEW c, InFlight \subseteq {d}, req' = req,
         UNCHANGED store, acc' = [acc EXCEPT ![d] = c],
         EntrySound(d)'
  PROVE  Keys'
<1>1. \A e \in Doors \ {d} : acc'[e] = acc[e]
  BY KeyTypes
<1>2. \A k \in TokenIds : TokenSound(k)'
  BY DEF Keys, TokenSound, store
<1> QED BY <1>1, <1>2, DoorKeys

LEMMA GenerateKeys ==
  ASSUME Inv, Keys, NEW d \in Doors, InFlight \subseteq {d}, req' = req,
         NEW k \in TokenIds, GenerateInsert(d, k)
  PROVE  Keys'
<1> DEFINE m == acc[d].mem
<1>1. /\ acc[d].pc = "insert" /\ tokens[k] = NoToken /\ m \in Token
      /\ EntrySound(d)
  BY DEF GenerateInsert, Keys, Inv, TypeInv, EntriesHold
<1>2. /\ tokens'[k] = m /\ \A l \in TokenIds \ {k} : tokens'[l] = tokens[l]
      /\ UNCHANGED <<now, rows>>
      /\ acc'[d] = AccIdle /\ \A e \in Doors \ {d} : acc'[e] = acc[e]
  BY KeyTypes DEF GenerateInsert, AccDone
<1>3. ASSUME NEW l \in TokenIds
      PROVE  TokenSound(l)'
  <2>1. CASE l = k
    BY <1>1, <1>2, <2>1 DEF TokenSound, EntrySound
  <2>2. CASE l # k
    BY <1>2, <2>2 DEF Keys, TokenSound
  <2> QED BY <2>1, <2>2
<1>4. EntrySound(d)'
  BY <1>2 DEF EntrySound, AccIdle
<1> QED BY <1>2, <1>3, <1>4, DoorKeys

LEMMA VerifyKeys ==
  ASSUME Inv, Keys, NEW d \in Doors, InFlight \subseteq {d}, req' = req, VerifyWrite(d)
  PROVE  Keys'
<1> DEFINE k == acc[d].tok
           m == acc[d].mem
           t == MergeToken(tokens[k], m, acc[d].seen)
<1>1. /\ acc[d].pc = "write" /\ k \in TokenIds /\ tokens[k] \in Token /\ m \in Token
      /\ m.time # NoTime /\ acc[d].seen = tokens[k]
  BY DEF VerifyWrite, Keys, EntrySound, Inv, TypeInv, EntriesHold
<1>2. /\ t.res = tokens[k].res /\ t.expires = tokens[k].expires /\ t.time # NoTime
      /\ t # NoToken /\ t \in Token
  <2>1. t \in Token /\ t # NoToken
    BY <1>1, MergeTokenType, NoTokenAssumption
  <2>2. t.res = tokens[k].res /\ t.expires = tokens[k].expires
    BY DEF MergeToken
  <2>3. t.time # NoTime
    BY <1>1 DEF MergeToken, Column
  <2> QED BY <2>1, <2>2, <2>3
<1>3. /\ tokens'[k] = t /\ \A l \in TokenIds \ {k} : tokens'[l] = tokens[l]
      /\ UNCHANGED <<now, rows>>
      /\ acc'[d] = AccIdle /\ \A e \in Doors \ {d} : acc'[e] = acc[e]
  BY <1>1, KeyTypes DEF VerifyWrite, AccDone
<1> HIDE DEF k, m, t
<1>4. ASSUME NEW l \in TokenIds
      PROVE  TokenSound(l)'
  <2>1. CASE l = k
    <3>1. TokenSound(k) /\ tokens[k] # NoToken
      BY <1>1, NoTokenAssumption DEF Keys
    <3> QED BY <1>1, <1>2, <1>3, <2>1, <3>1 DEF TokenSound
  <2>2. CASE l # k
    BY <1>3, <2>2 DEF Keys, TokenSound
  <2> QED BY <2>1, <2>2
<1>5. EntrySound(d)'
  BY <1>3 DEF EntrySound, AccIdle
<1> QED BY <1>3, <1>4, <1>5, DoorKeys

LEMMA EntryKeys ==
  ASSUME Inv, Keys, NEW d \in Doors, InFlight \subseteq {d}, req' = req,
         AccNew(d) \/ AccStep(d)
  PROVE  Keys'
<1>0. /\ EntrySound(d)
      /\ acc[d].pc \in {"lookup", "insert"} => acc[d].mem \in Token
      /\ acc[d].pc \in {"load", "write"} =>
           acc[d].tok \in TokenIds /\ acc[d].mem \in Token /\ tokens[acc[d].tok] \in Token
  BY DEF Keys, Inv, TypeInv, EntriesHold
<1>1. CASE \E i \in Ids, u \in Users : GenerateBegin(d, u, i)
  <2> PICK i \in Ids, u \in Users : GenerateBegin(d, u, i)
    BY <1>1
  <2> DEFINE c == [pc |-> "lookup", tok |-> NoId,
                   mem |-> [res |-> i, expires |-> rows[i].start + TokenLife,
                            used |-> FALSE, time |-> NoTime],
                   seen |-> NoToken]
  <2>1. /\ UNCHANGED store /\ acc' = [acc EXCEPT ![d] = c]
        /\ rows[i] # NoRow /\ rows[i].status = "CONFIRMED" /\ rows[i].start - TokenLead <= now
    BY DEF GenerateBegin, AccBegin, TokenWindow
  <2>2. acc'[d] = c
    BY <2>1, KeyTypes
  <2>3. EntrySound(d)'
    BY <2>1, <2>2 DEF EntrySound, store
  <2> HIDE DEF c
  <2> QED BY <2>1, <2>3, DoorQuiet
<1>2. CASE \E k \in TokenIds : VerifyBegin(d, k)
  <2> PICK k \in TokenIds : VerifyBegin(d, k)
    BY <1>2
  <2> DEFINE m == [tokens[k] EXCEPT !.used = TRUE, !.time = now]
             c == [pc |-> "load", tok |-> k, mem |-> m, seen |-> NoToken]
  <2>1. /\ UNCHANGED store /\ acc' = [acc EXCEPT ![d] = c]
        /\ tokens[k] \in Token
    BY KeyTypes DEF VerifyBegin, AccBegin
  <2>2. m.time # NoTime
    BY <2>1, KeyTypes, StoreAssumption DEF Token
  <2>3. acc'[d].pc = "load" /\ acc'[d].tok = k /\ acc'[d].mem = m
    BY <2>1, KeyTypes
  <2> HIDE DEF c, m
  <2>4. EntrySound(d)'
    BY <2>1, <2>2, <2>3 DEF EntrySound, store
  <2> QED BY <2>1, <2>4, DoorQuiet
<1>3. CASE GenerateReuse(d) \/ AccAbort(d)
  <2>1. UNCHANGED store /\ acc' = [acc EXCEPT ![d] = AccIdle]
    BY <1>3 DEF GenerateReuse, AccAbort, AccDone
  <2>2. EntrySound(d)'
    BY <2>1, KeyTypes DEF EntrySound, AccIdle
  <2> QED BY <2>1, <2>2, DoorQuiet
<1>4. CASE GenerateNew(d)
  <2> DEFINE c == [acc[d] EXCEPT !.pc = "insert"]
             m == acc[d].mem
  <2>1. /\ UNCHANGED store /\ acc' = [acc EXCEPT ![d] = c]
        /\ acc[d].pc = "lookup"
    BY <1>4, KeyTypes DEF GenerateNew
  <2>2. acc'[d].pc = "insert" /\ acc'[d].mem = m
    BY <2>1, KeyTypes DEF AccCall
  <2> HIDE DEF c
  <2>3. EntrySound(d)'
    BY <1>0, <2>1, <2>2 DEF EntrySound, store
  <2> QED BY <2>1, <2>3, DoorQuiet
<1>5. CASE VerifyLoad(d)
  <2> DEFINE c == [acc[d] EXCEPT !.pc = "write", !.seen = tokens[acc[d].tok]]
  <2>1. /\ UNCHANGED store /\ acc' = [acc EXCEPT ![d] = c]
        /\ acc[d].pc = "load"
    BY <1>5, KeyTypes DEF VerifyLoad
  <2>2. /\ acc'[d].pc = "write" /\ acc'[d].tok = acc[d].tok /\ acc'[d].mem = acc[d].mem
        /\ acc'[d].seen = tokens[acc[d].tok]
    BY <2>1, KeyTypes DEF AccCall
  <2> HIDE DEF c
  <2>3. EntrySound(d)'
    BY <1>0, <2>1, <2>2 DEF EntrySound, store
  <2> QED BY <2>1, <2>3, DoorQuiet
<1> QED BY <1>1, <1>2, <1>3, <1>4, <1>5, GenerateKeys, VerifyKeys DEF AccNew, AccStep

-----------------------------------------------------------------------------
LEMMA NextKeys ==
  ASSUME ProcessesFinite, MaxInFlight <= 1, Safe, Keys, [Next]_vars
  PROVE  Keys'
<1>1. CASE Entry
  BY <1>1, DoorIsAlone, EntryKeys DEF Entry, Safe
<1>2. CASE ~Entry /\ rows' = rows
  BY <1>2, OtherKeys DEF Safe
<1>3. CASE rows' # rows
  BY <1>3, RowKeys
<1> QED BY <1>1, <1>2, <1>3

LEMMA KeysInvariant ==
  ASSUME ProcessesFinite, MaxInFlight <= 1
  PROVE  Spec => []Keys
<1>1. Safe /\ Keys /\ [Next]_vars => Keys'
  BY NextKeys
<1> QED BY <1>1, InitKeys, SafeInvariant, PTL DEF Spec

(* When calls run one at a time no start is moved from under a token: a     *)
(* token is made when the time for updates is over, and not before.         *)
THEOREM AloneTokenFollowsStart ==
  ASSUME ProcessesFinite, MaxInFlight <= 1
  PROVE  Spec => []TokenFollowsStart
<1>1. Keys => TokenFollowsStart
  BY DEF Keys, TokenSound, TokenFollowsStart
<1> QED BY <1>1, KeysInvariant, PTL

(* When calls run one at a time no token of a cancelled reservation opens   *)
(* the door: who may still cancel has no token yet.                         *)
THEOREM AloneCancelledHasNoKey ==
  ASSUME ProcessesFinite, MaxInFlight <= 1
  PROVE  Spec => []CancelledHasNoKey
<1>1. Keys => CancelledHasNoKey
  BY DEF Keys, TokenSound, CancelledHasNoKey
<1> QED BY <1>1, KeysInvariant, PTL

(* When calls run one at a time the used tokens of a room at a moment are   *)
(* those of one reservation, whose guests came in: two confirmed ones would *)
(* clash, and only a verified token is spent.                               *)
THEOREM AloneOneOccupant ==
  ASSUME ProcessesFinite, MaxInFlight <= 1
  PROVE  Spec => []OneOccupant
<1>1. ASSUME Safe, Keys
      PROVE  OneOccupant
  <2> SUFFICES ASSUME NEW r \in Rooms, NEW k \in CurrentRecords(r), NEW l \in CurrentRecords(r)
               PROVE  tokens[k].res = tokens[l].res /\ tokens[k].time # NoTime
    BY DEF OneOccupant
  <2> DEFINE i == tokens[k].res
             j == tokens[l].res
  <2>0. Inv
    BY <1>1 DEF Safe
  <2>1. /\ tokens[k] # NoToken /\ tokens[k].used /\ i \in Ids /\ j \in Ids
        /\ rows[i] # NoRow /\ rows[j] # NoRow
        /\ \A x \in {i, j} : /\ rows[x].room = r /\ rows[x].status = "CONFIRMED"
                             /\ rows[x].start <= now /\ now < rows[x].end
    BY <1>1, <2>0, KeyTypes DEF CurrentRecords, Keys, TokenSound, Token
  <2>2. rows[i] \in Row /\ rows[j] \in Row /\ now \in Nat
    BY <2>0, <2>1, KeyTypes
  <2> HIDE DEF i, j
  <2>3. i # j => Clash(i, j)
    BY <2>1, <2>2 DEF Clash, Blocks, Active, Row
  <2>4. i = j
    BY <1>1, <2>1, <2>3 DEF Safe, NoDoubleBooking
  <2>5. tokens[k].time # NoTime
    BY <1>1, <2>1 DEF Keys, TokenSound, CurrentRecords
  <2> QED BY <2>4, <2>5 DEF i, j
<1> QED BY <1>1, KeysInvariant, SafeInvariant, PTL
=============================================================================
