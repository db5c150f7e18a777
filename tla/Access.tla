------------------------------- MODULE Access -------------------------------
(***************************************************************************)
(* AccessService: generating the token a guest enters with, and verifying  *)
(* it at the door.  Both read, decide, and write in separate statements.   *)
(***************************************************************************)
EXTENDS Store

CONSTANT Doors    \* in-flight calls of AccessService

VARIABLES
  acc,      \* the call each process is in
  granted   \* history: how often a token has opened the door

accVars == <<acc, granted>>

AccCall == [pc : {"idle", "lookup", "insert", "load", "write"},
            tok : TokenIds \cup {NoId},
            mem : Token \cup {NoToken}, seen : Token \cup {NoToken}]

AccIdle == [pc |-> "idle", tok |-> NoId, mem |-> NoToken, seen |-> NoToken]

AccTypeOK == acc \in [Doors -> AccCall] /\ granted \in [TokenIds -> Nat]

AccInit == /\ acc = [d \in Doors |-> AccIdle]
           /\ granted = [k \in TokenIds |-> 0]

AccBegin(d, pc, k, m) ==
  /\ acc[d].pc = "idle"
  /\ acc' = [acc EXCEPT ![d] = [pc |-> pc, tok |-> k, mem |-> m, seen |-> NoToken]]
  /\ UNCHANGED <<store, granted>>

AccDone(d) == acc' = [acc EXCEPT ![d] = AccIdle]

-----------------------------------------------------------------------------
(* generateAccessToken: the reservation is read and its window checked, an  *)
(* unused token looked for, and only if there is none that still lives is   *)
(* one made.  The lookup has no order: of several unused tokens it returns  *)
(* any.                                                                     *)
GenerateBegin(d, u, i) ==
  /\ rows[i] # NoRow
  /\ rows[i].user = u
  /\ TokenWindow(rows[i], now)
  /\ AccBegin(d, "lookup", NoId,
              [res |-> i, expires |-> rows[i].start + TokenLife,
               used |-> FALSE, time |-> NoTime])

GenerateReuse(d) ==
  /\ acc[d].pc = "lookup"
  /\ \E k \in UnusedTokens(acc[d].mem.res) : now < tokens[k].expires
  /\ AccDone(d)
  /\ UNCHANGED <<store, granted>>

\* Mutant: a token is made whatever the lookup has found.
GenerateAnother(d) ==
  /\ acc[d].pc = "lookup"
  /\ acc' = [acc EXCEPT ![d].pc = "insert"]
  /\ UNCHANGED <<store, granted>>

GenerateNew(d) ==
  /\ acc[d].pc = "lookup"
  /\ LET unused == UnusedTokens(acc[d].mem.res)
     IN  unused = {} \/ \E k \in unused : now >= tokens[k].expires
  /\ acc' = [acc EXCEPT ![d].pc = "insert"]
  /\ UNCHANGED <<store, granted>>

GenerateInsert(d, k) ==
  /\ acc[d].pc = "insert"
  /\ tokens[k] = NoToken
  /\ tokens' = [tokens EXCEPT ![k] = acc[d].mem]
  /\ AccDone(d)
  /\ UNCHANGED <<now, rows, untouched, granted>>

\* Mutants: a used token passes; an expired one does.
VerifyUsed(d, k) ==
  /\ tokens[k] # NoToken
  /\ now <= tokens[k].expires
  /\ AccBegin(d, "load", k, [tokens[k] EXCEPT !.used = TRUE, !.time = now])

VerifyExpired(d, k) ==
  /\ tokens[k] # NoToken
  /\ ~tokens[k].used
  /\ AccBegin(d, "load", k, [tokens[k] EXCEPT !.used = TRUE, !.time = now])

(* verifyAccessToken: the record is read and checked, marked used and       *)
(* stamped in memory, and saved; the reservation is not looked at.          *)
VerifyBegin(d, k) ==
  /\ tokens[k] # NoToken
  /\ ~tokens[k].used
  /\ now <= tokens[k].expires
  /\ AccBegin(d, "load", k, [tokens[k] EXCEPT !.used = TRUE, !.time = now])

VerifyLoad(d) ==
  /\ acc[d].pc = "load"
  /\ acc' = [acc EXCEPT ![d].pc = "write", ![d].seen = tokens[acc[d].tok]]
  /\ UNCHANGED <<store, granted>>

VerifyWrite(d) ==
  /\ acc[d].pc = "write"
  /\ LET k == acc[d].tok
     IN  /\ tokens' = [tokens EXCEPT ![k] =
                         MergeToken(tokens[k], acc[d].mem, acc[d].seen)]
         /\ granted' = [granted EXCEPT ![k] = @ + 1]
  /\ AccDone(d)
  /\ UNCHANGED <<now, rows, untouched>>

AccAbort(d) ==
  /\ acc[d].pc # "idle"
  /\ AccDone(d)
  /\ UNCHANGED <<store, granted>>

-----------------------------------------------------------------------------
\* Mutant: the end of the reservation is not looked at.
CurrentRecordsSince(r) ==
  {k \in TokenIds :
     /\ tokens[k] # NoToken
     /\ tokens[k].used
     /\ LET row == rows[tokens[k].res]
        IN  row.room = r /\ row.status = "CONFIRMED" /\ row.start <= now}

\* getCurrentRoomStatus: the used records of the reservation going on in r.
CurrentRecords(r) ==
  {k \in TokenIds :
     /\ tokens[k] # NoToken
     /\ tokens[k].used
     /\ LET row == rows[tokens[k].res]
        IN  /\ row.room = r
            /\ row.status = "CONFIRMED"
            /\ row.start <= now
            /\ row.end > now}

-----------------------------------------------------------------------------
AccNew(d) ==
  \/ \E i \in Ids, u \in Users : GenerateBegin(d, u, i)
  \/ \E k \in TokenIds : VerifyBegin(d, k)

AccStep(d) ==
  \/ GenerateReuse(d)
  \/ GenerateNew(d)
  \/ \E k \in TokenIds : GenerateInsert(d, k)
  \/ VerifyLoad(d)
  \/ VerifyWrite(d)
  \/ AccAbort(d)
=============================================================================
