--------------------------- MODULE AdminCliProofs --------------------------
(***************************************************************************)
(* Proofs about the tool and its transactions: the log of commands, for    *)
(* any number of runs, any commands, any lifetime of a blockhash.          *)
(***************************************************************************)
EXTENDS AdminCli, AdminCommandsProofs, BridgeProgramProofs, FiniteSetTheorems,
        TLAPS

Stages == {"started", "fetched", "signed", "printed", "unsure", "failed"}

Invoked == [pc : Stages, signer : Signers, command : Commands, blockhash : Nat]

\* Every transaction some node holds or the chain has taken was signed by a run.
SignedBySome(txs) == \A tx \in txs : \E r \in Runs : Signed(r) /\ Transaction(r) = tx

ToolInv ==
  /\ height \in Nat
  /\ runs \in [Runs -> Invoked \union {Idle}]
  /\ IsFiniteSet(applied)
  /\ SignedBySome(network \union applied \union refused)

-----------------------------------------------------------------------------
(* The invariant                                                           *)

\* What a step of one run makes of that run, and of the others.
LEMMA OtherRuns ==
  ASSUME NEW r \in Runs, NEW value, runs' = [runs EXCEPT ![r] = value],
         runs \in [Runs -> Invoked \union {Idle}]
  PROVE  /\ runs'[r] = value
         /\ \A q \in Runs \ {r} :
              /\ runs'[q] = runs[q]
              /\ Signed(q)' = Signed(q)
              /\ Transaction(q)' = Transaction(q)
  BY DEF Signed, Transaction

\* A run that is not idle has been asked for a command.
LEMMA NotIdle ==
  ASSUME NEW r \in Runs, runs \in [Runs -> Invoked \union {Idle}],
         runs[r].pc # "idle"
  PROVE  runs[r] \in Invoked
  BY DEF Idle

\* What Goto makes of a run.
LEMMA GotoRun ==
  ASSUME NEW r \in Runs, NEW pc \in Stages, Goto(r, pc), runs[r] \in Invoked
  PROVE  \E value \in Invoked :
           /\ runs' = [runs EXCEPT ![r] = value]
           /\ value.pc = pc
           /\ value.signer = runs[r].signer
           /\ value.command = runs[r].command
           /\ value.blockhash = runs[r].blockhash
<1> DEFINE value == [runs[r] EXCEPT !.pc = pc]
<1>1. /\ value \in Invoked /\ value.pc = pc
      /\ value.signer = runs[r].signer
      /\ value.command = runs[r].command
      /\ value.blockhash = runs[r].blockhash
  BY DEF Invoked
<1>2. runs' = [runs EXCEPT ![r] = value]
  BY DEF Goto
<1> QED
  BY <1>1, <1>2

-----------------------------------------------------------------------------
(* The fate of a run, in a state and in the next one                       *)

FateOf(pc, signed, tx, blockhash_expired, taken, failed) ==
  IF pc = "idle" THEN "unused"
  ELSE IF pc = "failed" THEN "void"
  ELSE IF signed /\ tx \in taken THEN "applied"
  ELSE IF signed /\ tx \in failed THEN "refused"
  ELSE IF signed /\ blockhash_expired THEN "void"
  ELSE "open"

LEMMA FateNow ==
  ASSUME NEW r \in Runs
  PROVE  fate[r] = FateOf(runs[r].pc, Signed(r), Transaction(r),
                          Expired(runs[r].blockhash), applied, refused)
  BY DEF fate, FateOf

LEMMA FateNext ==
  ASSUME NEW r \in Runs
  PROVE  fate'[r] = FateOf(runs'[r].pc, Signed(r)', Transaction(r)',
                           Expired(runs[r].blockhash)', applied', refused')
  BY DEF fate, FateOf

\* One run turns, and no other.
LEMMA TurnOne ==
  ASSUME NEW r \in Runs, NEW from, NEW to, fate[r] = from, fate'[r] = to,
         \A q \in Runs \ {r} : fate'[q] = fate[q]
  PROVE  Log!Turn({r}, from, to)
<1>1. fate' = [q \in Runs |-> fate'[q]]
  BY DEF fate
<1>2. fate' = [q \in Runs |-> IF q \in {r} THEN to ELSE fate[q]]
  BY <1>1
<1> QED
  BY <1>2 DEF Log!Turn

\* No run turns.
LEMMA TurnNone ==
  ASSUME \A q \in Runs : fate'[q] = fate[q]
  PROVE  fate' = fate
<1>1. fate' = [q \in Runs |-> fate'[q]] /\ fate = [q \in Runs |-> fate[q]]
  BY DEF fate
<1> QED
  BY <1>1

\* A step of one run, which may hand its transaction to the network, keeps the
\* invariant and turns no other run.
LEMMA OneRun ==
  ASSUME ToolInv, NEW r \in Runs, NEW value \in Invoked,
         runs' = [runs EXCEPT ![r] = value],
         UNCHANGED <<height, applied, refused>>,
         Signed(r) => Signed(r)' /\ Transaction(r)' = Transaction(r),
         \/ network' = network
         \/ network' = network \union {Transaction(r)'} /\ Signed(r)'
  PROVE  /\ ToolInv'
         /\ \A q \in Runs \ {r} : fate'[q] = fate[q]
         /\ UNCHANGED Cardinality(applied)
<1>1. \A q \in Runs \ {r} : /\ runs'[q] = runs[q]
                            /\ Signed(q)' = Signed(q)
                            /\ Transaction(q)' = Transaction(q)
  BY OtherRuns DEF ToolInv
<1>2. \A tx \in network' \union applied' \union refused' :
        \E q \in Runs : Signed(q)' /\ Transaction(q)' = tx
  <2> SUFFICES ASSUME NEW tx \in network' \union applied' \union refused'
               PROVE  \E q \in Runs : Signed(q)' /\ Transaction(q)' = tx
    OBVIOUS
  <2>1. CASE tx = Transaction(r)' /\ Signed(r)'
    BY <2>1
  <2>2. CASE tx \in network \union applied \union refused
    <3>1. PICK q \in Runs : Signed(q) /\ Transaction(q) = tx
      BY <2>2 DEF ToolInv, SignedBySome
    <3> QED
      BY <3>1, <1>1
  <2> QED
    BY <2>1, <2>2
<1>3. ToolInv'
  BY <1>2 DEF ToolInv, SignedBySome
<1>4. ASSUME NEW q \in Runs \ {r}
      PROVE  fate'[q] = fate[q]
  <2>1. Expired(runs[q].blockhash)' = Expired(runs[q].blockhash)
    BY <1>1 DEF Expired
  <2> QED
    BY <1>1, <2>1, FateNow, FateNext
<1> QED
  BY <1>3, <1>4

-----------------------------------------------------------------------------
(* The steps of a run                                                      *)

LogStep == [Log!Next]_(Log!vars)

LEMMA InvokeStep ==
  ASSUME ToolInv, NEW r \in Runs, NEW signer \in Signers, NEW command \in Commands,
         Invoke(r, signer, command)
  PROVE  ToolInv' /\ LogStep
<1> DEFINE value == [pc |-> "started", signer |-> signer, command |-> command,
                     blockhash |-> 0]
<1>1. value \in Invoked
  BY DEF Invoked, Stages
<1>2. /\ runs' = [runs EXCEPT ![r] = value] /\ runs[r].pc = "idle"
      /\ UNCHANGED <<height, network, applied, refused>>
  BY DEF Invoke, Idle
<1>3. runs'[r].pc = "started"
  BY <1>2, <1>1 DEF ToolInv
<1>4. ~Signed(r) /\ ~Signed(r)'
  BY <1>2, <1>3 DEF Signed
<1>5. /\ ToolInv'
      /\ \A q \in Runs \ {r} : fate'[q] = fate[q]
      /\ UNCHANGED Cardinality(applied)
  <2> HIDE DEF value
  <2> QED
    BY <1>1, <1>2, <1>4, OneRun
<1>6. fate[r] = "unused" /\ fate'[r] = "open"
  BY <1>2, <1>3, <1>4, FateNow, FateNext DEF FateOf
<1>7. Log!Begin(r)
  BY <1>5, <1>6, TurnOne DEF Log!Begin
<1> QED
  BY <1>5, <1>7 DEF LogStep, Log!Next

LEMMA FetchStep ==
  ASSUME ToolInv, NEW r \in Runs, get_latest_blockhash(r)
  PROVE  ToolInv' /\ LogStep
<1>1. PICK h \in 1..height :
        runs' = [runs EXCEPT ![r].pc = "fetched", ![r].blockhash = h]
  BY DEF get_latest_blockhash
<1>2. /\ runs[r].pc = "started" /\ runs[r] \in Invoked
      /\ UNCHANGED <<height, network, applied, refused>>
  BY NotIdle DEF get_latest_blockhash, ToolInv
<1> DEFINE value == [runs[r] EXCEPT !.pc = "fetched", !.blockhash = h]
<1>3. value \in Invoked /\ value.pc = "fetched"
  <2>1. h \in Nat
    BY DEF ToolInv
  <2>2. [runs[r] EXCEPT !.pc = "fetched"] \in Invoked
    BY <1>2 DEF Invoked, Stages
  <2> QED
    BY <2>1, <2>2 DEF Invoked
<1>4. runs' = [runs EXCEPT ![r] = value]
  BY <1>1
<1> HIDE DEF value
<1>5. runs'[r].pc = "fetched"
  BY <1>3, <1>4 DEF ToolInv
<1>6. ~Signed(r) /\ ~Signed(r)'
  BY <1>2, <1>5 DEF Signed
<1>7. /\ ToolInv'
      /\ \A q \in Runs \ {r} : fate'[q] = fate[q]
      /\ UNCHANGED Cardinality(applied)
  BY <1>2, <1>3, <1>4, <1>6, OneRun
<1>8. fate[r] = "open" /\ fate'[r] = "open"
  BY <1>2, <1>5, <1>6, FateNow, FateNext DEF FateOf
<1>9. fate' = fate
  BY <1>7, <1>8, TurnNone
<1> QED
  BY <1>7, <1>9 DEF LogStep, Log!vars

\* What the steps that only move a run on have in common.
LEMMA GotoStep ==
  ASSUME ToolInv, NEW r \in Runs, NEW pc \in Stages, Goto(r, pc),
         runs[r].pc # "idle",
         Signed(r) => pc \in {"signed", "printed", "unsure"},
         UNCHANGED <<height, applied, refused>>,
         \/ network' = network
         \/ /\ network' = network \union {Transaction(r)}
            /\ pc \in {"signed", "printed", "unsure"}
  PROVE  /\ ToolInv'
         /\ \A q \in Runs \ {r} : fate'[q] = fate[q]
         /\ UNCHANGED Cardinality(applied)
         /\ runs'[r].pc = pc
         /\ Signed(r)' <=> pc \in {"signed", "printed", "unsure"}
         /\ Transaction(r)' = Transaction(r)
         /\ Expired(runs[r].blockhash)' = Expired(runs[r].blockhash)
<1>1. runs[r] \in Invoked
  BY NotIdle DEF ToolInv
<1>2. PICK value \in Invoked :
        /\ runs' = [runs EXCEPT ![r] = value]
        /\ value.pc = pc
        /\ value.signer = runs[r].signer
        /\ value.command = runs[r].command
        /\ value.blockhash = runs[r].blockhash
  BY <1>1, GotoRun
<1>3. runs'[r] = value
  BY <1>2 DEF ToolInv
<1>4. /\ Signed(r)' <=> pc \in {"signed", "printed", "unsure"}
      /\ Transaction(r)' = Transaction(r)
      /\ Expired(runs[r].blockhash)' = Expired(runs[r].blockhash)
  BY <1>2, <1>3 DEF Signed, Transaction, Expired
<1> QED
  BY <1>2, <1>3, <1>4, OneRun

\* A signature may be that of a transaction that has landed already.
LEMMA SignStep ==
  ASSUME ToolInv, NEW r \in Runs, try_sign(r)
  PROVE  ToolInv' /\ LogStep
<1>1. /\ runs[r].pc = "fetched" /\ Goto(r, "signed")
      /\ UNCHANGED <<height, network, applied, refused>>
  BY DEF try_sign
<1>2. ~Signed(r)
  BY <1>1 DEF Signed
<1>3. /\ ToolInv'
      /\ \A q \in Runs \ {r} : fate'[q] = fate[q]
      /\ UNCHANGED Cardinality(applied)
      /\ runs'[r].pc = "signed"
      /\ Signed(r)'
      /\ Transaction(r)' = Transaction(r)
  BY <1>1, <1>2, GotoStep DEF Stages
<1>4. fate[r] = "open"
  BY <1>1, <1>2, FateNow DEF FateOf
<1>5. ASSUME NEW taken \in {"applied", "refused"},
             fate'[r] = taken,
             Transaction(r) \in applied \union refused,
             Transaction(r) \in applied <=> taken = "applied"
      PROVE  LogStep
  <2>1. PICK s \in Runs : Signed(s) /\ Transaction(s) = Transaction(r)
    BY <1>5 DEF ToolInv, SignedBySome
  <2>2. fate[s] = taken
    BY <2>1, <1>5, FateNow DEF FateOf, Signed
  <2>3. Log!Turn({r}, "open", taken)
    BY <1>3, <1>4, <1>5, TurnOne
  <2>4. Log!Join(r, s)
    BY <1>3, <2>2, <2>3 DEF Log!Join
  <2> QED
    BY <2>4 DEF LogStep, Log!Next
<1>6. CASE Transaction(r) \in applied
  <2>1. fate'[r] = "applied"
    BY <1>1, <1>3, <1>6, FateNext DEF FateOf
  <2> QED
    BY <1>3, <1>5, <1>6, <2>1
<1>7. CASE Transaction(r) \notin applied /\ Transaction(r) \in refused
  <2>1. fate'[r] = "refused"
    BY <1>1, <1>3, <1>7, FateNext DEF FateOf
  <2> QED
    BY <1>3, <1>5, <1>7, <2>1
<1>8. CASE Transaction(r) \notin applied /\ Transaction(r) \notin refused
  <2>1. fate'[r] \in {"void", "open"}
    BY <1>1, <1>3, <1>8, FateNext DEF FateOf
  <2>2. CASE fate'[r] = "void"
    <3>1. Log!Turn({r}, "open", "void")
      BY <1>3, <1>4, <2>2, TurnOne
    <3> QED
      BY <1>3, <3>1 DEF LogStep, Log!Next, Log!Void
  <2>3. CASE fate'[r] = "open"
    <3>1. fate' = fate
      BY <1>3, <1>4, <2>3, TurnNone
    <3> QED
      BY <1>3, <3>1 DEF LogStep, Log!vars
  <2> QED
    BY <1>3, <2>1, <2>2, <2>3
<1> QED
  BY <1>6, <1>7, <1>8

\* The answer of the node, good or bad, does not decide the fate of a run.
LEMMA AnswerStep ==
  ASSUME ToolInv, NEW r \in Runs, send_transaction(r) \/ FailInSend(r)
  PROVE  ToolInv' /\ LogStep
<1>1. /\ runs[r].pc = "signed"
      /\ UNCHANGED <<height, applied, refused>>
      /\ \/ network' = network
         \/ network' = network \union {Transaction(r)}
      /\ \E pc \in {"printed", "unsure"} : Goto(r, pc)
  BY DEF send_transaction, FailInSend
<1>2. PICK pc \in {"printed", "unsure"} : Goto(r, pc)
  BY <1>1
<1>3. Signed(r)
  BY <1>1 DEF Signed
<1>4. /\ ToolInv'
      /\ \A q \in Runs \ {r} : fate'[q] = fate[q]
      /\ UNCHANGED Cardinality(applied)
      /\ runs'[r].pc = pc
      /\ Signed(r)'
      /\ Transaction(r)' = Transaction(r)
      /\ Expired(runs[r].blockhash)' = Expired(runs[r].blockhash)
  BY <1>1, <1>2, GotoStep DEF Stages
<1>5. fate'[r] = fate[r]
  BY <1>1, <1>3, <1>4, FateNow, FateNext DEF FateOf
<1>6. fate' = fate
  BY <1>4, <1>5, TurnNone
<1> QED
  BY <1>4, <1>6 DEF LogStep, Log!vars

LEMMA FailStep ==
  ASSUME ToolInv, NEW r \in Runs, FailBeforeSend(r)
  PROVE  ToolInv' /\ LogStep
<1>1. /\ runs[r].pc \in {"started", "fetched"} /\ Goto(r, "failed")
      /\ UNCHANGED <<height, network, applied, refused>>
  BY DEF FailBeforeSend
<1>2. ~Signed(r)
  BY <1>1 DEF Signed
<1>3. /\ ToolInv'
      /\ \A q \in Runs \ {r} : fate'[q] = fate[q]
      /\ UNCHANGED Cardinality(applied)
      /\ runs'[r].pc = "failed"
  BY <1>1, <1>2, GotoStep DEF Stages
<1>4. fate[r] = "open" /\ fate'[r] = "void"
  BY <1>1, <1>2, <1>3, FateNow, FateNext DEF FateOf
<1>5. Log!Turn({r}, "open", "void")
  BY <1>3, <1>4, TurnOne
<1> QED
  BY <1>3, <1>5 DEF LogStep, Log!Next, Log!Void

-----------------------------------------------------------------------------
(* The steps of the cluster                                                *)

\* Runs turn together, those of S and no other.
LEMMA TurnMany ==
  ASSUME NEW S \in SUBSET Runs, NEW from, NEW to,
         \A q \in S : fate[q] = from /\ fate'[q] = to,
         \A q \in Runs \ S : fate'[q] = fate[q]
  PROVE  Log!Turn(S, from, to)
<1>1. fate' = [q \in Runs |-> fate'[q]]
  BY DEF fate
<1>2. fate' = [q \in Runs |-> IF q \in S THEN to ELSE fate[q]]
  BY <1>1
<1> QED
  BY <1>2 DEF Log!Turn

\* The runs keep what they have signed while the cluster moves.
LEMMA SameRuns ==
  ASSUME runs' = runs
  PROVE  \A q \in Runs : Signed(q)' = Signed(q) /\ Transaction(q)' = Transaction(q)
  BY DEF Signed, Transaction

LEMMA BlockStep ==
  ASSUME ToolInv, NextBlock
  PROVE  ToolInv' /\ LogStep
<1>1. /\ height' = height + 1 /\ UNCHANGED <<runs, network, applied, refused>>
      /\ height \in Nat
  BY DEF NextBlock, ToolInv
<1>2. ToolInv'
  BY <1>1, SameRuns DEF ToolInv, SignedBySome
<1> DEFINE S == {q \in Runs : fate[q] = "open" /\ fate'[q] = "void"}
<1>3. ASSUME NEW q \in Runs \ S
      PROVE  fate'[q] = fate[q]
  <2>1. /\ runs'[q] = runs[q] /\ Signed(q)' = Signed(q)
        /\ Transaction(q)' = Transaction(q)
    BY <1>1, SameRuns
  <2>2. Signed(q) /\ Expired(runs[q].blockhash) => Expired(runs[q].blockhash)'
    <3> SUFFICES ASSUME Signed(q), Expired(runs[q].blockhash)
                 PROVE  Expired(runs[q].blockhash)'
      OBVIOUS
    <3>1. runs[q].blockhash \in Nat
      BY NotIdle DEF Signed, ToolInv, Invoked
    <3> QED
      BY <1>1, <2>1, <3>1, ClusterAssumption DEF Expired
  <2> QED
    BY <1>1, <1>3, <2>1, <2>2, FateNow, FateNext DEF FateOf
<1>4. Log!Turn(S, "open", "void")
  BY <1>3, TurnMany
<1>5. Log!Void(S)
  BY <1>1, <1>4 DEF Log!Void
<1> QED
  BY <1>2, <1>5 DEF LogStep, Log!Next

LEMMA LoseStep ==
  ASSUME ToolInv, NEW tx \in network, Lose(tx)
  PROVE  ToolInv' /\ LogStep
<1>1. network' \subseteq network /\ UNCHANGED <<height, runs, applied, refused>>
  BY DEF Lose
<1>2. ToolInv'
  BY <1>1, SameRuns DEF ToolInv, SignedBySome
<1>3. fate' = fate
  BY <1>1, SameRuns DEF fate, Expired
<1> QED
  BY <1>1, <1>2, <1>3 DEF LogStep, Log!vars

\* The runs that signed a transaction of the network are open when it lands, and
\* there is one.
LEMMA SignersOpen ==
  ASSUME ToolInv, NEW tx \in network, CanLand(tx)
  PROVE  /\ \A q \in Runs : Signed(q) /\ Transaction(q) = tx => fate[q] = "open"
         /\ \E q \in Runs : Signed(q) /\ Transaction(q) = tx
<1>1. \E q \in Runs : Signed(q) /\ Transaction(q) = tx
  BY DEF ToolInv, SignedBySome
<1>2. ASSUME NEW q \in Runs, Signed(q), Transaction(q) = tx
      PROVE  fate[q] = "open"
  <2>1. tx.blockhash = runs[q].blockhash
    BY <1>2 DEF Transaction
  <2>2. /\ tx \notin applied /\ tx \notin refused
        /\ ~Expired(runs[q].blockhash)
    BY <2>1 DEF CanLand, Landed
  <2> QED
    BY <1>2, <2>2, FateNow DEF FateOf, Signed
<1> QED
  BY <1>1, <1>2

LEMMA SignersApplied ==
  ASSUME ToolInv, NEW tx \in network, LandApplied(tx),
         NEW q \in Runs, Signed(q), Transaction(q) = tx
  PROVE  fate[q] = "open" /\ fate'[q] = "applied"
<1>1. CanLand(tx) /\ applied' = applied \union {tx} /\ UNCHANGED <<height, runs>>
  BY DEF LandApplied
<1>2. runs'[q] = runs[q] /\ Signed(q)' /\ Transaction(q)' \in applied'
  BY <1>1, SameRuns
<1> QED
  BY <1>1, <1>2, SignersOpen, FateNext DEF FateOf, Signed

LEMMA AppliedStep ==
  ASSUME ToolInv, NEW tx \in network, LandApplied(tx)
  PROVE  ToolInv' /\ LogStep
<1> DEFINE S == {q \in Runs : Signed(q) /\ Transaction(q) = tx}
<1>1. /\ CanLand(tx) /\ tx \notin applied
      /\ applied' = applied \union {tx}
      /\ UNCHANGED <<height, runs, network, refused>>
  BY DEF LandApplied, CanLand, Landed
<1>2. IsFiniteSet(applied') /\ Cardinality(applied') = Cardinality(applied) + 1
  BY <1>1, FS_AddElement DEF ToolInv
<1>3. ToolInv'
  BY <1>1, <1>2, SameRuns DEF ToolInv, SignedBySome
<1>4. ASSUME NEW q \in S
      PROVE  fate[q] = "open" /\ fate'[q] = "applied"
  BY SignersApplied
<1>5. ASSUME NEW q \in Runs \ S
      PROVE  fate'[q] = fate[q]
  <2>1. /\ runs'[q] = runs[q] /\ Signed(q)' = Signed(q)
        /\ Transaction(q)' = Transaction(q)
        /\ Expired(runs[q].blockhash)' = Expired(runs[q].blockhash)
    BY <1>1, SameRuns DEF Expired
  <2>2. Signed(q) => (Transaction(q) \in applied' <=> Transaction(q) \in applied)
    BY <1>1
  <2> QED
    BY <1>1, <2>1, <2>2, FateNow, FateNext DEF FateOf
<1>6. S # {}
  BY <1>1, SignersOpen
<1>7. Log!Turn(S, "open", "applied")
  BY <1>4, <1>5, TurnMany
<1>8. Log!Apply(S)
  BY <1>2, <1>6, <1>7 DEF Log!Apply
<1> QED
  BY <1>3, <1>8 DEF LogStep, Log!Next

LEMMA RefusedStep ==
  ASSUME ToolInv, NEW tx \in network, LandRefused(tx)
  PROVE  ToolInv' /\ LogStep
<1> DEFINE S == {q \in Runs : Signed(q) /\ Transaction(q) = tx}
<1>1. /\ CanLand(tx) /\ tx \notin applied
      /\ refused' = refused \union {tx}
      /\ UNCHANGED <<height, runs, network, applied>>
  BY DEF LandRefused, CanLand, Landed
<1>2. ToolInv'
  BY <1>1, SameRuns DEF ToolInv, SignedBySome
<1>3. ASSUME NEW q \in S
      PROVE  fate[q] = "open" /\ fate'[q] = "refused"
  <2>1. /\ runs'[q] = runs[q] /\ Signed(q)' /\ Transaction(q)' \in refused'
        /\ Transaction(q)' \notin applied' /\ Signed(q)
    BY <1>1, SameRuns
  <2> QED
    BY <1>1, <2>1, SignersOpen, FateNext DEF FateOf, Signed
<1>4. ASSUME NEW q \in Runs \ S
      PROVE  fate'[q] = fate[q]
  <2>1. /\ runs'[q] = runs[q] /\ Signed(q)' = Signed(q)
        /\ Transaction(q)' = Transaction(q)
        /\ Expired(runs[q].blockhash)' = Expired(runs[q].blockhash)
    BY <1>1, SameRuns DEF Expired
  <2>2. Signed(q) => (Transaction(q) \in refused' <=> Transaction(q) \in refused)
    BY <1>1
  <2> QED
    BY <1>1, <2>1, <2>2, FateNow, FateNext DEF FateOf
<1>5. Log!Turn(S, "open", "refused")
  BY <1>3, <1>4, TurnMany
<1>6. Log!Refuse(S)
  BY <1>1, <1>5 DEF Log!Refuse
<1> QED
  BY <1>2, <1>6 DEF LogStep, Log!Next

\* What leaves the tool and the cluster alone leaves the log alone.
LEMMA ElsewhereStep ==
  ASSUME ToolInv, UNCHANGED tool
  PROVE  ToolInv' /\ LogStep
<1>1. UNCHANGED <<height, runs, network, applied, refused>>
  BY DEF tool
<1>2. ToolInv'
  BY <1>1, SameRuns DEF ToolInv, SignedBySome
<1>3. fate' = fate
  BY <1>1, SameRuns DEF fate, Expired
<1> QED
  BY <1>1, <1>2, <1>3 DEF LogStep, Log!vars

LEMMA AdminStep ==
  ASSUME ToolInv, [AdminNext]_adminVars
  PROVE  ToolInv' /\ LogStep
<1>1. CASE ToolStep
  <2>1. ASSUME NEW r \in Runs, Proceed(r)
        PROVE  ToolInv' /\ LogStep
    BY <2>1, FetchStep, SignStep, AnswerStep, FailStep DEF Proceed
  <2> QED
    BY <1>1, <2>1, InvokeStep DEF ToolStep
<1>2. CASE ClusterStep
  BY <1>2, BlockStep, LoseStep DEF ClusterStep
<1>3. CASE \E tx \in network : LandApplied(tx) \/ LandRefused(tx)
  BY <1>3, AppliedStep, RefusedStep
<1>4. CASE UNCHANGED tool
  BY <1>4, ElsewhereStep
<1>5. ToolStep \/ ClusterStep
        \/ (\E tx \in network : LandApplied(tx) \/ LandRefused(tx)) \/ UNCHANGED tool
  BY DEF AdminNext, adminVars
<1> QED
  BY <1>1, <1>2, <1>3, <1>4, <1>5

LEMMA AdminInitInv == AdminInit => ToolInv /\ Log!Init
<1> SUFFICES ASSUME AdminInit PROVE ToolInv /\ Log!Init
  OBVIOUS
<1>1. /\ height = 1 /\ network = {} /\ applied = {} /\ refused = {}
      /\ \A r \in Runs : runs[r].pc = "idle"
      /\ runs \in [Runs -> Invoked \union {Idle}]
  BY DEF AdminInit, Idle
<1>2. IsFiniteSet(applied) /\ Cardinality(applied) = 0
  BY <1>1, FS_EmptySet
<1>3. ToolInv
  BY <1>1, <1>2 DEF ToolInv, SignedBySome
<1>4. fate = [r \in Runs |-> "unused"]
  BY <1>1 DEF fate
<1> QED
  BY <1>2, <1>3, <1>4 DEF Log!Init

\* Whatever is lost, delayed, reordered, expired or answered with an error, the
\* runs of the tool settle as the log says, and the program takes one effect for
\* each transaction it applies.
THEOREM ToolKeepsLog == AdminSpec => ImplementsCommandLog
<1>1. AdminInit => ToolInv /\ Log!Init
  BY AdminInitInv
<1>2. ToolInv /\ [AdminNext]_adminVars => ToolInv' /\ [Log!Next]_(Log!vars)
  BY AdminStep DEF LogStep
<1> QED
  BY <1>1, <1>2, PTL DEF AdminSpec, ImplementsCommandLog, Log!Spec

-----------------------------------------------------------------------------
(* The program under the tool                                              *)

\* A transaction that is applied has a well-formed command, signed by a key.
LEMMA AppliedCommand ==
  ASSUME ToolInv, NEW tx \in network
  PROVE  tx.signer \in Keys /\ tx.command \in Commands /\ WellFormed(tx.command)
<1>1. PICK r \in Runs : Signed(r) /\ Transaction(r) = tx
  BY DEF ToolInv, SignedBySome
<1>2. runs[r] \in Invoked
  BY <1>1, NotIdle DEF Signed, ToolInv
<1>3. tx.signer \in Signers /\ tx.command \in Commands
  BY <1>1, <1>2 DEF Transaction, Invoked
<1> QED
  BY <1>3, CommandsAssumption DEF WellFormed

\* A command that takes effect is a step the program makes for its signer.
LEMMA TypedIsStep ==
  ASSUME TypeOK, NEW signer \in Keys, NEW command \in Commands,
         Typed(signer, command.name, command.args)
  PROVE  Initialization(signer) \/ Configuration(signer) \/ Movement(signer)
<1> DEFINE arg == command.args
<1>1. CASE command.name = "initializeContract"
  BY <1>1, ArgumentsAssumption DEF Typed, Initialization
<1>2. CASE command.name \in {"addLiquidity", "removeLiquidity"}
  <2>1. arg[1] \in Amounts
    BY <1>2, ArgumentsAssumption
  <2>2. \/ AddLiquidity(signer, Ata(signer, arg[2]), arg[1])
        \/ RemoveLiquidity(signer, Ata(signer, arg[2]), arg[1])
    BY <1>2 DEF Typed
  <2>3. Ata(signer, arg[2]) \in TokenAccounts
    BY <2>2 DEF AddLiquidity, CanAddLiquidity, RemoveLiquidity,
           CanRemoveLiquidity, HeldBy, TypeOK
  <2> QED
    BY <2>1, <2>2, <2>3 DEF Movement, Liquidity
<1>3. CASE command.name \notin
             {"initializeContract", "addLiquidity", "removeLiquidity"}
  BY <1>3, ArgumentsAssumption DEF Typed, Configuration, Addresses, Settings, State
<1> QED
  BY <1>1, <1>2, <1>3

\* What the program does with the transactions of the tool.
LEMMA LandedStep ==
  ASSUME ToolInv, TypeOK, NEW tx \in network, LandApplied(tx)
  PROVE  /\ tx.signer \in Keys
         /\ \/ Initialization(tx.signer)
            \/ Configuration(tx.signer)
            \/ Movement(tx.signer)
  BY AppliedCommand, ExecuteIsTyped, TypedIsStep DEF LandApplied

\* Under the tool the program makes only steps of its own.
LEMMA ProgramStep ==
  ASSUME ToolInv, TypeOK, [AdminNext]_adminVars
  PROVE  [Next]_vars
<1>1. CASE (ToolStep \/ ClusterStep) /\ UNCHANGED vars
  BY <1>1
<1>2. ASSUME NEW tx \in network, LandApplied(tx) \/ LandRefused(tx)
      PROVE  [Next]_vars
  <2>1. CASE LandRefused(tx)
    BY <2>1 DEF LandRefused
  <2>2. CASE LandApplied(tx)
    BY <2>2, LandedStep DEF Next, Configuration, Movement
  <2> QED
    BY <1>2, <2>1, <2>2
<1>3. CASE Elsewhere
  BY <1>3, KeysAssumption DEF Elsewhere, Next, Addresses
<1>4. CASE UNCHANGED adminVars
  BY <1>4 DEF adminVars
<1> QED
  BY <1>1, <1>2, <1>3, <1>4 DEF AdminNext

LEMMA AdminInvariant == AdminSpec => [](ToolInv /\ TypeOK)
<1>1. AdminInit => ToolInv /\ TypeOK
  BY AdminInitInv, InitTypeOK DEF AdminInit
<1>2. ToolInv /\ TypeOK /\ [AdminNext]_adminVars => (ToolInv /\ TypeOK)'
  BY AdminStep, ProgramStep, NextStep
<1> QED
  BY <1>1, <1>2, PTL DEF AdminSpec

\* Every command that takes effect is the operation its name says, on the
\* arguments in the order they are typed.
THEOREM ToolDoesAsTyped == AdminSpec => CommandsDoAsTyped
<1>1. ASSUME ToolInv, [AdminNext]_adminVars, NEW tx \in applied' \ applied
      PROVE  Typed(tx.signer, tx.command.name, tx.command.args)
  <2>1. tx \in network /\ LandApplied(tx)
    BY <1>1 DEF AdminNext, adminVars, tool, LandApplied, LandRefused, ToolStep,
       Proceed, Invoke, get_latest_blockhash, try_sign, send_transaction,
       FailBeforeSend, FailInSend, ClusterStep, NextBlock, Lose
  <2> QED
    BY <1>1, <2>1, AppliedCommand, ExecuteIsTyped DEF LandApplied
<1>2. ToolInv /\ [AdminNext]_adminVars =>
        [\A tx \in applied' \ applied :
           Typed(tx.signer, tx.command.name, tx.command.args)]_adminVars
  BY <1>1
<1> QED
  BY <1>2, AdminInvariant, PTL DEF AdminSpec, CommandsDoAsTyped

\* Every transaction of the tool that can land, but a removal of liquidity, is
\* accepted if the program admits the operation typed: no layer of the tool
\* passes an account the program's structs refuse.
THEOREM CommandsAlwaysAccepted == AdminSpec => []CommandsAccepted
<1>1. ToolInv => CommandsAccepted
  BY AppliedCommand, AcceptedAsAdmitted DEF CommandsAccepted, AcceptedAsTyped
<1> QED
  BY <1>1, AdminInvariant, PTL

-----------------------------------------------------------------------------
(* Who changes the configuration                                           *)

\* A step that changes at most the ledger, the public state or the fee collector.
KeepsConfiguration ==
  /\ whitelist' = whitelist
  /\ \/ bridge_state' = bridge_state
     \/ /\ Initialized
        /\ \/ \E value : bridge_state' = [bridge_state EXCEPT !.vault_amount = value]
           \/ \E value : bridge_state' = [bridge_state EXCEPT !.fee_collector = value]
           \/ \E value : bridge_state' = [bridge_state EXCEPT !.public_state = value]

LEMMA KeptIsNotReconfigured ==
  ASSUME TypeOK, KeepsConfiguration
  PROVE  ~Reconfigured
<1>1. CASE bridge_state' = bridge_state
  BY <1>1 DEF KeepsConfiguration, Reconfigured
<1>2. CASE bridge_state' # bridge_state
  <2>1. bridge_state \in BridgeState
    BY <1>2 DEF KeepsConfiguration, TypeOK, Initialized
  <2>2. Configured(bridge_state') = Configured(bridge_state)
    BY <1>2, <2>1 DEF KeepsConfiguration, Configured, BridgeState
  <2> QED
    BY <1>2, <2>2 DEF KeepsConfiguration, Reconfigured
<1> QED
  BY <1>1, <1>2

\* A movement of tokens touches the ledger alone.
LEMMA MovementKeeps ==
  ASSUME NEW authority, Movement(authority)
  PROVE  KeepsConfiguration
  BY DEF Movement, Liquidity, Bridging, TokenTransfers, AddLiquidity,
     CanAddLiquidity, RemoveLiquidity,
     CanRemoveLiquidity, SendFromLiquidity, CanSendFromLiquidity, SendToLiquidity,
     CanSendToLiquidity, SplTransfer, Credited, Debited, ByAdmin, KeepsConfiguration

\* Of the configuration, others than the administrator can change the public
\* state alone.
LEMMA OthersKeep ==
  ASSUME NEW authority, authority # Admin,
         Initialization(authority) \/ Configuration(authority) \/ Movement(authority)
  PROVE  KeepsConfiguration
<1>1. CASE Initialization(authority)
  BY <1>1 DEF Initialization, InitializeContract, CanInitializeContract
<1>2. CASE Configuration(authority)
  BY <1>2 DEF Configuration, Addresses, Settings, UpdateRelayer, UpdateFeeCollector,
     UpdateWhitelistedMint, SetDepositLimits, SetFeeAmount, SetRelayerState,
     SetPublicState, CanSetPublicState, SetWhitelistState, AddToWhitelist,
     CanAddToWhitelist, RemoveFromWhitelist, CanRemoveFromWhitelist, ByAdmin,
     KeepsConfiguration
<1>3. CASE Movement(authority)
  BY <1>3, MovementKeeps
<1> QED
  BY <1>1, <1>2, <1>3

LEMMA ElsewhereKeeps ==
  ASSUME Elsewhere
  PROVE  KeepsConfiguration
<1>1. ASSUME NEW authority \in Keys \ {Admin},
             Addresses(authority) \/ Settings(authority) \/ Liquidity(authority)
      PROVE  KeepsConfiguration
  BY <1>1, OthersKeep DEF Configuration, Movement
<1>2. ASSUME NEW authority \in Keys,
             Bridging(authority) \/ TokenTransfers(authority)
      PROVE  KeepsConfiguration
  BY <1>2, MovementKeeps DEF Movement
<1>3. ASSUME NEW key \in CollectorChoices, UpdateFeeCollector(Admin, key)
      PROVE  KeepsConfiguration
  BY <1>3 DEF UpdateFeeCollector, ByAdmin, KeepsConfiguration
<1> QED
  BY <1>1, <1>2, <1>3 DEF Elsewhere, OpenAccount, CloseAccount, KeepsConfiguration

\* A transaction of the administrator that can land is one of a run that signed
\* it, has not landed and has not expired.
LEMMA LandingIsLive ==
  ASSUME ToolInv, NEW tx \in network, CanLand(tx), tx.signer = Admin
  PROVE  LiveCommand
<1>1. PICK r \in Runs : Signed(r) /\ Transaction(r) = tx
  BY DEF ToolInv, SignedBySome
<1>2. runs[r].signer = tx.signer /\ runs[r].blockhash = tx.blockhash
  BY <1>1 DEF Transaction
<1> QED
  BY <1>1, <1>2 DEF LiveCommand, CanLand

LEMMA ReconfiguredByLive ==
  ASSUME ToolInv, TypeOK, [AdminNext]_adminVars, Reconfigured
  PROVE  LiveCommand
<1>1. ~KeepsConfiguration
  BY KeptIsNotReconfigured
<1>2. ~UNCHANGED vars
  BY <1>1 DEF vars, KeepsConfiguration
<1>3. PICK tx \in network : LandApplied(tx)
  BY <1>1, <1>2, ElsewhereKeeps DEF AdminNext, adminVars, LandRefused
<1>4. tx.signer = Admin
  BY <1>1, <1>3, LandedStep, OthersKeep
<1> QED
  BY <1>3, <1>4, LandingIsLive DEF LandApplied

\* Once every command the administrator signed has landed or expired, the
\* configuration is final until the tool is run again, whatever the relayer,
\* the users and the cluster do.
THEOREM ConfigurationSettles == AdminSpec => SettledConfigurationStays
<1>1. ToolInv /\ TypeOK /\ [AdminNext]_adminVars =>
        [Reconfigured => LiveCommand]_adminVars
  BY ReconfiguredByLive
<1> QED
  BY <1>1, AdminInvariant, PTL DEF AdminSpec, SettledConfigurationStays

-----------------------------------------------------------------------------
(* Who changes the public state                                            *)

PublicStateChanged ==
  Initialized /\ bridge_state'.public_state # bridge_state.public_state

LEMMA PublicStateNotMoved ==
  ASSUME TypeOK, PublicStateChanged, NEW authority, Movement(authority)
  PROVE  FALSE
<1>1. bridge_state \in BridgeState
  BY DEF PublicStateChanged, TypeOK, Initialized
<1> QED
  BY <1>1 DEF Movement, Liquidity, Bridging, TokenTransfers, AddLiquidity,
     RemoveLiquidity, SendFromLiquidity, SendToLiquidity, SplTransfer, Credited,
     Debited, PublicStateChanged, BridgeState

\* Of the instructions, only public_pause and public_unpause change it.
LEMMA PublicStateByCaller ==
  ASSUME TypeOK, PublicStateChanged, NEW authority,
         Initialization(authority) \/ Configuration(authority) \/ Movement(authority)
  PROVE  authority \in {Admin, bridge_state.relayer_pubkey}
<1>1. bridge_state \in BridgeState
  BY DEF PublicStateChanged, TypeOK, Initialized
<1>2. CASE Initialization(authority)
  BY <1>2 DEF Initialization, InitializeContract, CanInitializeContract,
     PublicStateChanged
<1>3. CASE Configuration(authority)
  BY <1>1, <1>3 DEF Configuration, Addresses, Settings, UpdateRelayer,
     UpdateFeeCollector,
     UpdateWhitelistedMint, SetDepositLimits, SetFeeAmount, SetRelayerState,
     SetPublicState, CanSetPublicState, SetWhitelistState, AddToWhitelist,
     RemoveFromWhitelist, PublicStateChanged, BridgeState
<1>4. CASE Movement(authority)
  BY <1>4, PublicStateNotMoved
<1> QED
  BY <1>2, <1>3, <1>4

LEMMA PublicStateElsewhere ==
  ASSUME TypeOK, PublicStateChanged, Elsewhere
  PROVE  bridge_state.relayer_pubkey \in Keys \ {Admin}
<1>1. ASSUME NEW authority \in Keys \ {Admin},
             Addresses(authority) \/ Settings(authority) \/ Liquidity(authority)
      PROVE  bridge_state.relayer_pubkey \in Keys \ {Admin}
  BY <1>1, PublicStateByCaller DEF Configuration, Movement
<1>2. ASSUME NEW authority \in Keys,
             Bridging(authority) \/ TokenTransfers(authority)
      PROVE  FALSE
  BY <1>2, PublicStateNotMoved DEF Movement
<1>3. ASSUME NEW key \in CollectorChoices, UpdateFeeCollector(Admin, key)
      PROVE  FALSE
  BY <1>3 DEF UpdateFeeCollector, PublicStateChanged, TypeOK, Initialized, BridgeState
<1> QED
  BY <1>1, <1>2, <1>3 DEF Elsewhere, OpenAccount, CloseAccount, PublicStateChanged

\* A relayer that was replaced cannot undo a public pause, through transactions it
\* signed before either.
THEOREM PublicStateSettles == AdminSpec => SettledPublicStateStays
<1>1. ASSUME ToolInv, TypeOK, [AdminNext]_adminVars, PublicStateChanged
      PROVE  LiveCommand \/ bridge_state.relayer_pubkey \in Keys \ {Admin}
  <2>1. bridge_state' # bridge_state
    BY <1>1 DEF PublicStateChanged
  <2>2. CASE Elsewhere
    BY <1>1, <2>2, PublicStateElsewhere
  <2>3. ASSUME NEW tx \in network, LandApplied(tx)
        PROVE  LiveCommand \/ bridge_state.relayer_pubkey \in Keys \ {Admin}
    <3>1. /\ tx.signer \in Keys
          /\ tx.signer \in {Admin, bridge_state.relayer_pubkey}
      BY <1>1, <2>3, LandedStep, PublicStateByCaller
    <3>2. tx.signer = Admin => LiveCommand
      BY <1>1, <2>3, LandingIsLive DEF LandApplied
    <3> QED
      BY <3>1, <3>2
  <2> QED
    BY <1>1, <2>1, <2>2, <2>3 DEF AdminNext, adminVars, vars, LandRefused
<1>2. ToolInv /\ TypeOK /\ [AdminNext]_adminVars =>
        [ /\ Initialized
          /\ bridge_state'.public_state # bridge_state.public_state
          => LiveCommand \/ bridge_state.relayer_pubkey \in Keys \ {Admin} ]_adminVars
  BY <1>1 DEF PublicStateChanged
<1> QED
  BY <1>2, AdminInvariant, PTL DEF AdminSpec, SettledPublicStateStays

-----------------------------------------------------------------------------
(* What makes the ledger grow                                              *)

PausedGrowth ==
  Initialized /\ bridge_state.public_state = Inactive /\ Deposit > 0

\* No other client adds to the ledger while public deposits are paused.
LEMMA GrowthElsewhere ==
  ASSUME TypeOK, Elsewhere
  PROVE  ~PausedGrowth
<1> SUFFICES ASSUME PausedGrowth
             PROVE  FALSE
  OBVIOUS
<1>1. bridge_state \in BridgeState /\ bridge_state.vault_amount \in Nat
  BY AmountsAssumption DEF PausedGrowth, TypeOK, Initialized, BridgeState, U64
<1>2. bridge_state'.vault_amount # bridge_state.vault_amount
  BY <1>1 DEF PausedGrowth, Deposit
<1>3. ASSUME NEW authority \in Keys \ {Admin},
             Addresses(authority) \/ Settings(authority) \/ Liquidity(authority)
      PROVE  FALSE
  BY <1>1, <1>2, <1>3 DEF Addresses, Settings, Liquidity, UpdateRelayer,
     UpdateFeeCollector, UpdateWhitelistedMint, SetDepositLimits, SetFeeAmount,
     SetRelayerState, SetPublicState, SetWhitelistState, AddToWhitelist,
     RemoveFromWhitelist, AddLiquidity, CanAddLiquidity, RemoveLiquidity,
     CanRemoveLiquidity, ByAdmin, BridgeState
<1>4. ASSUME NEW key \in CollectorChoices, UpdateFeeCollector(Admin, key)
      PROVE  FALSE
  BY <1>1, <1>2, <1>4 DEF UpdateFeeCollector, BridgeState
<1>5. ASSUME NEW authority \in Keys, Bridging(authority)
      PROVE  FALSE
  <2>1. PICK amount \in Amounts :
          /\ amount <= bridge_state.vault_amount
          /\ bridge_state' = Debited(amount)
    BY <1>5 DEF Bridging, SendFromLiquidity, CanSendFromLiquidity, CanDebit,
       SendToLiquidity, CanSendToLiquidity, DepositAccepted, PausedGrowth, Active,
       Inactive
  <2>2. bridge_state'.vault_amount = bridge_state.vault_amount - amount
    BY <1>1, <2>1 DEF Debited, BridgeState
  <2>3. amount \in Nat
    BY AmountsAssumption DEF U64
  <2> QED
    BY <1>1, <2>2, <2>3 DEF PausedGrowth, Deposit
<1>6. ASSUME NEW authority \in Keys, TokenTransfers(authority)
      PROVE  FALSE
  BY <1>2, <1>6 DEF TokenTransfers, SplTransfer
<1>7. ASSUME UNCHANGED bridge_state
      PROVE  FALSE
  BY <1>2, <1>7
<1> QED
  BY <1>3, <1>4, <1>5, <1>6, <1>7 DEF Elsewhere, OpenAccount, CloseAccount

\* A command that makes the ledger grow adds the amount typed, or counts anew.
LEMMA GrowthTyped ==
  ASSUME TypeOK, PausedGrowth, NEW signer, NEW command \in Commands,
         WellFormed(command), Typed(signer, command.name, command.args)
  PROVE  Adds(command)
<1> DEFINE arg == command.args
<1>1. bridge_state \in BridgeState /\ bridge_state.vault_amount \in Nat
  BY AmountsAssumption DEF PausedGrowth, TypeOK, Initialized, BridgeState, U64
<1>2. bridge_state'.vault_amount # bridge_state.vault_amount
  BY <1>1 DEF PausedGrowth, Deposit
<1>3. command.name \in {"addLiquidity", "removeLiquidity"} => arg[1] \in Nat
  <2>1. Amounts \subseteq Nat
    BY AmountsAssumption DEF U64
  <2> QED
    BY <2>1, ArgumentsAssumption
<1>4. CASE command.name = "addLiquidity"
  <2>1. bridge_state' = Credited(arg[1])
    BY <1>4 DEF Typed, AddLiquidity
  <2>2. bridge_state'.vault_amount = bridge_state.vault_amount + arg[1]
    BY <1>1, <2>1 DEF Credited, BridgeState
  <2>3. Deposit = arg[1]
    BY <1>1, <1>3, <1>4, <2>2 DEF Deposit
  <2> QED
    BY <1>4, <2>3, AmountAndMint DEF Adds
<1>5. CASE command.name = "removeLiquidity"
  <2>1. bridge_state' = Debited(arg[1])
    BY <1>5 DEF Typed, RemoveLiquidity
  <2>2. bridge_state'.vault_amount = bridge_state.vault_amount - arg[1]
    BY <1>1, <2>1 DEF Debited, BridgeState
  <2> QED
    BY <1>1, <1>3, <1>5, <2>2 DEF PausedGrowth, Deposit
<1>6. CASE command.name = "updateWhitelistedMint"
  BY <1>6 DEF Adds
<1>7. CASE command.name \notin
             {"addLiquidity", "removeLiquidity", "updateWhitelistedMint"}
  BY <1>1, <1>2, <1>7 DEF Typed, PausedGrowth, InitializeContract,
     CanInitializeContract, UpdateRelayer, SetDepositLimits, SetFeeAmount,
     SetPublicState, SetRelayerState, SetWhitelistState, AddToWhitelist,
     RemoveFromWhitelist, BridgeState
<1> QED
  BY <1>4, <1>5, <1>6, <1>7

\* While public deposits are paused, the ledger grows only by what an open run
\* of addLiquidity typed, and that run is applied then and there; or it is
\* counted anew by a run of updateWhitelistedMint.
THEOREM PausedLedgerGrowth == AdminSpec => PausedLedgerGrowsByRun
<1>1. ASSUME ToolInv, TypeOK, [AdminNext]_adminVars, PausedGrowth
      PROVE  \E r \in Runs :
               fate[r] = "open" /\ fate'[r] = "applied" /\ Adds(runs[r].command)
  <2>1. bridge_state' # bridge_state
    BY <1>1, AmountsAssumption DEF PausedGrowth, Deposit, TypeOK, Initialized,
       BridgeState, U64
  <2>2. PICK tx \in network : LandApplied(tx)
    BY <1>1, <2>1, GrowthElsewhere DEF AdminNext, adminVars, vars, LandRefused
  <2>3. Adds(tx.command)
    BY <1>1, <2>2, AppliedCommand, ExecuteIsTyped, GrowthTyped DEF LandApplied
  <2>4. PICK r \in Runs : Signed(r) /\ Transaction(r) = tx
    BY <1>1 DEF ToolInv, SignedBySome
  <2>5. runs[r].command = tx.command
    BY <2>4 DEF Transaction
  <2> QED
    BY <1>1, <2>2, <2>3, <2>4, <2>5, SignersApplied
<1>2. ToolInv /\ TypeOK /\ [AdminNext]_adminVars =>
        [ /\ Initialized
          /\ bridge_state.public_state = Inactive
          /\ Deposit > 0
          => \E r \in Runs :
               fate[r] = "open" /\ fate'[r] = "applied" /\ Adds(runs[r].command) ]_adminVars
  BY <1>1 DEF PausedGrowth
<1> QED
  BY <1>2, AdminInvariant, PTL DEF AdminSpec, PausedLedgerGrowsByRun

=============================================================================
