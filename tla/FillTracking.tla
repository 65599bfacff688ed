---------------------------- MODULE FillTracking ----------------------------
(***************************************************************************)
(* What becomes of a fill after it was reported: the partial-fill handler  *)
(* (src/execution/partial_fill_handler.py) adds up the fills of a signal   *)
(* and closes what stays open too long; the reorg guard                    *)
(* (src/execution/reorg_guard.py) asks the node for the fate of each       *)
(* transaction.  A check asks two questions, and the chain moves on        *)
(* between them.  The two objects share no state: a fill that is handled   *)
(* between the questions of a check is one handled before or after it.     *)
(*                                                                         *)
(* A block has a height and a slot, which is ahead of it by the slots that *)
(* got no block.  The guard compares the one with the other.               *)
(***************************************************************************)
EXTENDS Integers, Sequences, FiniteSetsExt

CONSTANTS Txs, Signals,
          SignalOf,       \* SignalOf[t]: the signal that transaction t fills
          Amount,         \* Amount[t]: what it fills of it
          Expected,       \* Expected[s]: expected_amount
          FinalityDepth,  \* 150: blocks after which a slot counts as final
          RootDepth,      \* the node's own depth of a rooted block
          Named,          \* do the node's status entries name their transaction?
          Unstable,       \* bound: transactions whose block may be abandoned
          MaxHeight,      \* bound: block height
          MaxAhead        \* bound: how far slots are ahead of heights

ASSUME FillAssumption  == /\ SignalOf \in [Txs -> Signals]
                          /\ Amount \in [Txs -> Nat \ {0}]
                          /\ Expected \in [Signals -> Nat]
ASSUME DepthAssumption == /\ FinalityDepth \in Nat /\ RootDepth \in Nat
                          /\ RootDepth <= FinalityDepth + 1
ASSUME NodeAssumption  == Named \in BOOLEAN
ASSUME BoundAssumption == Unstable \subseteq Txs /\ MaxHeight \in Nat \ {0} /\ MaxAhead \in Nat

VARIABLES height,    \* block height of the cluster
          ahead,     \* slots that got no block before the first block of interest
          chain,     \* chain[t]: height and slot of the block with t, and whether t failed in it
          tracked,   \* _pending_txs[t]["status"], "none" for an unknown transaction
          check,     \* the check_tx_status under way, if any: transaction and height
          fills,     \* _partials
          broken,    \* does every call of the adjustment callback raise?
          order      \* the signals in the order in which _partials got them

node == <<height, ahead, chain>>
guard == <<tracked, check>>
handler == <<broken, fills, order>>
ftVars == <<height, ahead, chain, tracked, check, broken, fills, order>>

Unknown == 0   \* in place of a height that could not be read
Nowhere == [block |-> 0, slot |-> 0, err |-> FALSE]
NoFill  == [status |-> "none", filled |-> 0]

FtInit == /\ height = 1
          /\ ahead \in 0..MaxAhead
          /\ chain = [t \in Txs |-> Nowhere]
          /\ tracked = [t \in Txs |-> "none"]
          /\ check = {}
          /\ broken \in BOOLEAN
          /\ fills = [s \in Signals |-> NoFill]
          /\ order = <<>>

-----------------------------------------------------------------------------
(* The cluster.  A block that is not rooted yet may be abandoned, and its  *)
(* transactions may then come to lie in another block, with another result.*)
(* What happens to a transaction before its fill is reported is of no      *)
(* interest: it succeeds once.                                             *)

InBlock(t) == chain[t].block > 0
Rooted(t)  == InBlock(t) /\ height - chain[t].block >= RootDepth

Grow == /\ height < MaxHeight
        /\ height' = height + 1
        /\ UNCHANGED <<ahead, chain, guard, handler>>

Land(t, err) ==
  /\ ~InBlock(t)
  /\ err => tracked[t] = "pending"
  /\ height + ahead + FinalityDepth < MaxHeight   \* the bound leaves room for the verdict
  /\ chain' = [chain EXCEPT ![t] = [block |-> height, slot |-> height + ahead, err |-> err]]
  /\ UNCHANGED <<height, ahead, guard, handler>>

Reorg(t) == /\ t \in Unstable /\ InBlock(t) /\ ~Rooted(t) /\ tracked[t] # "none"
            /\ chain' = [chain EXCEPT ![t] = Nowhere]
            /\ UNCHANGED <<height, ahead, guard, handler>>

-----------------------------------------------------------------------------
(* PartialFillHandler.                                                     *)

\* on_partial_fill: a first fill is pending even if it is the whole order, and a
\* later one completes the order whatever its status was.
AfterFill(f, t) ==
  LET filled == f.filled + Amount[t] IN
  [filled |-> filled,
   status |-> IF f.status = "none" THEN "pending"
              ELSE IF filled >= Expected[SignalOf[t]] THEN "completed" ELSE f.status]

\* The caller reports a transaction it saw succeed, and has it tracked.
ReportFill(t) ==
  LET s == SignalOf[t] IN
  /\ tracked[t] = "none" /\ InBlock(t) /\ ~chain[t].err
  /\ fills' = [fills EXCEPT ![s] = AfterFill(@, t)]
  /\ order' = IF fills[s].status = "none" THEN Append(order, s) ELSE order
  /\ tracked' = [tracked EXCEPT ![t] = "pending"]
  /\ UNCHANGED <<node, check, broken>>

Remaining(s) == Max({0, Expected[s] - fills[s].filled})
Closed(f)    == [f EXCEPT !.status = "closed"]

\* force_close_remaining: whether a callback raises changes nothing here, the record
\* is closed before it is called.
ForceClosed(s) == IF Remaining(s) = 0 THEN [fills[s] EXCEPT !.status = "completed"]
                                      ELSE Closed(fills[s])

ForceClose(s) ==
  /\ fills[s].status = "pending"
  /\ fills' = [fills EXCEPT ![s] = ForceClosed(s)]
  /\ UNCHANGED <<node, guard, order, broken>>

\* Variant: whatever became of the order.
CancelAny(s) == /\ fills[s].status # "none"
                /\ fills' = [fills EXCEPT ![s] = Closed(@)]
                /\ UNCHANGED <<node, guard, order, broken>>

\* cancel_remaining does not look at what remains.
Cancel(s) ==
  /\ fills[s].status = "pending"
  /\ fills' = [fills EXCEPT ![s] = Closed(@)]
  /\ UNCHANGED <<node, guard, order, broken>>

\* Variant: the callback comes first, and an exception leaves the record as it is.
ResolvedUnlessRaising(s, raises) == IF raises THEN fills[s] ELSE ForceClosed(s)

\* The record of s after check_timeouts has come to it.
Resolved(s, raises) == ForceClosed(s)

\* check_timeouts: the records are as old as their place in _partials says, so those
\* beyond the timeout are the first k.  _log_adjustment guards the callback, the second
\* call of it is not guarded: if it raises, for the n-th record, the loop is over.
CheckTimeouts(k) ==
  LET due == {i \in 1..k : fills[order[i]].status = "pending"} IN
  \E n \in due, raises \in BOOLEAN :
    /\ IF raises THEN Remaining(order[n]) > 0 ELSE \A i \in due : i <= n
    /\ broken => \A i \in due : i <= n /\ Remaining(order[i]) > 0 => raises /\ i = n
    /\ fills' = [s \in Signals |-> IF \E i \in due : i <= n /\ order[i] = s
                                   THEN Resolved(s, raises /\ s = order[n]) ELSE fills[s]]
    /\ UNCHANGED <<node, guard, order, broken>>

-----------------------------------------------------------------------------
(* ReorgGuard.                                                             *)

\* Variant: only the number of confirmations counts.
StatusWithoutDepth(h, answer) ==
  IF ~answer.found THEN "PENDING"
  ELSE IF answer.err THEN "DROPPED"
  ELSE IF answer.ok /\ answer.rooted THEN "FINALIZED" ELSE "CONFIRMED"

\* check_tx_status without a last_valid_block_height, which detect_reorg never passes.
\* A node that says {"Ok": null} does not pass for ok, and its slot decides, measured
\* against a block height.
Status(h, answer) ==
  IF ~answer.found THEN "PENDING"
  ELSE IF answer.err THEN "DROPPED"
  ELSE IF answer.ok THEN IF answer.rooted THEN "FINALIZED" ELSE "CONFIRMED"
  ELSE IF h = Unknown THEN "PENDING"
  ELSE IF h - answer.slot > FinalityDepth THEN "FINALIZED"
  ELSE IF answer.slot <= h THEN "CONFIRMED" ELSE "PENDING"

\* What the node may answer about t: what its block says, in one of two forms.  The guard
\* only knows an entry by the `signature` in it.
Answers(t) ==
  IF Named /\ InBlock(t)
  THEN {[found |-> TRUE, err |-> chain[t].err, ok |-> ok, rooted |-> Rooted(t),
         slot |-> chain[t].slot] : ok \in (IF chain[t].err THEN {FALSE} ELSE BOOLEAN)}
  ELSE {}

NoAnswer == [found |-> FALSE]

\* check_all_pending takes one pending transaction after the other; for each,
\* detect_reorg asks for the height first, which may fail.
ReadHeight(t, works) ==
  /\ check = {} /\ tracked[t] = "pending"
  /\ check' = {[tx |-> t, height |-> IF works THEN height ELSE Unknown]}
  /\ UNCHANGED <<node, tracked, handler>>

\* Variant: the height is asked for after the status, and may be any later one.
KnownHeightLater(c) == IF c.height = Unknown THEN Unknown ELSE MaxHeight

\* current_height, which is older than the answer it is compared with.
KnownHeight(c) == c.height

\* detect_reorg: DROPPED is announced, CONFIRMED is forgotten.
Conclude(c, status) ==
  /\ tracked' = [tracked EXCEPT ![c.tx] = CASE status = "DROPPED"   -> "dropped"
                                           [] status = "FINALIZED" -> "finalized"
                                           [] OTHER                -> @]
  /\ check' = {}
  /\ UNCHANGED <<node, handler>>

\* get_signature_statuses finds an entry for the transaction.
StatusFound(c) == \E answer \in Answers(c.tx) : Conclude(c, Status(KnownHeight(c), answer))

\* It finds none: the request failed, or the node does not know the transaction (any more)
\* or does not name it.
StatusMissing(c) == Conclude(c, Status(KnownHeight(c), NoAnswer))

ReadStatus(c) == StatusFound(c) \/ StatusMissing(c)

-----------------------------------------------------------------------------
Cluster == Grow \/ \E t \in Txs : Reorg(t) \/ \E err \in BOOLEAN : Land(t, err)
Fills   == \/ \E t \in Txs : ReportFill(t)
           \/ \E s \in Signals : ForceClose(s) \/ Cancel(s)
           \/ \E k \in DOMAIN order : CheckTimeouts(k)
Checks  == \/ \E c \in check : ReadStatus(c)
           \/ \E t \in Txs, works \in BOOLEAN : ReadHeight(t, works)

FtNext == Cluster \/ Fills \/ Checks

FtSpec == FtInit /\ [][FtNext]_ftVars

\* Blocks are produced, every record reaches its timeout, and the caller keeps
\* polling: it calls check_timeouts and check_all_pending again and again, which comes
\* to every transaction in turn.  Of the requests about a transaction that the node could
\* answer, not all fail for ever.
FtFairSpec == /\ FtSpec
              /\ WF_ftVars(Grow) /\ WF_ftVars(CheckTimeouts(Len(order)))
              /\ WF_ftVars(\E c \in check : ReadStatus(c))
              /\ \A t \in Txs : SF_ftVars(ReadHeight(t, TRUE))
              /\ SF_ftVars(\E c \in check : c.height # Unknown /\ StatusFound(c))

-----------------------------------------------------------------------------
(* Properties.                                                             *)

FtTypeOK ==
  /\ height \in 1..MaxHeight
  /\ ahead \in 0..MaxAhead
  /\ chain \in [Txs -> [block : 0..height, slot : 0 .. height + ahead, err : BOOLEAN]]
  /\ tracked \in [Txs -> {"none", "pending", "dropped", "finalized"}]
  /\ check \in SUBSET [tx : Txs, height : 0..height]
  /\ fills \in [Signals -> [status : {"none", "pending", "completed", "closed"},
                            filled : Nat]]
  /\ broken \in BOOLEAN
  /\ order \in Seq(Signals)

\* A transaction marked finalized is never lost again: although height and status are
\* read at different moments, with the chain moving and reorganising in between, the
\* verdict is only given on blocks that are rooted by then.  That a slot is compared with
\* a height, which is never ahead of it, only delays the verdict.
FinalizedStands == \A t \in Txs : tracked[t] = "finalized" => Rooted(t) /\ ~chain[t].err

\* A closed order is never open again and so never closed twice, although fills may
\* arrive after the close, and the timeout check, forced closes and cancellations
\* compete for it; at most it turns out to be complete.
ClosedOnce ==
  [][\A s \in Signals : fills[s].status \in {"closed", "completed"}
                       => fills'[s].status \in {fills[s].status, "completed"}]_ftVars

\* No partial fill outlives its timeout for ever, even if every callback raises and
\* cuts each round of check_timeouts short.
TimeoutsResolve ==
  \A s \in Signals : fills[s].status = "pending" ~> fills[s].status # "pending"

\* Once its block is rooted, the guard learns the fate of a tracked transaction, whether
\* the node says so or the distance from its slot must tell, of a node that names the
\* transaction its entries are about.
FateLearned ==
  \A t \in Txs : Named /\ Rooted(t) /\ tracked[t] = "pending" ~> tracked[t] # "pending"
=============================================================================
