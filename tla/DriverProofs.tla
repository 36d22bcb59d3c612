---------------------------- MODULE DriverProofs ----------------------------
(***************************************************************************)
(* Proofs for ConsensusDriver: a block the engine has decided reaches the  *)
(* disk unless a commit failed; and where one node is alone in its         *)
(* configuration and the others follow it, all nodes hold one chain whose  *)
(* epoch seeds can be derived from it.                                     *)
(***************************************************************************)
EXTENDS ConsensusDriver, SumLemmas

(* Lists of anything *)

IsList(s) == s \in Seq(ToSet(s))

LEMMA SeqIsAList == ASSUME NEW S, NEW s \in Seq(S) PROVE IsList(s)
  BY DEF IsList, ToSet

LEMMA SeqFacts ==
    ASSUME NEW s, IsList(s)
    PROVE  /\ Len(s) \in Nat /\ DOMAIN s = 1..Len(s)
           /\ \A i \in 1..Len(s) : s[i] \in ToSet(s)
           /\ \A x \in ToSet(s) : \E i \in 1..Len(s) : x = s[i]
           /\ s # <<>> => Head(s) \in ToSet(s) /\ Len(s) >= 1
  BY DEF IsList, ToSet

LEMMA EmptyList ==
    ASSUME NEW s, s = <<>> PROVE IsList(s) /\ ToSet(s) = {} /\ Len(s) = 0
<1>1. s \in Seq({}) /\ Len(s) = 0 /\ DOMAIN s = {}
  OBVIOUS
<1>2. ToSet(s) = {}
  BY <1>1 DEF ToSet
<1> QED
  BY <1>1, <1>2 DEF IsList

LEMMA SingleSeq == ASSUME NEW x PROVE IsList(<<x>>) /\ ToSet(<<x>>) = {x} /\ <<x>> # <<>>
<1>1. <<x>> \in Seq({x})
  OBVIOUS
<1>2. ToSet(<<x>>) = {x}
  BY DEF ToSet
<1> QED
  BY <1>1, <1>2 DEF IsList

LEMMA AppendFacts ==
    ASSUME NEW s, IsList(s), NEW x
    PROVE  LET t == Append(s, x) IN
           /\ IsList(t) /\ Len(t) = Len(s) + 1
           /\ \A i \in 1..Len(s) : t[i] = s[i]
           /\ t[Len(s) + 1] = x
           /\ ToSet(t) = ToSet(s) \cup {x}
<1> DEFINE S == ToSet(s) \cup {x}
           t == Append(s, x)
<1>1. s \in Seq(S) /\ Len(s) \in Nat /\ DOMAIN s = 1..Len(s)
  BY DEF IsList
<1>2. t \in Seq(S) /\ Len(t) = Len(s) + 1 /\ DOMAIN t = 1..(Len(s) + 1)
  BY <1>1
<1>3. (\A i \in 1..Len(s) : t[i] = s[i]) /\ t[Len(s) + 1] = x
  BY <1>1
<1>4. ToSet(t) = ToSet(s) \cup {x}
  <2> HIDE DEF t, S
  <2>1. ToSet(t) = {t[i] : i \in 1..(Len(s) + 1)} /\ ToSet(s) = {s[i] : i \in 1..Len(s)}
    BY <1>1, <1>2 DEF ToSet
  <2> QED
    BY <1>1, <1>3, <2>1
<1> QED
  BY <1>2, <1>3, <1>4, SeqIsAList

LEMMA ConcatFacts ==
    ASSUME NEW s, IsList(s), NEW t, IsList(t)
    PROVE  IsList(s \o t) /\ ToSet(s \o t) \subseteq ToSet(s) \cup ToSet(t)
<1> DEFINE S == ToSet(s) \cup ToSet(t)
<1>1. s \in Seq(S) /\ t \in Seq(S)
  BY DEF IsList
<1>2. s \o t \in Seq(S)
  BY <1>1
<1>3. ToSet(s \o t) \subseteq S
  <2> HIDE DEF S
  <2> QED
    BY <1>2 DEF ToSet
<1> QED
  BY <1>2, <1>3, SeqIsAList

LEMMA TailFacts ==
    ASSUME NEW s, IsList(s), s # <<>>
    PROVE  IsList(Tail(s)) /\ ToSet(Tail(s)) \subseteq ToSet(s)
<1>1. s \in Seq(ToSet(s))
  BY DEF IsList
<1> DEFINE S == ToSet(s)
<1> HIDE DEF S
<1>2. Tail(s) \in Seq(S)
  BY <1>1 DEF S
<1>3. ToSet(Tail(s)) \subseteq S
  BY <1>2 DEF ToSet
<1> QED
  BY <1>2, <1>3, SeqIsAList DEF S

LEMMA SubSeqFacts ==
    ASSUME NEW s, IsList(s), NEW m \in Nat \ {0}, NEW n \in Int, n <= Len(s)
    PROVE  IsList(SubSeq(s, m, n)) /\ ToSet(SubSeq(s, m, n)) \subseteq ToSet(s)
<1> DEFINE S == ToSet(s)
<1>1. s \in Seq(S)
  BY DEF IsList
<1> HIDE DEF S
<1>2. SubSeq(s, m, n) \in Seq(S)
  BY <1>1
<1>3. ToSet(SubSeq(s, m, n)) \subseteq S
  BY <1>2 DEF ToSet
<1> QED
  BY <1>2, <1>3, SeqIsAList DEF S
-----------------------------------------------------------------------------
(* The engine *)

EngineFields ==
    {"committee", "quorum", "seed", "safety", "round", "store", "accs", "seen", "committed_height"}

IsEngine(e) ==
    /\ e = [x \in EngineFields |-> e[x]]
    /\ e.committed_height \in Nat

(* What counting and voting leave alone. *)
SameCore(e, f) ==
    /\ IsEngine(f)
    /\ f.committee = e.committee /\ f.quorum = e.quorum /\ f.seed = e.seed
    /\ f.store = e.store /\ f.committed_height = e.committed_height

(* What a call leads to: at most one block is decided, one of the store,   *)
(* above the committed height, and only that moves the committed height.   *)
Decides(e, o) ==
    /\ o.decided \in e.store /\ o.decided.number > e.committed_height
    /\ o.engine.committed_height = o.decided.number
Follows(e, o) ==
    /\ IsEngine(o.engine)
    /\ o.engine.committee = e.committee /\ o.engine.quorum = e.quorum
    /\ o.engine.seed = e.seed /\ o.engine.store = e.store
    /\ \/ o.decided = NoBlock /\ o.engine.committed_height = e.committed_height
       \/ Decides(e, o)

NumberedStore(e) == \A b \in e.store : b.number \in Nat

LEMMA SameCoreTrans ==
    ASSUME NEW e, NEW f, NEW g, SameCore(e, f), SameCore(f, g) PROVE SameCore(e, g)
  BY DEF SameCore

LEMMA CountedCore ==
    ASSUME NEW e, IsEngine(e), NEW vote
    PROVE  SameCore(e, Counted(e, vote)) /\ Counted(e, vote).safety = e.safety
<1> DEFINE a == Accumulator(e, vote.data)
           b == IF a.data = vote.data THEN [a EXCEPT !.voters = @ \cup {vote.voter}] ELSE a
           f == [e EXCEPT !.seen = @ \cup {vote}, !.accs = (@ \ {a}) \cup {b}]
<1>1. Counted(e, vote) = IF Heard(e, vote) THEN f ELSE e
  BY Zenon DEF Counted
<1> HIDE DEF a, b
<1>2. SameCore(e, f) /\ f.safety = e.safety
  BY DEF SameCore, IsEngine, EngineFields
<1> HIDE DEF f
<1>3. SameCore(e, e)
  BY DEF SameCore
<1> QED
  BY <1>1, <1>2, <1>3

LEMMA VotedCore ==
    ASSUME NEW e, IsEngine(e), NEW data PROVE SameCore(e, Voted(e, data))
<1> DEFINE s == Rules!AfterVote(e.safety, data)
<1>1. Voted(e, data) = [e EXCEPT !.safety = s]
  BY DEF Voted
<1> HIDE DEF s
<1> QED
  BY <1>1 DEF SameCore, IsEngine, EngineFields

LEMMA LockedCore ==
    ASSUME NEW e, IsEngine(e), NEW data PROVE SameCore(e, Locked(e, data))
<1> DEFINE s == Rules!UpdateLockedQc(e.safety, [hash |-> data.hash, number |-> data.number])
<1>1. Locked(e, data) = [e EXCEPT !.safety = s]
  BY DEF Locked
<1> HIDE DEF s
<1> QED
  BY <1>1 DEF SameCore, IsEngine, EngineFields

LEMMA FollowsCore ==
    ASSUME NEW e, NEW f, NEW o, SameCore(e, f), Follows(f, o) PROVE Follows(e, o)
  BY DEF SameCore, Follows, Decides

LEMMA OutcomeFollows ==
    ASSUME NEW e, NEW f, SameCore(e, f) PROVE Follows(e, Outcome(f))
  BY DEF SameCore, Follows, Outcome

(* An outcome is a record of three. *)
IsOutcome(o) == o = [x \in {"engine", "sent", "decided"} |-> o[x]]

LEMMA SendingOutcome ==
    ASSUME NEW o, IsOutcome(o), NEW vote
    PROVE  /\ IsOutcome(Sending(vote, o))
           /\ Sending(vote, o).engine = o.engine /\ Sending(vote, o).decided = o.decided
           /\ Sending(vote, o).sent = <<vote>> \o o.sent
  BY DEF Sending, IsOutcome

LEMMA CommitVoteFollows ==
    ASSUME NEW e, IsEngine(e), NumberedStore(e), NEW vote
    PROVE  Follows(e, OnCommitVote(e, vote)) /\ IsOutcome(OnCommitVote(e, vote))
<1> DEFINE c == Counted(e, vote)
           block == vote.data.hash
           next == IF block.number + 1 > e.round THEN block.number + 1 ELSE e.round
           f == [c EXCEPT !.committed_height = block.number, !.round = next]
           o == [engine |-> f, sent |-> <<>>, decided |-> block]
<1>1. SameCore(e, c)
  BY CountedCore
<1>2. OnCommitVote(e, vote) =
        IF FormsQc(e, vote) /\ block \in e.store /\ block.number > e.committed_height
        THEN o ELSE Outcome(c)
  BY Zenon DEF OnCommitVote
<1>3. IsOutcome(o) /\ IsOutcome(Outcome(c))
  BY DEF IsOutcome, Outcome
<1> HIDE DEF c, next
<1>4. ASSUME block \in e.store, block.number > e.committed_height PROVE Follows(e, o)
  <2>1. block.number \in Nat
    BY <1>4 DEF NumberedStore
  <2>2. /\ IsEngine(f) /\ f.committee = e.committee /\ f.quorum = e.quorum /\ f.seed = e.seed
        /\ f.store = e.store /\ f.committed_height = block.number
    BY <1>1, <2>1 DEF SameCore, IsEngine, EngineFields
  <2> HIDE DEF f
  <2> QED
    BY <1>4, <2>2 DEF Follows, Decides
<1> QED
  BY <1>1, <1>2, <1>3, <1>4, OutcomeFollows

LEMMA PreCommitVoteFollows ==
    ASSUME NEW e, IsEngine(e), NumberedStore(e), NEW me, NEW vote
    PROVE  Follows(e, OnPreCommitVote(e, me, vote)) /\ IsOutcome(OnPreCommitVote(e, me, vote))
<1> DEFINE c == Counted(e, vote)
           mine == [voter |-> me, data |-> Data(vote.data.hash, Rules!Commit)]
           d == Voted(c, mine.data)
           o == OnCommitVote(d, mine)
<1>1. SameCore(e, c)
  BY CountedCore
<1>2. OnPreCommitVote(e, me, vote) =
        IF FormsQc(e, vote) /\ MayVote(c, mine.data, vote.data.number)
        THEN Sending(mine, o) ELSE Outcome(c)
  BY Zenon DEF OnPreCommitVote
<1>3. SameCore(c, d)
  BY <1>1, VotedCore DEF SameCore
<1> HIDE DEF c, d, mine
<1>4. IsEngine(d) /\ NumberedStore(d)
  BY <1>1, <1>3 DEF SameCore, NumberedStore
<1>5. Follows(d, o) /\ IsOutcome(o)
  BY <1>4, CommitVoteFollows
<1> HIDE DEF o
<1>6. Follows(e, o)
  BY <1>1, <1>3, <1>5, FollowsCore, SameCoreTrans
<1>7. Follows(e, Sending(mine, o)) /\ IsOutcome(Sending(mine, o))
  BY <1>5, <1>6, SendingOutcome DEF Follows, Decides
<1>8. Follows(e, Outcome(c)) /\ IsOutcome(Outcome(c))
  BY <1>1, OutcomeFollows DEF Outcome, IsOutcome
<1> QED
  BY <1>2, <1>7, <1>8

LEMMA PrepareVoteFollows ==
    ASSUME NEW e, IsEngine(e), NumberedStore(e), NEW me, NEW vote
    PROVE  Follows(e, OnPrepareVote(e, me, vote)) /\ IsOutcome(OnPrepareVote(e, me, vote))
<1> DEFINE c == IF FormsQc(e, vote) THEN Locked(Counted(e, vote), vote.data) ELSE Counted(e, vote)
           mine == [voter |-> me, data |-> Data(vote.data.hash, Rules!PreCommit)]
           d == Voted(c, mine.data)
           o == OnPreCommitVote(d, me, mine)
<1>1. SameCore(e, c)
  <2>1. SameCore(e, Counted(e, vote)) /\ IsEngine(Counted(e, vote))
    BY CountedCore DEF SameCore
  <2>2. SameCore(e, Locked(Counted(e, vote), vote.data))
    BY <2>1, LockedCore, SameCoreTrans
  <2> QED
    BY <2>1, <2>2
<1>2. OnPrepareVote(e, me, vote) =
        IF FormsQc(e, vote) /\ MayVote(c, mine.data, vote.data.number)
        THEN Sending(mine, o) ELSE Outcome(c)
  BY Zenon DEF OnPrepareVote
<1> HIDE DEF c
<1>3. SameCore(c, d)
  BY <1>1, VotedCore DEF SameCore
<1> HIDE DEF d, mine
<1>4. IsEngine(d) /\ NumberedStore(d)
  BY <1>1, <1>3 DEF SameCore, NumberedStore
<1>5. Follows(d, o) /\ IsOutcome(o)
  BY <1>4, PreCommitVoteFollows
<1> HIDE DEF o
<1>6. Follows(e, o)
  BY <1>1, <1>3, <1>5, FollowsCore, SameCoreTrans
<1>7. Follows(e, Sending(mine, o)) /\ IsOutcome(Sending(mine, o))
  BY <1>5, <1>6, SendingOutcome DEF Follows, Decides
<1>8. Follows(e, Outcome(c)) /\ IsOutcome(Outcome(c))
  BY <1>1, OutcomeFollows DEF Outcome, IsOutcome
<1> QED
  BY <1>2, <1>7, <1>8

(* on_vote, with everything it leads to. *)
LEMMA VoteFollows ==
    ASSUME NEW e, IsEngine(e), NumberedStore(e), NEW me, NEW vote
    PROVE  Follows(e, OnVote(e, me, vote)) /\ IsOutcome(OnVote(e, me, vote))
<1>1. \/ OnVote(e, me, vote) = OnPrepareVote(e, me, vote)
      \/ OnVote(e, me, vote) = OnPreCommitVote(e, me, vote)
      \/ OnVote(e, me, vote) = OnCommitVote(e, vote)
  BY DEF OnVote, Rules!Prepare, Rules!PreCommit
<1> QED
  BY <1>1, PrepareVoteFollows, PreCommitVoteFollows, CommitVoteFollows

(* on_proposal: the block is in the store afterwards. *)
Stored(e, block) == [e EXCEPT !.store = @ \cup {block}]

LEMMA StoredFacts ==
    ASSUME NEW e, IsEngine(e), NumberedStore(e), NEW block, block.number \in Nat
    PROVE  LET f == Stored(e, block) IN
           /\ IsEngine(f) /\ NumberedStore(f) /\ f.store = e.store \cup {block}
           /\ f.committee = e.committee /\ f.quorum = e.quorum /\ f.seed = e.seed
           /\ f.committed_height = e.committed_height /\ f.accs = e.accs
  BY DEF Stored, IsEngine, EngineFields, NumberedStore

LEMMA ProposalFollows ==
    ASSUME NEW e, IsEngine(e), NumberedStore(e), NEW me, NEW block, block.number \in Nat
    PROVE  /\ Follows(Stored(e, block), OnProposal(e, me, block))
           /\ IsOutcome(OnProposal(e, me, block))
<1> DEFINE f == Stored(e, block)
           mine == [voter |-> me, data |-> Data(block, Rules!Prepare)]
           d == Voted(f, mine.data)
           o == OnPrepareVote(d, me, mine)
<1>1. IsEngine(f) /\ NumberedStore(f)
  BY StoredFacts
<1>2. OnProposal(e, me, block) =
        IF MayVote(e, mine.data, block.number - 1) THEN Sending(mine, o) ELSE Outcome(f)
  BY Zenon DEF OnProposal, Stored
<1> HIDE DEF f
<1>3. SameCore(f, d) /\ SameCore(f, f)
  BY <1>1, VotedCore DEF SameCore
<1> HIDE DEF d, mine
<1>4. IsEngine(d) /\ NumberedStore(d)
  BY <1>1, <1>3 DEF SameCore, NumberedStore
<1>5. Follows(d, o) /\ IsOutcome(o)
  BY <1>4, PrepareVoteFollows
<1> HIDE DEF o
<1>6. Follows(f, o)
  BY <1>3, <1>5, FollowsCore
<1>7. Follows(f, Sending(mine, o)) /\ IsOutcome(Sending(mine, o))
  BY <1>5, <1>6, SendingOutcome DEF Follows, Decides
<1>8. Follows(f, Outcome(f)) /\ IsOutcome(Outcome(f))
  BY <1>3, OutcomeFollows DEF Outcome, IsOutcome
<1> QED
  BY <1>2, <1>7, <1>8 DEF f
-----------------------------------------------------------------------------
(* Types *)

(* A function on D, or a record with the fields D. *)
IsMap(f, D) == f = [x \in D |-> f[x]]

MessageOK(m) ==
    /\ m.type = "get" => m.from \in Nat \ {0} /\ m.to \in Nat
    /\ m.type = "blocks" => IsList(m.batch)

NodeTypes ==
    /\ IsMap(chain, Nodes) /\ IsMap(engine, Nodes) /\ IsMap(pc, Nodes) /\ IsMap(candidate, Nodes)
    /\ IsMap(count, {"restarts", "failures", "events"}) /\ count.failures \in Nat
    /\ \A v \in Nodes : IsList(chain[v]) /\ IsEngine(engine[v])

ChannelTypes ==
    /\ IsMap(channel, Nodes \X Nodes)
    /\ \A x \in Nodes \X Nodes : IsList(channel[x]) /\ \A m \in ToSet(channel[x]) : MessageOK(m)

Types == NodeTypes /\ ChannelTypes

(* A stored proposal is not above the next height, and one for the next    *)
(* height carries the seed that do_commit will expect: the seed only       *)
(* changes when the height does.                                           *)
StoreFits(v) ==
    \A b \in engine[v].store :
        /\ b.number \in Nat \ {0} /\ b.number <= Height(v) + 1
        /\ b.number = Height(v) + 1 => ValidateEpochSeed(b.number, b.epoch_seed, engine[v].seed)

(* A driver commits the block its engine decided last; any other decided   *)
(* height is on disk, or a commit failed.                                  *)
DecidedFits(v) ==
    IF pc[v] = "committing"
    THEN candidate[v] \in engine[v].store /\ candidate[v].number = engine[v].committed_height
    ELSE engine[v].committed_height <= Height(v) \/ count.failures > 0

NodeFits(v) == StoreFits(v) /\ DecidedFits(v)

DiskInv == Types /\ \A v \in Nodes : NodeFits(v)

(* The heights of a chain, and of what an import makes of it. *)
LEMMA ImportedFacts ==
    ASSUME NEW s, IsList(s), NEW held, NEW b
    PROVE  IsList(Imported(s, held, b)) /\ Len(Imported(s, held, b)) >= Len(s) /\ Len(s) \in Nat
<1>1. Len(s) \in Nat
  BY SeqFacts
<1> DEFINE t == Append(s, Executed(b, held, FALSE))
           u == Imported(s, held, b)
<1>2. IsList(t) /\ Len(t) = Len(s) + 1
  BY AppendFacts
<1>3. u = t \/ u = s
  BY Zenon DEF Imported
<1> HIDE DEF t, u
<1>4. IsList(u) /\ Len(u) >= Len(s)
  BY <1>1, <1>2, <1>3
<1> QED
  BY <1>1, <1>4 DEF u

(* What holds of a chain and is kept by each block of a batch holds of the *)
(* chain the batch makes of it.                                            *)
LEMMA BatchInduction ==
    ASSUME NEW Good, NEW blocks \in Good, NEW held, NEW batch, IsList(batch),
           \A s \in Good : \A b \in ToSet(batch) : Imported(s, held, b) \in Good
    PROVE  ImportedBatch(blocks, held, batch) \in Good
<1> DEFINE m == Len(batch)
           step == [x \in (1..m) \X Good |-> Imported(x[2], held, batch[x[1]])]
<1>1. m \in Nat /\ \A n \in 1..m : batch[n] \in ToSet(batch)
  BY SeqFacts
<1>2. step \in [(1..m) \X Good -> Good]
  BY <1>1
<1>3. \A n \in 1..m : \A s \in Good : step[<<n, s>>] = Imported(s, held, batch[n])
  OBVIOUS
<1> HIDE DEF m, step
<1>4. PICK g : IsRecursion(g, m, Good, blocks, step)
  BY <1>1, <1>2, RecursionExists
<1> DEFINE Solves(f) == f = [n \in 0..m |-> IF n = 0 THEN blocks ELSE Imported(f[n - 1], held, batch[n])]
           after == CHOOSE f : Solves(f)
<1>5. Solves(g)
  <2>1. g \in [0..m -> Good] /\ g[0] = blocks /\ \A n \in 1..m : g[n] = step[<<n, g[n - 1]>>]
    BY <1>4 DEF IsRecursion
  <2>2. \A n \in 0..m : g[n] = IF n = 0 THEN blocks ELSE Imported(g[n - 1], held, batch[n])
    <3>1. ASSUME NEW n \in 0..m, n # 0 PROVE g[n] = Imported(g[n - 1], held, batch[n])
      <4>1. n \in 1..m /\ n - 1 \in 0..m
        BY <1>1, <3>1
      <4>2. g[n - 1] \in Good
        BY <2>1, <4>1
      <4> QED
        BY <1>3, <2>1, <4>1, <4>2
    <3> QED
      BY <2>1, <3>1
  <2> QED
    BY <2>1, <2>2
<1>6. ImportedBatch(blocks, held, batch) = after[m]
  BY Zenon DEF ImportedBatch, m
<1>7. Solves(after)
  <2> HIDE DEF Solves
  <2> QED
    BY <1>5
<1> HIDE DEF after
<1> DEFINE Fine == {n \in 0..m : after[n] \in Good}
<1>8. 0 \in Fine
  <2>1. 0 \in 0..m
    BY <1>1
  <2>2. after[0] = blocks
    BY <1>7, <2>1
  <2> QED
    BY <2>1, <2>2
<1>9. ASSUME NEW n \in 1..m, n - 1 \in Fine PROVE n \in Fine
  <2>1. n \in 0..m /\ n # 0
    BY <1>1
  <2>2. after[n] = Imported(after[n - 1], held, batch[n])
    BY <1>7, <2>1
  <2> QED
    BY <1>1, <1>9, <2>1, <2>2
<1>10. m \in Fine
  <2>1. m \in 0..m
    BY <1>1
  <2> HIDE DEF Fine
  <2>2. \A n \in 0..m : n \in Fine
    BY <1>1, <1>8, <1>9, IntervalInduction
  <2> QED
    BY <2>1, <2>2
<1> QED
  BY <1>6, <1>10
-----------------------------------------------------------------------------
(* Messages: every message in a channel after a step was there before or   *)
(* is one of the new ones.                                                 *)

ChannelGrows(new) ==
    /\ IsMap(channel', Nodes \X Nodes)
    /\ \A x \in Nodes \X Nodes :
            IsList(channel'[x]) /\ ToSet(channel'[x]) \subseteq ToSet(channel[x]) \cup new

LEMMA ChannelSame ==
    ASSUME ChannelTypes, channel' = channel PROVE ChannelGrows({})
  BY DEF ChannelTypes, ChannelGrows

LEMMA BroadcastGrows ==
    ASSUME ChannelTypes, NEW v \in Nodes, NEW m, channel' = Broadcast(v, m)
    PROVE  ChannelGrows({m})
<1>1. ASSUME NEW x \in Nodes \X Nodes
      PROVE  IsList(channel'[x]) /\ ToSet(channel'[x]) \subseteq ToSet(channel[x]) \cup {m}
  <2> DEFINE s == channel[x]
             t == Append(s, m)
             u == channel'[x]
  <2>1. IsList(s)
    BY DEF ChannelTypes
  <2>2. u = t \/ u = s
    BY DEF Broadcast
  <2> HIDE DEF s
  <2>3. IsList(t) /\ ToSet(t) = ToSet(s) \cup {m}
    BY <2>1, AppendFacts
  <2> HIDE DEF t, u
  <2>4. IsList(u) /\ ToSet(u) \subseteq ToSet(s) \cup {m}
    BY <2>1, <2>2, <2>3
  <2> QED
    BY <2>4 DEF s, u
<1>2. IsMap(channel', Nodes \X Nodes)
  BY DEF Broadcast, IsMap
<1> QED
  BY <1>1, <1>2 DEF ChannelGrows

LEMMA DropGrows ==
    ASSUME ChannelTypes, NEW lost, Drop(lost) PROVE ChannelGrows({})
<1>1. ASSUME NEW x \in Nodes \X Nodes
      PROVE  IsList(channel'[x]) /\ ToSet(channel'[x]) \subseteq ToSet(channel[x])
  <2>1. channel'[x] = <<>> \/ channel'[x] = channel[x]
    BY DEF Drop
  <2>2. CASE channel'[x] = <<>>
    BY <2>2, EmptyList
  <2>3. CASE channel'[x] = channel[x]
    BY <2>3 DEF ChannelTypes
  <2> QED
    BY <2>1, <2>2, <2>3
<1>2. IsMap(channel', Nodes \X Nodes)
  BY DEF Drop, IsMap
<1> QED
  BY <1>1, <1>2 DEF ChannelGrows

LEMMA HandledGrows ==
    ASSUME ChannelTypes, NEW v \in Nodes, NEW w \in Nodes, NEW answer, IsList(answer),
           channel[<<w, v>>] # <<>>, Handled(v, w, answer)
    PROVE  ChannelGrows(ToSet(answer))
<1> DEFINE in == <<w, v>>
           out == <<v, w>>
           mid == [channel EXCEPT ![in] = Tail(channel[in])]
<1>0. in \in Nodes \X Nodes /\ out \in Nodes \X Nodes
  OBVIOUS
<1>1. IsMap(mid, Nodes \X Nodes) /\ \A x \in Nodes \X Nodes :
        IsList(mid[x]) /\ ToSet(mid[x]) \subseteq ToSet(channel[x])
  <2>1. IsMap(mid, Nodes \X Nodes)
    BY DEF ChannelTypes, IsMap
  <2>2. \A x \in Nodes \X Nodes :
            (x = in /\ mid[x] = Tail(channel[x])) \/ mid[x] = channel[x]
    BY <1>0 DEF ChannelTypes, IsMap
  <2>3. \A x \in Nodes \X Nodes : IsList(channel[x])
    BY DEF ChannelTypes
  <2> HIDE DEF mid
  <2>4. ASSUME NEW x \in Nodes \X Nodes
        PROVE  IsList(mid[x]) /\ ToSet(mid[x]) \subseteq ToSet(channel[x])
    <3>1. CASE x = in /\ mid[x] = Tail(channel[x])
      <4>1. channel[x] # <<>> /\ IsList(channel[x])
        BY <2>3, <3>1
      <4> QED
        BY <3>1, <4>1, TailFacts
    <3>2. CASE mid[x] = channel[x]
      BY <2>3, <3>2
    <3> QED
      BY <2>2, <3>1, <3>2
  <2> QED
    BY <2>1, <2>4
<1>2. \A x \in Nodes \X Nodes : \/ channel'[x] = mid[x] \/ channel'[x] = mid[x] \o answer
                                \/ channel'[x] = channel[x] \o answer
  BY <1>0 DEF Handled, ChannelTypes, IsMap
<1>3. IsMap(channel', Nodes \X Nodes)
  BY DEF Handled, ChannelTypes, IsMap
<1> HIDE DEF mid
<1>4. ASSUME NEW x \in Nodes \X Nodes
      PROVE  IsList(channel'[x]) /\ ToSet(channel'[x]) \subseteq ToSet(channel[x]) \cup ToSet(answer)
  <2>1. IsList(channel[x])
    BY DEF ChannelTypes
  <2>2. ASSUME NEW s, IsList(s), ToSet(s) \subseteq ToSet(channel[x]), channel'[x] = s \o answer
        PROVE  IsList(channel'[x]) /\ ToSet(channel'[x]) \subseteq ToSet(channel[x]) \cup ToSet(answer)
    <3>1. IsList(s \o answer) /\ ToSet(s \o answer) \subseteq ToSet(s) \cup ToSet(answer)
      BY <2>2, ConcatFacts
    <3> QED
      BY <2>2, <3>1
  <2>3. CASE channel'[x] = mid[x]
    BY <1>1, <2>3
  <2>4. CASE channel'[x] = mid[x] \o answer
    BY <1>1, <2>2, <2>4
  <2>5. CASE channel'[x] = channel[x] \o answer
    BY <2>1, <2>2, <2>5
  <2> QED
    BY <1>2, <2>3, <2>4, <2>5
<1> QED
  BY <1>3, <1>4 DEF ChannelGrows

LEMMA RequestFacts ==
    ASSUME NodeTypes, NEW v \in Nodes, NEW w \in Nodes
    PROVE  IsList(Request(v, w)) /\ \A m \in ToSet(Request(v, w)) : m.type = "get" /\ MessageOK(m)
<1> DEFINE to == Lower(Height(v) + MaxBlockRange, Height(w))
           m0 == Get(Height(v) + 1, to)
<1>1. Height(v) \in Nat /\ Height(w) \in Nat
  BY SeqFacts DEF NodeTypes, Height
<1>2. m0.type = "get" /\ MessageOK(m0)
  BY <1>1, DriverConstants DEF MessageOK, Get, Lower
<1>3. Request(v, w) = <<m0>> \/ Request(v, w) = <<>>
  BY DEF Request
<1> HIDE DEF m0
<1>4. CASE Request(v, w) = <<m0>>
  BY <1>2, <1>4, SingleSeq
<1>5. CASE Request(v, w) = <<>>
  <2>1. IsList(Request(v, w)) /\ ToSet(Request(v, w)) = {}
    BY <1>5, EmptyList
  <2> QED
    BY <2>1
<1> QED
  BY <1>3, <1>4, <1>5

LEMMA ConnectGrows ==
    ASSUME NodeTypes, ChannelTypes, NEW v \in Nodes, NEW w \in Nodes, Connect(v, w)
    PROVE  ChannelGrows(ToSet(Request(v, w)) \cup ToSet(Request(w, v)))
<1> DEFINE r == Request(v, w)
           s == Request(w, v)
<1>1. IsList(r) /\ IsList(s)
  BY RequestFacts
<1>2. \A x \in Nodes \X Nodes : channel'[x] = r \/ channel'[x] = s \/ channel'[x] = channel[x]
  BY DEF Connect, ChannelTypes, IsMap
<1>3. IsMap(channel', Nodes \X Nodes)
  BY DEF Connect, ChannelTypes, IsMap
<1>4. \A x \in Nodes \X Nodes : IsList(channel[x])
  BY DEF ChannelTypes
<1> HIDE DEF r, s
<1>5. \A x \in Nodes \X Nodes :
        IsList(channel'[x]) /\ ToSet(channel'[x]) \subseteq ToSet(channel[x]) \cup (ToSet(r) \cup ToSet(s))
  BY <1>1, <1>2, <1>4
<1>6. ChannelGrows(ToSet(r) \cup ToSet(s))
  BY <1>3, <1>5 DEF ChannelGrows
<1> QED
  BY <1>6 DEF r, s
-----------------------------------------------------------------------------
(* A decided block reaches the disk *)

(* Neither the store nor the committed height changes. *)
SameStore(e, f) ==
    IsEngine(f) /\ f.store = e.store /\ f.committed_height = e.committed_height

(* A node whose driver and engine stay as they are: its chain may grow. *)
LEMMA NodeKept ==
    ASSUME NEW w, NodeFits(w), Height(w) \in Nat, Height(w)' \in Nat, Height(w)' >= Height(w),
           IsEngine(engine[w]), SameStore(engine[w], engine'[w]), engine'[w].seed = engine[w].seed,
           (pc'[w] = "committing") <=> (pc[w] = "committing"), candidate'[w] = candidate[w],
           count.failures \in Nat, count'.failures \in Nat, count'.failures >= count.failures
    PROVE  NodeFits(w)'
<1> DEFINE h == Height(w)
           k == Height(w)'
           e == engine[w]
<1>1. StoreFits(w)'
  <2>1. SUFFICES ASSUME NEW b \in e.store
                 PROVE  /\ b.number \in Nat \ {0} /\ b.number <= k + 1
                        /\ b.number = k + 1 => ValidateEpochSeed(b.number, b.epoch_seed, e.seed)
    BY DEF StoreFits, SameStore
  <2>2. /\ b.number \in Nat \ {0} /\ b.number <= h + 1
        /\ b.number = h + 1 => ValidateEpochSeed(b.number, b.epoch_seed, e.seed)
    BY DEF NodeFits, StoreFits
  <2> HIDE DEF h, k, e
  <2>3. h \in Nat /\ k \in Nat /\ k >= h
    BY DEF h, k
  <2> QED
    BY <2>2, <2>3
<1>2. DecidedFits(w)'
  <2>1. h \in Nat /\ k \in Nat /\ k >= h /\ e.committed_height \in Nat
    BY DEF IsEngine
  <2>2. ASSUME IF pc[w] = "committing"
               THEN candidate[w] \in e.store /\ candidate[w].number = e.committed_height
               ELSE e.committed_height <= k \/ count'.failures > 0
        PROVE  DecidedFits(w)'
    BY <2>2 DEF DecidedFits, SameStore
  <2>3. IF pc[w] = "committing"
        THEN candidate[w] \in e.store /\ candidate[w].number = e.committed_height
        ELSE e.committed_height <= h \/ count.failures > 0
    BY DEF NodeFits, DecidedFits
  <2> HIDE DEF h, k
  <2> QED
    BY <2>1, <2>2, <2>3
<1> QED
  BY <1>1, <1>2 DEF NodeFits

(* The proposals of a store fit a height and a seed. *)
Fits(store, height, seed) ==
    \A b \in store :
        /\ b.number \in Nat \ {0} /\ b.number <= height + 1
        /\ b.number = height + 1 => ValidateEpochSeed(b.number, b.epoch_seed, seed)

LEMMA StoreFitsIs ==
    ASSUME NEW v PROVE StoreFits(v) <=> Fits(engine[v].store, Height(v), engine[v].seed)
  BY DEF StoreFits, Fits

(* A call into the engine. *)
LEMMA NodeStep ==
    ASSUME NEW v, NEW f, NEW o, IsEngine(f), Follows(f, o), Height(v) \in Nat,
           chain' = chain, count' = count, Fits(f.store, Height(v), f.seed),
           f.committed_height <= Height(v) \/ count.failures > 0,
           engine'[v] = o.engine, candidate'[v] = o.decided,
           (pc'[v] = "committing") <=> (o.decided # NoBlock)
    PROVE  NodeFits(v)'
<1>1. Height(v)' = Height(v)
  BY DEF Height
<1>2. engine'[v].store = f.store /\ engine'[v].seed = f.seed /\ IsEngine(engine'[v])
  BY DEF Follows
<1>3. StoreFits(v)'
  BY <1>1, <1>2 DEF StoreFits, Fits
<1>4. DecidedFits(v)'
  <2>1. CASE o.decided = NoBlock /\ o.engine.committed_height = f.committed_height
    BY <1>1, <2>1 DEF DecidedFits
  <2>2. CASE Decides(f, o)
    <3>1. o.decided.number > f.committed_height /\ f.committed_height \in Nat
      BY <2>2 DEF Decides, IsEngine
    <3>2. o.decided \in f.store /\ o.decided.number \in Nat
      BY <2>2 DEF Decides, Fits
    <3>3. o.decided # NoBlock
      BY <3>1, <3>2 DEF NoBlock
    <3>4. engine'[v].committed_height = o.decided.number
      BY <2>2 DEF Decides
    <3> QED
      BY <1>2, <3>2, <3>3, <3>4 DEF DecidedFits
  <2> QED
    BY <2>1, <2>2 DEF Follows
<1> QED
  BY <1>3, <1>4 DEF NodeFits

(* What do_commit does to the engine. *)
LEMMA PruneCore ==
    ASSUME NEW e, IsEngine(e), NEW height PROVE SameCore(e, PruneSeenVotes(e, height))
<1> DEFINE kept == {x \in e.seen : x.data.number >= height}
<1>1. PruneSeenVotes(e, height) = [e EXCEPT !.seen = kept]
  BY DEF PruneSeenVotes
<1> HIDE DEF kept
<1> QED
  BY <1>1 DEF SameCore, IsEngine, EngineFields

LEMMA RotateStore ==
    ASSUME NEW e, IsEngine(e), NEW block
    PROVE  SameStore(e, RotateSeed(e, block))
           /\ RotateSeed(e, block).committee = e.committee
           /\ RotateSeed(e, block).seed =
                IF EndsEpoch(block.number) THEN Append(e.seed, block) ELSE e.seed
<1> DEFINE s == Append(e.seed, block)
           f == [e EXCEPT !.seed = s]
           r == RotateSeed(e, block)
<1>1. r = IF EndsEpoch(block.number) THEN f ELSE e
  BY Zenon DEF RotateSeed
<1> HIDE DEF s
<1>2. SameStore(e, f) /\ f.seed = s /\ f.committee = e.committee
  BY DEF SameStore, IsEngine, EngineFields
<1>3. SameStore(e, e)
  BY DEF SameStore
<1> HIDE DEF f, r
<1>4. SameStore(e, r) /\ r.committee = e.committee
      /\ r.seed = IF EndsEpoch(block.number) THEN s ELSE e.seed
  BY <1>1, <1>2, <1>3
<1> QED
  BY <1>4 DEF r, s

LEMMA UpdateStore ==
    ASSUME NEW e, IsEngine(e), NEW committee
    PROVE  SameStore(e, UpdateValidatorSet(e, committee))
           /\ UpdateValidatorSet(e, committee).seed = e.seed
<1> DEFINE q == Quorum(committee)
<1>1. UpdateValidatorSet(e, committee) = [e EXCEPT !.committee = committee, !.quorum = q]
  BY DEF UpdateValidatorSet
<1> HIDE DEF q
<1> QED
  BY <1>1 DEF SameStore, IsEngine, EngineFields

LEMMA NewEngineFacts ==
    ASSUME NEW committee, NEW seed
    PROVE  LET e == NewEngine(committee, seed) IN
           /\ IsEngine(e) /\ e.store = {} /\ e.committed_height = 0 /\ e.accs = {}
           /\ e.seed = seed /\ e.quorum = Quorum(committee) /\ e.committee = committee
<1> DEFINE s == Rules!DefaultState
           q == Quorum(committee)
<1>1. NewEngine(committee, seed) =
        [committee |-> committee, quorum |-> q, seed |-> seed, safety |-> s, round |-> 1,
         store |-> {}, accs |-> {}, seen |-> {}, committed_height |-> 0]
  BY DEF NewEngine
<1> HIDE DEF s, q
<1>2. LET e == NewEngine(committee, seed) IN
        /\ e.store = {} /\ e.committed_height = 0 /\ e.accs = {}
        /\ e.seed = seed /\ e.quorum = q /\ e.committee = committee
  BY <1>1
<1>3. IsEngine(NewEngine(committee, seed))
  BY <1>1 DEF IsEngine, EngineFields
<1> QED
  BY <1>2, <1>3 DEF q
-----------------------------------------------------------------------------
(* The steps *)

CountKept ==
    /\ IsMap(count', {"restarts", "failures", "events"})
    /\ count'.failures \in Nat /\ count'.failures >= count.failures

LEMMA CountSame == ASSUME NodeTypes, count' = count PROVE CountKept
  BY DEF NodeTypes, CountKept

LEMMA CountEvent ==
    ASSUME NodeTypes, count' = [count EXCEPT !.events = @ + 1]
    PROVE  CountKept /\ count'.failures = count.failures /\ count'.restarts = count.restarts
  BY DEF NodeTypes, IsMap, CountKept

LEMMA MessagesKept ==
    ASSUME ChannelTypes, NEW new, ChannelGrows(new), \A m \in new : MessageOK(m)
    PROVE  ChannelTypes'
  BY DEF ChannelTypes, ChannelGrows

(* The nodes that take no part in a step. *)
Untouched(w) ==
    chain'[w] = chain[w] /\ engine'[w] = engine[w] /\ pc'[w] = pc[w] /\ candidate'[w] = candidate[w]

LEMMA UntouchedFits ==
    ASSUME DiskInv, CountKept, NEW w \in Nodes, Untouched(w)
    PROVE  NodeFits(w)' /\ IsList(chain'[w]) /\ IsEngine(engine'[w])
<1>1. IsEngine(engine[w]) /\ IsList(chain[w]) /\ NodeFits(w) /\ count.failures \in Nat
  BY DEF DiskInv, Types, NodeTypes
<1>2. Height(w) \in Nat /\ Height(w)' = Height(w)
  BY <1>1, SeqFacts DEF Height, Untouched
<1>3. SameStore(engine[w], engine'[w]) /\ engine'[w].seed = engine[w].seed
  BY <1>1 DEF SameStore, Untouched
<1>4. count'.failures \in Nat /\ count'.failures >= count.failures
  BY DEF CountKept
<1>5. NodeFits(w)'
  BY <1>1, <1>2, <1>3, <1>4, NodeKept DEF Untouched
<1> QED
  BY <1>1, <1>5 DEF Untouched

(* A step of one node. *)
OneNode(v) ==
    /\ IsMap(chain', Nodes) /\ IsMap(engine', Nodes) /\ IsMap(pc', Nodes) /\ IsMap(candidate', Nodes)
    /\ \A w \in Nodes \ {v} : Untouched(w)

LEMMA OneNodeStep ==
    ASSUME DiskInv, NEW v \in Nodes, OneNode(v), CountKept,
           NEW new, ChannelGrows(new), \A m \in new : MessageOK(m),
           NodeFits(v)', IsList(chain'[v]), IsEngine(engine'[v])
    PROVE  DiskInv'
<1>1. ASSUME NEW w \in Nodes PROVE NodeFits(w)' /\ IsList(chain'[w]) /\ IsEngine(engine'[w])
  <2>1. CASE w = v
    BY <2>1
  <2>2. CASE w # v
    <3>1. Untouched(w)
      BY <2>2 DEF OneNode
    <3> QED
      BY <3>1, UntouchedFits
  <2> QED
    BY <2>1, <2>2
<1>2. NodeTypes'
  BY <1>1 DEF NodeTypes, OneNode, CountKept
<1>3. ChannelTypes'
  BY MessagesKept DEF DiskInv, Types
<1> QED
  BY <1>1, <1>2, <1>3 DEF DiskInv, Types

LEMMA NodeFacts ==
    ASSUME DiskInv, NEW v \in Nodes
    PROVE  /\ IsList(chain[v]) /\ Height(v) \in Nat /\ IsEngine(engine[v])
           /\ Fits(engine[v].store, Height(v), engine[v].seed) /\ NumberedStore(engine[v])
           /\ DecidedFits(v) /\ ChannelTypes /\ NodeTypes
<1>1. IsList(chain[v]) /\ IsEngine(engine[v]) /\ NodeFits(v) /\ ChannelTypes /\ NodeTypes
  BY DEF DiskInv, Types, NodeTypes
<1>2. Height(v) \in Nat
  BY <1>1, SeqFacts DEF Height
<1>3. Fits(engine[v].store, Height(v), engine[v].seed) /\ DecidedFits(v)
  BY <1>1, StoreFitsIs DEF NodeFits
<1>4. NumberedStore(engine[v])
  BY <1>3 DEF Fits, NumberedStore
<1> QED
  BY <1>1, <1>2, <1>3, <1>4

LEMMA CandidateFits ==
    ASSUME NEW v, NEW staking, Height(v) \in Nat
    PROVE  LET c == Candidate(v, staking) IN
           /\ c.number = Height(v) + 1 /\ c.number \in Nat \ {0}
           /\ ValidateEpochSeed(c.number, c.epoch_seed, engine[v].seed)
           /\ IsMap(c, {"number", "coinbase", "timestamp", "epoch_seed", "staking", "state_root"})
           /\ c.coinbase = v /\ c.timestamp = count.restarts[v]
           /\ c.epoch_seed # SomeSeed(ZeroSeed)
  BY DEF Candidate, ValidateEpochSeed, IsMap, SomeSeed, NoSeed

LEMMA ProposeDisk ==
    ASSUME DiskInv, NEW v \in Nodes, NEW staking, RunRound(v, staking) PROVE DiskInv'
<1> DEFINE e == engine[v]
           c == Candidate(v, staking)
           f == Stored(e, c)
           o == OnProposal(e, v, c)
<1>1. /\ IsList(chain[v]) /\ Height(v) \in Nat /\ IsEngine(e)
      /\ Fits(e.store, Height(v), e.seed) /\ NumberedStore(e) /\ DecidedFits(v)
      /\ ChannelTypes /\ NodeTypes
  BY NodeFacts
<1>2. /\ c.number = Height(v) + 1 /\ c.number \in Nat \ {0}
      /\ ValidateEpochSeed(c.number, c.epoch_seed, e.seed)
  BY <1>1, CandidateFits
<1>3. /\ pc[v] = "idle" /\ chain' = chain /\ count' = count /\ channel' = channel
      /\ engine' = [engine EXCEPT ![v] = o.engine]
      /\ candidate' = [candidate EXCEPT ![v] = o.decided]
  BY DEF RunRound, net, disk
<1>4. IsMap(pc', Nodes) /\ (\A w \in Nodes \ {v} : pc'[w] = pc[w])
      /\ ((pc'[v] = "committing") <=> (o.decided # NoBlock))
  <2> DEFINE p == CASE o.decided # NoBlock -> "committing"
                    [] o.decided = NoBlock /\ o.sent # <<>> /\ e.quorum > 1 -> "waiting"
                    [] OTHER -> "idle"
  <2>1. pc' = [pc EXCEPT ![v] = p]
    BY DEF RunRound
  <2>2. (p = "committing") <=> (o.decided # NoBlock)
    <3> HIDE DEF o
    <3> QED
      OBVIOUS
  <2> HIDE DEF p, o
  <2> QED
    BY <1>1, <2>1, <2>2 DEF NodeTypes, IsMap
<1> HIDE DEF c
<1>5. Follows(f, o)
  BY <1>1, <1>2, ProposalFollows
<1>6. /\ IsEngine(f) /\ f.store = e.store \cup {c} /\ f.seed = e.seed
      /\ f.committed_height = e.committed_height
  BY <1>1, <1>2, StoredFacts
<1>7. Fits(f.store, Height(v), f.seed)
  BY <1>1, <1>2, <1>6 DEF Fits
<1>8. f.committed_height <= Height(v) \/ count.failures > 0
  BY <1>1, <1>3, <1>6 DEF DecidedFits
<1> HIDE DEF o, f, e
<1>9. engine'[v] = o.engine /\ candidate'[v] = o.decided
  BY <1>1, <1>3 DEF NodeTypes, IsMap
<1>10. OneNode(v)
  BY <1>1, <1>3, <1>4 DEF OneNode, Untouched, NodeTypes, IsMap
<1>11. NodeFits(v)'
  BY <1>1, <1>3, <1>4, <1>5, <1>6, <1>7, <1>8, <1>9, NodeStep
<1>12. IsList(chain'[v]) /\ IsEngine(engine'[v])
  BY <1>1, <1>3, <1>5, <1>9 DEF Follows
<1>13. CountKept /\ ChannelGrows({})
  BY <1>1, <1>3, CountSame, ChannelSame
<1> QED
  BY <1>10, <1>11, <1>12, <1>13, OneNodeStep

LEMMA DeliverDisk ==
    ASSUME DiskInv, NEW v \in Nodes, Deliver(v) PROVE DiskInv'
<1> DEFINE e == engine[v]
           vote == Head(inbox[v].queue)
           o == OnVote(e, v, vote)
<1>1. /\ IsList(chain[v]) /\ Height(v) \in Nat /\ IsEngine(e)
      /\ Fits(e.store, Height(v), e.seed) /\ NumberedStore(e) /\ DecidedFits(v)
      /\ ChannelTypes /\ NodeTypes
  BY NodeFacts
<1>2. /\ pc[v] = "waiting" /\ chain' = chain /\ count' = count /\ channel' = channel
      /\ engine' = [engine EXCEPT ![v] = o.engine]
      /\ candidate' = [candidate EXCEPT ![v] = o.decided]
      /\ pc' = IF o.decided # NoBlock THEN [pc EXCEPT ![v] = "committing"] ELSE pc
  BY DEF Deliver, net, disk
<1> HIDE DEF vote
<1>3. Follows(e, o)
  BY <1>1, VoteFollows
<1> HIDE DEF o, e
<1>4. IsMap(pc', Nodes) /\ (\A w \in Nodes \ {v} : pc'[w] = pc[w])
      /\ ((pc'[v] = "committing") <=> (o.decided # NoBlock))
  BY <1>1, <1>2 DEF NodeTypes, IsMap
<1>5. engine'[v] = o.engine /\ candidate'[v] = o.decided
  BY <1>1, <1>2 DEF NodeTypes, IsMap
<1>6. e.committed_height <= Height(v) \/ count.failures > 0
  BY <1>1, <1>2 DEF DecidedFits, e
<1>7. OneNode(v)
  BY <1>1, <1>2, <1>4 DEF OneNode, Untouched, NodeTypes, IsMap
<1>8. NodeFits(v)'
  BY <1>1, <1>2, <1>3, <1>4, <1>5, <1>6, NodeStep
<1>9. IsList(chain'[v]) /\ IsEngine(engine'[v])
  BY <1>1, <1>2, <1>3, <1>5 DEF Follows
<1>10. CountKept /\ ChannelGrows({})
  BY <1>1, <1>2, CountSame, ChannelSame
<1> QED
  BY <1>7, <1>8, <1>9, <1>10, OneNodeStep

LEMMA TimeoutDisk ==
    ASSUME DiskInv, NEW v \in Nodes, Timeout(v) \/ Lagged(v) PROVE DiskInv'
<1> DEFINE e == engine[v]
<1>1. /\ IsList(chain[v]) /\ Height(v) \in Nat /\ IsEngine(e) /\ ChannelTypes /\ NodeTypes
      /\ NodeFits(v) /\ count.failures \in Nat
  BY NodeFacts DEF DiskInv, NodeTypes
<1>2. /\ pc[v] = "waiting" /\ pc' = [pc EXCEPT ![v] = "idle"]
      /\ chain' = chain /\ candidate' = candidate /\ count' = count /\ channel' = channel
  BY DEF Timeout, Lagged, net, disk
<1>3. IsMap(engine', Nodes) /\ (\A w \in Nodes \ {v} : engine'[w] = engine[w])
      /\ (engine'[v] = e \/ engine'[v] = [e EXCEPT !.round = @ + 1])
  BY <1>1 DEF Timeout, Lagged, NodeTypes, IsMap
<1>4. SameStore(e, engine'[v]) /\ engine'[v].seed = e.seed
  BY <1>1, <1>3 DEF SameStore, IsEngine, EngineFields
<1>5. pc'[v] = "idle" /\ Height(v)' = Height(v)
  BY <1>1, <1>2 DEF NodeTypes, IsMap, Height
<1>6. OneNode(v)
  BY <1>1, <1>2, <1>3 DEF OneNode, Untouched, NodeTypes, IsMap
<1>7. CountKept /\ ChannelGrows({})
  BY <1>1, <1>2, CountSame, ChannelSame
<1>8. NodeFits(v)'
  BY <1>1, <1>2, <1>4, <1>5, <1>7, NodeKept DEF CountKept
<1>9. IsList(chain'[v]) /\ IsEngine(engine'[v])
  BY <1>1, <1>2, <1>4 DEF SameStore
<1> QED
  BY <1>6, <1>7, <1>8, <1>9, OneNodeStep

(* What do_commit leaves of the engine, whichever way it goes. *)
LEMMA CommittedEngine ==
    ASSUME NEW e, IsEngine(e), NEW height, NEW block, NEW elected
    PROVE  LET pruned == PruneSeenVotes(e, height)
               rotated == RotateSeed(pruned, block)
           IN  /\ SameStore(e, pruned) /\ pruned.seed = e.seed
               /\ SameStore(e, rotated)
               /\ rotated.seed = IF EndsEpoch(block.number) THEN Append(e.seed, block) ELSE e.seed
               /\ SameStore(e, UpdateValidatorSet(rotated, elected))
               /\ UpdateValidatorSet(rotated, elected).seed = rotated.seed
<1> DEFINE pruned == PruneSeenVotes(e, height)
           rotated == RotateSeed(pruned, block)
<1>1. SameCore(e, pruned)
  BY PruneCore
<1>2. SameStore(e, pruned) /\ IsEngine(pruned) /\ pruned.seed = e.seed
  BY <1>1 DEF SameCore, SameStore
<1> HIDE DEF pruned
<1>3. SameStore(pruned, rotated)
      /\ rotated.seed = IF EndsEpoch(block.number) THEN Append(pruned.seed, block) ELSE pruned.seed
  BY <1>2, RotateStore
<1> HIDE DEF rotated
<1>4. SameStore(rotated, UpdateValidatorSet(rotated, elected))
      /\ UpdateValidatorSet(rotated, elected).seed = rotated.seed
  BY <1>3, UpdateStore DEF SameStore
<1>5. SameStore(e, rotated) /\ SameStore(e, UpdateValidatorSet(rotated, elected))
  BY <1>2, <1>3, <1>4 DEF SameStore
<1>6. rotated.seed = IF EndsEpoch(block.number) THEN Append(e.seed, block) ELSE e.seed
  BY <1>2, <1>3
<1> QED
  BY <1>2, <1>4, <1>5, <1>6 DEF rotated, pruned

(* do_commit as seen from the node: the decided block is appended, or it   *)
(* was not for the next height, and then it is on disk already.            *)
Appends(v) ==
    LET stored == Executed(candidate[v], accounts[v], TRUE)
        e == engine[v]
    IN  /\ candidate[v].number = Height(v) + 1
        /\ ValidateEpochSeed(candidate[v].number, candidate[v].epoch_seed, e.seed)
        /\ chain' = [chain EXCEPT ![v] = Append(@, stored)]
        /\ channel' = Broadcast(v, [type |-> "block", block |-> stored])
        /\ SameStore(e, engine'[v])
        /\ engine'[v].seed = IF EndsEpoch(stored.number) THEN Append(e.seed, stored) ELSE e.seed

Skips(v) ==
    /\ candidate[v].number <= Height(v)
    /\ chain' = chain /\ channel' = channel
    /\ SameStore(engine[v], engine'[v]) /\ engine'[v].seed = engine[v].seed

LEMMA DoCommitFacts ==
    ASSUME DiskInv, NEW v \in Nodes, DoCommit(v)
    PROVE  /\ pc[v] = "committing" /\ IsMap(pc', Nodes) /\ pc'[v] # "committing"
           /\ IsMap(engine', Nodes) /\ IsMap(candidate', Nodes) /\ count' = count
           /\ \A w \in Nodes \ {v} :
                pc'[w] = pc[w] /\ engine'[w] = engine[w] /\ candidate'[w] = candidate[w]
           /\ Appends(v) \/ Skips(v)
<1> DEFINE e == engine[v]
           block == candidate[v]
           stored == Executed(block, accounts[v], TRUE)
           valid == ValidateEpochSeed(block.number, block.epoch_seed, e.seed)
           pruned == PruneSeenVotes(e, block.number)
           rotated == RotateSeed(pruned, stored)
           elected == ElectActiveSet(v)
           updated == UpdateValidatorSet(rotated, elected)
<1>1. /\ Height(v) \in Nat /\ IsEngine(e) /\ Fits(e.store, Height(v), e.seed)
      /\ DecidedFits(v) /\ NodeTypes
  BY NodeFacts
<1>2. /\ pc[v] = "committing" /\ candidate' = [candidate EXCEPT ![v] = NoBlock] /\ count' = count
      /\ IF valid /\ block.number = Height(v) + 1
         THEN /\ chain' = [chain EXCEPT ![v] = Append(@, stored)]
              /\ channel' = Broadcast(v, [type |-> "block", block |-> stored])
              /\ engine' = [engine EXCEPT ![v] =
                        IF StartsEpoch(block.number) /\ elected # <<>> THEN updated ELSE rotated]
              /\ pc' = [pc EXCEPT ![v] =
                        IF StartsEpoch(block.number) /\ elected = <<>> THEN "dead" ELSE "idle"]
         ELSE /\ engine' = [engine EXCEPT ![v] = IF valid THEN pruned ELSE @]
              /\ pc' = [pc EXCEPT ![v] = "idle"]
              /\ chain' = chain /\ channel' = channel
  BY DEF DoCommit, disk
<1>3. block \in e.store
  BY <1>1, <1>2 DEF DecidedFits
<1>4. /\ block.number \in Nat /\ block.number <= Height(v) + 1
      /\ block.number = Height(v) + 1 => valid
  BY <1>1, <1>3 DEF Fits
<1>5. /\ SameStore(e, pruned) /\ pruned.seed = e.seed /\ SameStore(e, rotated)
      /\ rotated.seed = IF EndsEpoch(stored.number) THEN Append(e.seed, stored) ELSE e.seed
      /\ SameStore(e, updated) /\ updated.seed = rotated.seed
  <2> HIDE DEF elected, stored
  <2> QED
    BY <1>1, CommittedEngine
<1>6. SameStore(e, e)
  BY <1>1 DEF SameStore
<1> HIDE DEF valid, pruned, rotated, updated, elected, stored, e, block
<1>7. /\ IsMap(candidate', Nodes) /\ IsMap(pc', Nodes) /\ IsMap(engine', Nodes)
      /\ pc'[v] # "committing"
      /\ \A w \in Nodes \ {v} :
            pc'[w] = pc[w] /\ engine'[w] = engine[w] /\ candidate'[w] = candidate[w]
  BY <1>1, <1>2 DEF NodeTypes, IsMap
<1>8. CASE block.number = Height(v) + 1
  <2>1. /\ chain' = [chain EXCEPT ![v] = Append(@, stored)]
        /\ channel' = Broadcast(v, [type |-> "block", block |-> stored])
        /\ engine'[v] = updated \/ engine'[v] = rotated
    BY <1>1, <1>2, <1>4, <1>8 DEF NodeTypes, IsMap
  <2>2. /\ SameStore(e, engine'[v])
        /\ engine'[v].seed = IF EndsEpoch(stored.number) THEN Append(e.seed, stored) ELSE e.seed
    BY <1>5, <2>1
  <2>3. Appends(v)
    BY <1>4, <1>8, <2>1, <2>2, Zenon DEF Appends, valid, e, block, stored
  <2> QED
    BY <1>2, <1>7, <2>3
<1>9. CASE block.number # Height(v) + 1
  <2>1. /\ chain' = chain /\ channel' = channel
        /\ engine'[v] = pruned \/ engine'[v] = engine[v]
    BY <1>1, <1>2, <1>9 DEF NodeTypes, IsMap
  <2>2. SameStore(e, engine'[v]) /\ engine'[v].seed = e.seed
    BY <1>5, <1>6, <2>1 DEF e
  <2>3. block.number <= Height(v)
    BY <1>1, <1>4, <1>9
  <2>4. Skips(v)
    BY <2>1, <2>2, <2>3 DEF Skips, e, block
  <2> QED
    BY <1>2, <1>7, <2>4
<1> QED
  BY <1>8, <1>9

LEMMA DoCommitDisk ==
    ASSUME DiskInv, NEW v \in Nodes, DoCommit(v) PROVE DiskInv'
<1> DEFINE e == engine[v]
           stored == Executed(candidate[v], accounts[v], TRUE)
<1>1. /\ IsList(chain[v]) /\ Height(v) \in Nat /\ IsEngine(e) /\ ChannelTypes /\ NodeTypes
      /\ Fits(e.store, Height(v), e.seed) /\ DecidedFits(v)
  BY NodeFacts
<1>2. /\ pc[v] = "committing" /\ IsMap(pc', Nodes) /\ pc'[v] # "committing"
      /\ IsMap(engine', Nodes) /\ IsMap(candidate', Nodes) /\ count' = count
      /\ \A w \in Nodes \ {v} :
            pc'[w] = pc[w] /\ engine'[w] = engine[w] /\ candidate'[w] = candidate[w]
      /\ Appends(v) \/ Skips(v)
  BY DoCommitFacts
<1>3. candidate[v].number = e.committed_height /\ e.committed_height \in Nat
  BY <1>1, <1>2 DEF DecidedFits, IsEngine
<1>4. CountKept
  BY <1>1, <1>2, CountSame
<1>5. CASE Appends(v)
  <2>1. /\ candidate[v].number = Height(v) + 1
        /\ chain' = [chain EXCEPT ![v] = Append(@, stored)]
        /\ channel' = Broadcast(v, [type |-> "block", block |-> stored])
        /\ SameStore(e, engine'[v])
    BY <1>5 DEF Appends
  <2> HIDE DEF stored
  <2>2. IsMap(chain', Nodes) /\ chain'[v] = Append(chain[v], stored)
        /\ \A w \in Nodes \ {v} : chain'[w] = chain[w]
    BY <1>1, <2>1 DEF NodeTypes, IsMap
  <2>3. IsList(chain'[v]) /\ Len(chain'[v]) = Len(chain[v]) + 1
    <3>1. IsList(Append(chain[v], stored)) /\ Len(Append(chain[v], stored)) = Len(chain[v]) + 1
      BY <1>1, AppendFacts
    <3> QED
      BY <2>2, <3>1
  <2>4. Height(v)' = Height(v) + 1
    BY <2>3 DEF Height
  <2>5. OneNode(v)
    BY <1>2, <2>2 DEF OneNode, Untouched
  <2> DEFINE m == [type |-> "block", block |-> stored]
  <2>6. MessageOK(m)
    BY DEF MessageOK
  <2>7. ChannelGrows({m})
    BY <1>1, <2>1, BroadcastGrows
  <2>8. StoreFits(v)'
    BY <1>1, <2>1, <2>4 DEF StoreFits, Fits, SameStore
  <2>9. DecidedFits(v)'
    <3>1. engine'[v].committed_height = Height(v) + 1
      BY <1>3, <2>1 DEF SameStore
    <3>2. engine'[v].committed_height <= Height(v)'
      BY <1>1, <2>4, <3>1
    <3> QED
      BY <1>2, <3>2 DEF DecidedFits
  <2>10. NodeFits(v)' /\ IsEngine(engine'[v])
    BY <2>1, <2>8, <2>9 DEF NodeFits, SameStore
  <2> HIDE DEF m
  <2> QED
    BY <1>4, <2>3, <2>5, <2>6, <2>7, <2>10, OneNodeStep
<1>6. CASE Skips(v)
  <2>1. /\ candidate[v].number <= Height(v) /\ chain' = chain /\ channel' = channel
        /\ SameStore(e, engine'[v]) /\ engine'[v].seed = e.seed
    BY <1>6 DEF Skips
  <2>2. Height(v)' = Height(v)
    BY <2>1 DEF Height
  <2>3. OneNode(v)
    BY <1>1, <1>2, <2>1 DEF OneNode, Untouched, NodeTypes
  <2>4. StoreFits(v)'
    BY <1>1, <2>1, <2>2 DEF StoreFits, Fits, SameStore
  <2>5. DecidedFits(v)'
    BY <1>2, <1>3, <2>1, <2>2 DEF DecidedFits, SameStore
  <2>6. NodeFits(v)' /\ IsEngine(engine'[v]) /\ IsList(chain'[v])
    BY <1>1, <2>1, <2>4, <2>5 DEF NodeFits, SameStore
  <2>7. ChannelGrows({})
    BY <1>1, <2>1, ChannelSame
  <2> QED
    BY <1>4, <2>3, <2>6, <2>7, OneNodeStep
<1> QED
  BY <1>2, <1>5, <1>6

LEMMA CommitFailsDisk ==
    ASSUME DiskInv, NEW v \in Nodes, CommitFails(v) PROVE DiskInv'
<1> DEFINE e == engine[v]
           f == PruneSeenVotes(e, candidate[v].number)
<1>1. /\ IsList(chain[v]) /\ Height(v) \in Nat /\ IsEngine(e) /\ ChannelTypes /\ NodeTypes
      /\ Fits(e.store, Height(v), e.seed)
  BY NodeFacts
<1>2. /\ count' = [count EXCEPT !.failures = @ + 1, !.events = @ + 1]
      /\ engine' = [engine EXCEPT ![v] = f] /\ candidate' = [candidate EXCEPT ![v] = NoBlock]
      /\ pc' = [pc EXCEPT ![v] = "idle"] /\ chain' = chain /\ channel' = channel
  BY DEF CommitFails, net
<1>3. SameCore(e, f)
  BY <1>1, PruneCore
<1> HIDE DEF f
<1>4. CountKept /\ count'.failures > 0
  <2> DEFINE n == count.failures + 1
             k == count.events + 1
  <2>1. IsMap(count, {"restarts", "failures", "events"}) /\ count.failures \in Nat
    BY <1>1 DEF NodeTypes
  <2>2. count' = [count EXCEPT !.failures = n, !.events = k] /\ n \in Nat /\ n > count.failures /\ n > 0
    BY <1>2, <2>1
  <2> HIDE DEF n, k
  <2>3. IsMap(count', {"restarts", "failures", "events"}) /\ count'.failures = n
    BY <2>1, <2>2 DEF IsMap
  <2> QED
    BY <2>1, <2>2, <2>3 DEF CountKept
<1>5. engine'[v] = f /\ pc'[v] = "idle" /\ Height(v)' = Height(v) /\ IsList(chain'[v])
  BY <1>1, <1>2 DEF NodeTypes, IsMap, Height
<1>6. OneNode(v)
  BY <1>1, <1>2 DEF OneNode, Untouched, NodeTypes, IsMap
<1>7. StoreFits(v)' /\ IsEngine(engine'[v])
  BY <1>1, <1>3, <1>5 DEF StoreFits, Fits, SameCore
<1>8. DecidedFits(v)'
  BY <1>4, <1>5 DEF DecidedFits
<1>9. ChannelGrows({})
  BY <1>1, <1>2, ChannelSame
<1> QED
  BY <1>4, <1>5, <1>6, <1>7, <1>8, <1>9, OneNodeStep DEF NodeFits

(* Only messages, connections, the registry or the event counter change. *)
LEMMA NetworkDisk ==
    ASSUME DiskInv, chain' = chain, engine' = engine, pc' = pc, candidate' = candidate, CountKept,
           NEW new, ChannelGrows(new), \A m \in new : MessageOK(m)
    PROVE  DiskInv'
<1>1. \A w \in Nodes : NodeFits(w)' /\ IsList(chain'[w]) /\ IsEngine(engine'[w])
  BY UntouchedFits DEF Untouched
<1>2. NodeTypes'
  BY <1>1 DEF NodeTypes, DiskInv, Types, CountKept
<1>3. ChannelTypes'
  BY MessagesKept DEF DiskInv, Types
<1> QED
  BY <1>1, <1>2, <1>3 DEF DiskInv, Types

LEMMA RegistryDisk ==
    ASSUME DiskInv, NEW v \in Nodes, NEW u \in Nodes, Stake(v, u) \/ Jail(v, u) PROVE DiskInv'
<1>1. /\ chain' = chain /\ engine' = engine /\ pc' = pc /\ candidate' = candidate
      /\ channel' = channel /\ count' = [count EXCEPT !.events = @ + 1]
  BY DEF Stake, Jail, driver, net, disk
<1>2. CountKept /\ ChannelGrows({})
  BY <1>1, CountEvent, ChannelSame DEF DiskInv, Types
<1> QED
  BY <1>1, <1>2, NetworkDisk

LEMMA ConnectDisk ==
    ASSUME DiskInv, NEW v \in Nodes, NEW w \in Nodes, Connect(v, w) PROVE DiskInv'
<1>1. /\ chain' = chain /\ engine' = engine /\ pc' = pc /\ candidate' = candidate
      /\ count' = [count EXCEPT !.events = @ + 1]
  BY DEF Connect, driver, disk
<1> DEFINE new == ToSet(Request(v, w)) \cup ToSet(Request(w, v))
<1>2. NodeTypes /\ ChannelTypes
  BY DEF DiskInv, Types
<1>3. CountKept /\ ChannelGrows(new)
  BY <1>1, <1>2, CountEvent, ConnectGrows
<1>4. \A m \in new : MessageOK(m)
  BY <1>2, RequestFacts
<1> HIDE DEF new
<1> QED
  BY <1>1, <1>3, <1>4, NetworkDisk

LEMMA DisconnectDisk ==
    ASSUME DiskInv, NEW v \in Nodes, NEW w \in Nodes, Disconnect(v, w) PROVE DiskInv'
<1>1. /\ chain' = chain /\ engine' = engine /\ pc' = pc /\ candidate' = candidate
      /\ count' = count /\ Drop({{v, w}})
  BY DEF Disconnect, driver, disk
<1>2. CountKept /\ ChannelGrows({})
  BY <1>1, CountSame, DropGrows DEF DiskInv, Types
<1> QED
  BY <1>1, <1>2, NetworkDisk

LEMMA ServedFacts ==
    ASSUME NEW v, IsList(chain[v]), NEW from \in Nat \ {0}, NEW to \in Nat
    PROVE  IsList(Served(v, from, to)) /\ ToSet(Served(v, from, to)) \subseteq ToSet(chain[v])
<1> DEFINE n == Lower(Lower(to, from + MaxBlockRange - 1), Height(v))
<1>1. Len(chain[v]) \in Nat
  BY SeqFacts
<1>2. n \in Int /\ n <= Len(chain[v])
  BY <1>1, DriverConstants DEF Lower, Height
<1> HIDE DEF n
<1>3. IsList(SubSeq(chain[v], from, n)) /\ ToSet(SubSeq(chain[v], from, n)) \subseteq ToSet(chain[v])
  BY <1>2, SubSeqFacts
<1> QED
  BY <1>3 DEF Served, n

(* A batch never shortens a chain. *)
LEMMA BatchFacts ==
    ASSUME NEW s, IsList(s), NEW held, NEW batch, IsList(batch)
    PROVE  IsList(ImportedBatch(s, held, batch)) /\ Len(ImportedBatch(s, held, batch)) >= Len(s)
<1> DEFINE X == ToSet(s) \cup {Executed(b, held, FALSE) : b \in ToSet(batch)}
           Good == {t \in Seq(X) : Len(t) >= Len(s)}
<1>1. s \in Good
  <2>0. ToSet(s) \subseteq X
    OBVIOUS
  <2> HIDE DEF X
  <2>1. s \in Seq(X) /\ Len(s) \in Nat
    BY <2>0 DEF IsList
  <2> QED
    BY <2>1
<1>2. ASSUME NEW t \in Good, NEW b \in ToSet(batch) PROVE Imported(t, held, b) \in Good
  <2> DEFINE x == Executed(b, held, FALSE)
             u == Append(t, x)
  <2>1. x \in X
    BY <1>2
  <2> HIDE DEF x, X
  <2>2. t \in Seq(X) /\ Len(t) >= Len(s) /\ Len(s) \in Nat
    BY <1>1
  <2>3. u \in Seq(X) /\ Len(u) = Len(t) + 1
    BY <2>1, <2>2
  <2>4. u \in Good
    <3> HIDE DEF u
    <3> QED
      BY <2>2, <2>3
  <2>5. Imported(t, held, b) = u \/ Imported(t, held, b) = t
    BY Zenon DEF Imported, x
  <2> HIDE DEF u, Good
  <2> QED
    BY <2>4, <2>5
<1> HIDE DEF Good
<1>3. ImportedBatch(s, held, batch) \in Good
  BY <1>1, <1>2, BatchInduction
<1>4. \A t \in Good : IsList(t) /\ Len(t) >= Len(s)
  BY SeqIsAList DEF Good
<1> QED
  BY <1>3, <1>4

(* What an import of some blocks of B makes of a chain. *)
Imports(s, held, B, r) ==
    \/ r = s
    \/ \E b \in B : r = Imported(s, held, b)
    \/ \E batch : IsList(batch) /\ ToSet(batch) \subseteq B /\ r = ImportedBatch(s, held, batch)

LEMMA ImportsFacts ==
    ASSUME NEW s, IsList(s), NEW held, NEW B, NEW r, Imports(s, held, B, r)
    PROVE  IsList(r) /\ Len(r) >= Len(s)
<1>1. CASE r = s
  BY <1>1, SeqFacts
<1>2. CASE \E b \in B : r = Imported(s, held, b)
  BY <1>2, ImportedFacts
<1>3. CASE \E batch : IsList(batch) /\ ToSet(batch) \subseteq B /\ r = ImportedBatch(s, held, batch)
  BY <1>3, BatchFacts
<1> QED
  BY <1>1, <1>2, <1>3 DEF Imports

LEMMA PayloadFacts ==
    ASSUME NEW m, MessageOK(m)
    PROVE  /\ m.type = "block" => Payload(m) = <<m.block>> /\ m.block \in ToSet(Payload(m))
           /\ m.type = "blocks" => Payload(m) = m.batch
           /\ m.type = "get" => Payload(m) = <<>> /\ ToSet(Payload(m)) = {}
           /\ IsList(Payload(m))
<1>1. m.type = "block" => Payload(m) = <<m.block>>
  BY DEF Payload
<1>2. m.type = "blocks" => Payload(m) = m.batch
  BY DEF Payload
<1>3. m.type # "block" /\ m.type # "blocks" => Payload(m) = <<>>
  BY DEF Payload
<1>4. ToSet(<<m.block>>) = {m.block} /\ IsList(<<m.block>>)
  BY SingleSeq
<1>5. \A s : s = <<>> => IsList(s) /\ ToSet(s) = {}
  BY EmptyList
<1>6. m.type = "blocks" => IsList(m.batch)
  BY DEF MessageOK
<1> HIDE DEF Payload
<1> QED
  BY <1>1, <1>2, <1>3, <1>4, <1>5, <1>6

(* An answer asks for blocks, or brings blocks of v. *)
AnswerOf(v, answer) ==
    /\ IsList(answer)
    /\ \A x \in ToSet(answer) :
            /\ MessageOK(x)
            /\ x.type = "get" \/ (x.type = "blocks" /\ ToSet(x.batch) \subseteq ToSet(chain[v]))

LEMMA NoAnswer == ASSUME NEW v, NEW answer, answer = <<>> PROVE AnswerOf(v, answer)
<1>1. IsList(answer) /\ ToSet(answer) = {}
  BY EmptyList
<1> QED
  BY <1>1 DEF AnswerOf

LEMMA OneAnswer ==
    ASSUME NEW v, NEW x, MessageOK(x),
           x.type = "get" \/ (x.type = "blocks" /\ ToSet(x.batch) \subseteq ToSet(chain[v]))
    PROVE  AnswerOf(v, <<x>>)
<1>1. IsList(<<x>>) /\ ToSet(<<x>>) = {x}
  BY SingleSeq
<1> QED
  BY <1>1 DEF AnswerOf

(* What the handling of a message leads to, whether it does its work or    *)
(* not: the receiver's chain is what an import of blocks it brings makes   *)
(* of it.                                                                  *)
Exchange(v, w) == Receive(v, w) \/ Lose(v, w) \/ ImportFails(v, w)

LEMMA HeadMessage ==
    ASSUME ChannelTypes, NEW v \in Nodes, NEW w \in Nodes, channel[<<w, v>>] # <<>>
    PROVE  Head(channel[<<w, v>>]) \in ToSet(channel[<<w, v>>]) /\ MessageOK(Head(channel[<<w, v>>]))
<1>1. IsList(channel[<<w, v>>]) /\ \A x \in ToSet(channel[<<w, v>>]) : MessageOK(x)
  BY DEF ChannelTypes
<1> QED
  BY <1>1, SeqFacts

Outcomes(v, w, m, answer, s) ==
    /\ AnswerOf(v, answer) /\ Handled(v, w, answer)
    /\ chain' = [chain EXCEPT ![v] = s] /\ Imports(chain[v], accounts[v], ToSet(Payload(m)), s)

LEMMA ReceiveOutcome ==
    ASSUME DiskInv, NEW v \in Nodes, NEW w \in Nodes, Receive(v, w)
    PROVE  \E answer, s : Outcomes(v, w, Head(channel[<<w, v>>]), answer, s)
<1> DEFINE m == Head(channel[<<w, v>>])
<1>1. ChannelTypes /\ NodeTypes /\ IsList(chain[v]) /\ Height(v) \in Nat
  BY NodeFacts
<1>2. MessageOK(m)
  BY <1>1, HeadMessage DEF Receive
<1>3. chain = [chain EXCEPT ![v] = chain[v]]
  BY <1>1 DEF NodeTypes, IsMap
<1>4. \/ m.type = "block" /\ ReceiveBlock(v, w, m.block)
      \/ m.type = "blocks" /\ ReceiveBlocks(v, w, m.batch)
      \/ m.type = "get" /\ ReceiveGet(v, w, m.from, m.to)
  BY DEF Receive
<1> HIDE DEF m
<1>5. CASE m.type = "block" /\ ReceiveBlock(v, w, m.block)
  <2> DEFINE b == m.block
             g == Get(b.number + 1, b.number + MaxBlockRange)
             answer == IF b.number = Height(v) + 1 THEN <<g>> ELSE <<>>
             s == Imported(chain[v], accounts[v], b)
  <2>1. chain' = [chain EXCEPT ![v] = s] /\ Handled(v, w, answer)
    BY <1>5 DEF ReceiveBlock
  <2>2. AnswerOf(v, answer)
    <3>1. CASE b.number = Height(v) + 1
      <4>1. g.type = "get" /\ MessageOK(g)
        BY <1>1, <3>1, DriverConstants DEF Get, MessageOK
      <4>2. answer = <<g>>
        BY <3>1
      <4> HIDE DEF g, answer
      <4>3. AnswerOf(v, <<g>>)
        BY <4>1, OneAnswer
      <4> QED
        BY <4>2, <4>3
    <3>2. CASE b.number # Height(v) + 1
      <4>1. answer = <<>>
        BY <3>2
      <4> HIDE DEF answer
      <4> QED
        BY <4>1, NoAnswer
    <3> QED
      BY <3>1, <3>2
  <2> HIDE DEF answer, s
  <2>3. Imports(chain[v], accounts[v], ToSet(Payload(m)), s)
    BY <1>2, <1>5, PayloadFacts DEF Imports, s
  <2> QED
    BY <2>1, <2>2, <2>3 DEF Outcomes, m
<1>6. CASE m.type = "blocks" /\ ReceiveBlocks(v, w, m.batch)
  <2> DEFINE s == ImportedBatch(chain[v], accounts[v], m.batch)
  <2>1. PICK answer : answer = <<>>
    OBVIOUS
  <2>2. chain' = [chain EXCEPT ![v] = s] /\ Handled(v, w, answer)
    BY <1>6, <2>1 DEF ReceiveBlocks
  <2>3. AnswerOf(v, answer)
    BY <2>1, NoAnswer
  <2>4. IsList(m.batch) /\ ToSet(m.batch) \subseteq ToSet(Payload(m))
    BY <1>2, <1>6, PayloadFacts
  <2> HIDE DEF s
  <2>5. Imports(chain[v], accounts[v], ToSet(Payload(m)), s)
    BY <2>4 DEF Imports, s
  <2> QED
    BY <2>2, <2>3, <2>5 DEF Outcomes, m
<1>7. CASE m.type = "get" /\ ReceiveGet(v, w, m.from, m.to)
  <2> DEFINE batch == Served(v, m.from, m.to)
             r == [type |-> "blocks", batch |-> batch]
             answer == IF batch = <<>> THEN <<>> ELSE <<r>>
             s == chain[v]
  <2>1. Handled(v, w, answer) /\ chain' = [chain EXCEPT ![v] = s]
    BY <1>3, <1>7 DEF ReceiveGet
  <2>2. IsList(batch) /\ ToSet(batch) \subseteq ToSet(chain[v])
    BY <1>1, <1>2, <1>7, ServedFacts DEF MessageOK
  <2> HIDE DEF batch
  <2>3. r.type = "blocks" /\ MessageOK(r) /\ ToSet(r.batch) \subseteq ToSet(chain[v])
    BY <2>2 DEF MessageOK
  <2>4. answer = <<r>> \/ answer = <<>>
    OBVIOUS
  <2> HIDE DEF r, answer
  <2>5. AnswerOf(v, answer)
    <3>1. AnswerOf(v, <<r>>)
      BY <2>3, OneAnswer
    <3> QED
      BY <2>4, <3>1, NoAnswer
  <2>6. Imports(chain[v], accounts[v], ToSet(Payload(m)), s)
    BY DEF Imports
  <2> HIDE DEF s
  <2> QED
    BY <2>1, <2>5, <2>6 DEF Outcomes, m
<1> QED
  BY <1>4, <1>5, <1>6, <1>7

LEMMA SpoiledOutcome ==
    ASSUME DiskInv, NEW v \in Nodes, NEW w \in Nodes, Lose(v, w) \/ ImportFails(v, w)
    PROVE  \E answer, s : Outcomes(v, w, Head(channel[<<w, v>>]), answer, s)
<1> DEFINE m == Head(channel[<<w, v>>])
<1>1. ChannelTypes /\ NodeTypes /\ IsList(chain[v])
  BY NodeFacts
<1>2. MessageOK(m)
  BY <1>1, HeadMessage DEF Lose, ImportFails
<1>3. chain = [chain EXCEPT ![v] = chain[v]]
  BY <1>1 DEF NodeTypes, IsMap
<1>4. PICK answer : answer = <<>>
  OBVIOUS
<1>5. AnswerOf(v, answer) /\ Handled(v, w, answer)
  BY <1>4, NoAnswer DEF Lose, ImportFails, Spoils
<1>6. SUFFICES \E s : chain' = [chain EXCEPT ![v] = s] /\ Imports(chain[v], accounts[v], ToSet(Payload(m)), s)
  BY <1>5 DEF Outcomes
<1>7. CASE Lose(v, w)
  <2>1. CASE chain' = chain
    BY <1>3, <2>1 DEF Imports
  <2>2. CASE m.type = "block" /\ chain' = [chain EXCEPT ![v] = Imported(@, accounts[v], m.block)]
    <3> DEFINE s == Imported(chain[v], accounts[v], m.block)
    <3>1. m.block \in ToSet(Payload(m))
      BY <1>2, <2>2, PayloadFacts
    <3>2. chain' = [chain EXCEPT ![v] = s]
      BY <2>2
    <3> HIDE DEF s, m
    <3>3. Imports(chain[v], accounts[v], ToSet(Payload(m)), s)
      BY <3>1 DEF Imports, s
    <3> QED
      BY <3>2, <3>3
  <2> QED
    BY <1>7, <2>1, <2>2 DEF Lose
<1>8. CASE ImportFails(v, w)
  <2> HIDE DEF m
  <2>1. PICK n \in 1..Len(Payload(m)) :
            chain' = [chain EXCEPT ![v] =
                        ImportedBatch(chain[v], accounts[v], SubSeq(Payload(m), 1, n - 1))]
    BY <1>8 DEF ImportFails, m
  <2> DEFINE batch == SubSeq(Payload(m), 1, n - 1)
             s == ImportedBatch(chain[v], accounts[v], batch)
  <2>2. IsList(Payload(m)) /\ Len(Payload(m)) \in Nat
    BY <1>2, PayloadFacts, SeqFacts
  <2>3. n - 1 \in Int /\ n - 1 <= Len(Payload(m)) /\ 1 \in Nat \ {0}
    BY <2>2
  <2>4. IsList(batch) /\ ToSet(batch) \subseteq ToSet(Payload(m))
    BY <2>2, <2>3, SubSeqFacts
  <2> HIDE DEF batch
  <2>5. Imports(chain[v], accounts[v], ToSet(Payload(m)), s)
    BY <2>4 DEF Imports
  <2>6. chain' = [chain EXCEPT ![v] = s]
    BY <2>1 DEF batch
  <2> HIDE DEF s
  <2> QED
    BY <2>5, <2>6
<1> QED
  BY <1>7, <1>8

LEMMA ExchangeFacts ==
    ASSUME DiskInv, NEW v \in Nodes, NEW w \in Nodes, Exchange(v, w)
    PROVE  /\ engine' = engine /\ pc' = pc /\ candidate' = candidate /\ inbox' = inbox
           /\ CountKept /\ count'.restarts = count.restarts
           /\ \E m \in ToSet(channel[<<w, v>>]) : \E answer, s :
                /\ AnswerOf(v, answer) /\ ChannelGrows(ToSet(answer))
                /\ chain' = [chain EXCEPT ![v] = s]
                /\ Imports(chain[v], accounts[v], ToSet(Payload(m)), s)
<1>1. ChannelTypes /\ NodeTypes
  BY NodeFacts
<1>2. channel[<<w, v>>] # <<>>
  BY DEF Exchange, Receive, Lose, ImportFails
<1>3. engine' = engine /\ pc' = pc /\ candidate' = candidate /\ inbox' = inbox
  BY DEF Exchange, Receive, Lose, ImportFails, driver
<1>4. count' = count \/ count' = [count EXCEPT !.events = @ + 1]
  BY DEF Exchange, Receive, Lose, ImportFails, Spoils
<1>5. CountKept /\ count'.restarts = count.restarts
  BY <1>1, <1>4, CountSame, CountEvent
<1>6. Head(channel[<<w, v>>]) \in ToSet(channel[<<w, v>>])
  BY <1>1, <1>2, HeadMessage
<1>7. PICK answer, s : Outcomes(v, w, Head(channel[<<w, v>>]), answer, s)
  BY ReceiveOutcome, SpoiledOutcome DEF Exchange
<1>8. ChannelGrows(ToSet(answer))
  BY <1>1, <1>2, <1>7, HandledGrows DEF Outcomes, AnswerOf
<1> QED
  BY <1>3, <1>5, <1>6, <1>7, <1>8 DEF Outcomes

LEMMA ExchangeDisk ==
    ASSUME DiskInv, NEW v \in Nodes, NEW w \in Nodes, Exchange(v, w) PROVE DiskInv'
<1>1. /\ IsList(chain[v]) /\ Height(v) \in Nat /\ IsEngine(engine[v]) /\ ChannelTypes /\ NodeTypes
      /\ NodeFits(v) /\ count.failures \in Nat
  BY NodeFacts DEF DiskInv, NodeTypes
<1>2. engine' = engine /\ pc' = pc /\ candidate' = candidate /\ CountKept
  BY ExchangeFacts
<1>3. PICK m, answer, s :
        /\ AnswerOf(v, answer) /\ ChannelGrows(ToSet(answer)) /\ chain' = [chain EXCEPT ![v] = s]
        /\ Imports(chain[v], accounts[v], ToSet(Payload(m)), s)
  BY ExchangeFacts
<1>4. IsList(s) /\ Len(s) >= Len(chain[v])
  BY <1>1, <1>3, ImportsFacts
<1>5. \A x \in ToSet(answer) : MessageOK(x)
  BY <1>3 DEF AnswerOf
<1>6. IsMap(chain', Nodes) /\ chain'[v] = s /\ \A u \in Nodes \ {v} : chain'[u] = chain[u]
  BY <1>1, <1>3 DEF NodeTypes, IsMap
<1>7. Height(v)' \in Nat /\ Height(v)' >= Height(v)
  BY <1>4, <1>6, SeqFacts DEF Height
<1>8. OneNode(v)
  BY <1>1, <1>2, <1>6 DEF OneNode, Untouched, NodeTypes
<1>9. SameStore(engine[v], engine'[v]) /\ engine'[v].seed = engine[v].seed
  BY <1>1, <1>2 DEF SameStore
<1>10. NodeFits(v)'
  BY <1>1, <1>2, <1>7, <1>9, NodeKept DEF CountKept
<1>11. IsList(chain'[v]) /\ IsEngine(engine'[v])
  BY <1>1, <1>2, <1>4, <1>6
<1> QED
  BY <1>2, <1>3, <1>5, <1>8, <1>10, <1>11, OneNodeStep

LEMMA RestartDisk ==
    ASSUME DiskInv, NEW v \in Nodes, NEW seed, Restart(v, seed) PROVE DiskInv'
<1> DEFINE f == NewEngine(Configured[v], seed)
<1>1. /\ IsList(chain[v]) /\ Height(v) \in Nat /\ ChannelTypes /\ NodeTypes
  BY NodeFacts
<1>2. /\ engine' = [engine EXCEPT ![v] = f] /\ pc' = [pc EXCEPT ![v] = "idle"]
      /\ candidate' = [candidate EXCEPT ![v] = NoBlock] /\ chain' = chain
      /\ count' = [count EXCEPT !.restarts[v] = @ + 1, !.events = @ + 1]
      /\ Drop({l \in link : v \in l})
  BY DEF Restart
<1>3. IsEngine(f) /\ f.store = {} /\ f.committed_height = 0
  BY NewEngineFacts
<1> HIDE DEF f
<1>4. CountKept
  <2> DEFINE r == [count.restarts EXCEPT ![v] = @ + 1]
             k == count.events + 1
  <2>1. count' = [count EXCEPT !.restarts = r, !.events = k]
    BY <1>2
  <2> HIDE DEF r, k
  <2>2. IsMap(count, {"restarts", "failures", "events"}) /\ count.failures \in Nat
    BY <1>1 DEF NodeTypes
  <2>3. IsMap(count', {"restarts", "failures", "events"}) /\ count'.failures = count.failures
    BY <2>1, <2>2 DEF IsMap
  <2> QED
    BY <2>2, <2>3 DEF CountKept
<1>5. engine'[v] = f /\ pc'[v] = "idle" /\ Height(v)' = Height(v) /\ IsList(chain'[v])
  BY <1>1, <1>2 DEF NodeTypes, IsMap, Height
<1>6. OneNode(v)
  BY <1>1, <1>2 DEF OneNode, Untouched, NodeTypes, IsMap
<1>7. StoreFits(v)' /\ IsEngine(engine'[v])
  BY <1>3, <1>5 DEF StoreFits
<1>8. DecidedFits(v)'
  BY <1>1, <1>3, <1>5 DEF DecidedFits
<1>9. ChannelGrows({})
  BY <1>1, <1>2, DropGrows
<1> QED
  BY <1>4, <1>5, <1>6, <1>7, <1>8, <1>9, OneNodeStep DEF NodeFits

LEMMA InitDisk == Init => DiskInv
<1> SUFFICES ASSUME Init PROVE DiskInv
  OBVIOUS
<1>1. PICK seed \in GenesisSeeds : engine = [v \in Nodes |-> NewEngine(Configured[v], seed)]
  BY DEF Init
<1>2. ASSUME NEW v \in Nodes
      PROVE  /\ IsEngine(engine[v]) /\ engine[v].store = {} /\ engine[v].committed_height = 0
             /\ chain[v] = <<>> /\ pc[v] = "idle"
  BY <1>1, NewEngineFacts DEF Init
<1>3. ASSUME NEW v \in Nodes PROVE IsList(chain[v]) /\ Height(v) = 0
  BY <1>2, EmptyList DEF Height
<1>4. ASSUME NEW v \in Nodes PROVE NodeFits(v)
  BY <1>2, <1>3 DEF NodeFits, StoreFits, DecidedFits
<1>5. IsMap(engine, Nodes)
  <2> HIDE DEF NewEngine
  <2> QED
    BY <1>1 DEF IsMap
<1>6. NodeTypes
  BY <1>2, <1>3, <1>5 DEF NodeTypes, Init, IsMap
<1>7. ChannelTypes
  <2>1. ASSUME NEW x \in Nodes \X Nodes PROVE IsList(channel[x]) /\ ToSet(channel[x]) = {}
    BY EmptyList DEF Init
  <2>2. IsMap(channel, Nodes \X Nodes)
    BY DEF Init, IsMap
  <2> QED
    BY <2>1, <2>2 DEF ChannelTypes
<1> QED
  BY <1>4, <1>6, <1>7 DEF DiskInv, Types

LEMMA NextDisk == DiskInv /\ [Next]_vars => DiskInv'
<1> SUFFICES ASSUME DiskInv, [Next]_vars PROVE DiskInv'
  OBVIOUS
<1>1. ASSUME UNCHANGED vars PROVE DiskInv'
  BY <1>1 DEF vars, DiskInv, Types, NodeTypes, ChannelTypes, NodeFits, StoreFits, DecidedFits, Height
<1>2. ASSUME NEW v \in Nodes, Propose(v) PROVE DiskInv'
  BY <1>2, ProposeDisk DEF Propose
<1>3. ASSUME NEW v \in Nodes, WaitForProposal(v) PROVE DiskInv'
  BY <1>1, <1>3 DEF WaitForProposal
<1> QED
  BY <1>1, <1>2, <1>3, DeliverDisk, TimeoutDisk, DoCommitDisk, CommitFailsDisk, RegistryDisk,
     ConnectDisk, DisconnectDisk, ExchangeDisk, RestartDisk DEF Next, Exchange

(* Whatever nodes, configurations, seeds and bounds: a height the engine   *)
(* has decided is on disk or being committed, unless execution or storage  *)
(* failed.  Neither validate_epoch_seed nor the head check of              *)
(* execute_and_commit ever throws away a block that the node itself        *)
(* decided, although imports move the head while votes are outstanding,    *)
(* and the seed is rotated between proposal and commit only together with  *)
(* the height.                                                             *)
THEOREM DriverDecidedReachesDisk == Spec => []DecidedReachesDisk
<1>1. DiskInv => DecidedReachesDisk
  <2> SUFFICES ASSUME DiskInv, NEW v \in Nodes, engine[v].committed_height > Height(v),
                      pc[v] # "committing"
               PROVE  count.failures > 0
    BY DEF DecidedReachesDisk
  <2>1. Height(v) \in Nat /\ IsEngine(engine[v]) /\ DecidedFits(v)
    BY NodeFacts
  <2> QED
    BY <2>1 DEF DecidedFits, IsEngine
<1> QED
  BY <1>1, InitDisk, NextDisk, PTL DEF Spec
-----------------------------------------------------------------------------
(* The votes a call casts *)

SentBy(s, me, hash) == IsList(s) /\ \A x \in ToSet(s) : x.voter = me /\ x.data.hash = hash

LEMMA NothingSent == ASSUME NEW s, s = <<>>, NEW me, NEW hash PROVE SentBy(s, me, hash)
<1>1. IsList(s) /\ ToSet(s) = {}
  BY EmptyList
<1> QED
  BY <1>1 DEF SentBy

LEMMA OneMoreSent ==
    ASSUME NEW o, IsOutcome(o), NEW me, NEW hash, NEW phase, SentBy(o.sent, me, hash)
    PROVE  SentBy(Sending([voter |-> me, data |-> Data(hash, phase)], o).sent, me, hash)
<1> DEFINE x == [voter |-> me, data |-> Data(hash, phase)]
<1>1. x.voter = me /\ x.data.hash = hash
  BY DEF Data
<1> HIDE DEF x
<1>2. Sending(x, o).sent = <<x>> \o o.sent
  BY SendingOutcome
<1>3. IsList(<<x>> \o o.sent) /\ ToSet(<<x>> \o o.sent) \subseteq {x} \cup ToSet(o.sent)
  BY SingleSeq, ConcatFacts DEF SentBy
<1>4. SentBy(Sending(x, o).sent, me, hash)
  BY <1>1, <1>2, <1>3 DEF SentBy
<1> QED
  BY <1>4 DEF x

LEMMA CommitVoteSent ==
    ASSUME NEW e, NEW vote, NEW me PROVE SentBy(OnCommitVote(e, vote).sent, me, vote.data.hash)
<1>1. OnCommitVote(e, vote).sent = <<>>
  BY DEF OnCommitVote, Outcome
<1> QED
  BY <1>1, NothingSent

LEMMA PreCommitVoteSent ==
    ASSUME NEW e, IsEngine(e), NumberedStore(e), NEW me, NEW vote
    PROVE  SentBy(OnPreCommitVote(e, me, vote).sent, me, vote.data.hash)
<1> DEFINE c == Counted(e, vote)
           hash == vote.data.hash
           data == Data(hash, Rules!Commit)
           mine == [voter |-> me, data |-> data]
           d == Voted(c, data)
           o == OnCommitVote(d, mine)
<1>1. SameCore(e, c)
  BY CountedCore
<1>2. mine.data = data /\ data.hash = hash
  BY DEF Data
<1>3. OnPreCommitVote(e, me, vote) =
        IF FormsQc(e, vote) /\ MayVote(c, mine.data, vote.data.number)
        THEN Sending(mine, OnCommitVote(Voted(c, mine.data), mine)) ELSE Outcome(c)
  BY Zenon DEF OnPreCommitVote
<1> HIDE DEF c
<1>4. SameCore(c, d)
  BY <1>1, VotedCore DEF SameCore
<1> HIDE DEF d
<1>5. IsEngine(d) /\ NumberedStore(d)
  BY <1>1, <1>4 DEF SameCore, NumberedStore
<1>6. IsOutcome(o) /\ SentBy(o.sent, me, hash)
  <2>1. SentBy(o.sent, me, mine.data.hash)
    BY CommitVoteSent
  <2> QED
    BY <1>2, <1>5, <2>1, CommitVoteFollows
<1> HIDE DEF o
<1>7. SentBy(Sending(mine, o).sent, me, hash)
  BY <1>6, OneMoreSent
<1>8. SentBy(Outcome(c).sent, me, hash)
  BY NothingSent DEF Outcome
<1>9. OnPreCommitVote(e, me, vote) = Sending(mine, o) \/ OnPreCommitVote(e, me, vote) = Outcome(c)
  BY <1>2, <1>3, Zenon DEF o, d
<1> QED
  BY <1>7, <1>8, <1>9

LEMMA PrepareVoteSent ==
    ASSUME NEW e, IsEngine(e), NumberedStore(e), NEW me, NEW vote
    PROVE  SentBy(OnPrepareVote(e, me, vote).sent, me, vote.data.hash)
<1> DEFINE c == IF FormsQc(e, vote) THEN Locked(Counted(e, vote), vote.data) ELSE Counted(e, vote)
           hash == vote.data.hash
           data == Data(hash, Rules!PreCommit)
           mine == [voter |-> me, data |-> data]
           d == Voted(c, data)
           o == OnPreCommitVote(d, me, mine)
<1>1. SameCore(e, c)
  <2>1. SameCore(e, Counted(e, vote)) /\ IsEngine(Counted(e, vote))
    BY CountedCore DEF SameCore
  <2>2. SameCore(e, Locked(Counted(e, vote), vote.data))
    BY <2>1, LockedCore, SameCoreTrans
  <2> QED
    BY <2>1, <2>2
<1>2. mine.data = data /\ data.hash = hash
  BY DEF Data
<1>3. OnPrepareVote(e, me, vote) =
        IF FormsQc(e, vote) /\ MayVote(c, mine.data, vote.data.number)
        THEN Sending(mine, OnPreCommitVote(Voted(c, mine.data), me, mine)) ELSE Outcome(c)
  BY Zenon DEF OnPrepareVote
<1> HIDE DEF c
<1>4. SameCore(c, d)
  BY <1>1, VotedCore DEF SameCore
<1> HIDE DEF d
<1>5. IsEngine(d) /\ NumberedStore(d)
  BY <1>1, <1>4 DEF SameCore, NumberedStore
<1>6. IsOutcome(o) /\ SentBy(o.sent, me, hash)
  <2>1. SentBy(o.sent, me, mine.data.hash)
    BY <1>5, PreCommitVoteSent
  <2> QED
    BY <1>2, <1>5, <2>1, PreCommitVoteFollows
<1> HIDE DEF o
<1>7. SentBy(Sending(mine, o).sent, me, hash)
  BY <1>6, OneMoreSent
<1>8. SentBy(Outcome(c).sent, me, hash)
  BY NothingSent DEF Outcome
<1>9. OnPrepareVote(e, me, vote) = Sending(mine, o) \/ OnPrepareVote(e, me, vote) = Outcome(c)
  BY <1>2, <1>3, Zenon DEF o, d
<1> QED
  BY <1>7, <1>8, <1>9

LEMMA VoteSent ==
    ASSUME NEW e, IsEngine(e), NumberedStore(e), NEW me, NEW vote
    PROVE  SentBy(OnVote(e, me, vote).sent, me, vote.data.hash)
<1>1. \/ OnVote(e, me, vote) = OnPrepareVote(e, me, vote)
      \/ OnVote(e, me, vote) = OnPreCommitVote(e, me, vote)
      \/ OnVote(e, me, vote) = OnCommitVote(e, vote)
  BY DEF OnVote, Rules!Prepare, Rules!PreCommit
<1> QED
  BY <1>1, PrepareVoteSent, PreCommitVoteSent, CommitVoteSent

LEMMA ProposalSent ==
    ASSUME NEW e, IsEngine(e), NumberedStore(e), NEW me, NEW block, block.number \in Nat
    PROVE  SentBy(OnProposal(e, me, block).sent, me, block)
<1> DEFINE f == Stored(e, block)
           data == Data(block, Rules!Prepare)
           mine == [voter |-> me, data |-> data]
           d == Voted(f, data)
           o == OnPrepareVote(d, me, mine)
<1>1. IsEngine(f) /\ NumberedStore(f)
  BY StoredFacts
<1>2. mine.data = data /\ data.hash = block
  BY DEF Data
<1>3. OnProposal(e, me, block) =
        IF MayVote(e, mine.data, block.number - 1)
        THEN Sending(mine, OnPrepareVote(Voted(f, mine.data), me, mine)) ELSE Outcome(f)
  BY Zenon DEF OnProposal, Stored
<1> HIDE DEF f
<1>4. SameCore(f, d)
  BY <1>1, VotedCore
<1> HIDE DEF d
<1>5. IsEngine(d) /\ NumberedStore(d)
  BY <1>1, <1>4 DEF SameCore, NumberedStore
<1>6. IsOutcome(o) /\ SentBy(o.sent, me, block)
  <2>1. SentBy(o.sent, me, mine.data.hash)
    BY <1>5, PrepareVoteSent
  <2> QED
    BY <1>2, <1>5, <2>1, PrepareVoteFollows
<1> HIDE DEF o
<1>7. SentBy(Sending(mine, o).sent, me, block)
  BY <1>6, OneMoreSent
<1>8. SentBy(Outcome(f).sent, me, block)
  BY NothingSent DEF Outcome
<1>9. OnProposal(e, me, block) = Sending(mine, o) \/ OnProposal(e, me, block) = Outcome(f)
  BY <1>2, <1>3, Zenon DEF o, d
<1> QED
  BY <1>7, <1>8, <1>9
-----------------------------------------------------------------------------
(* A node that needs the votes of others decides nothing: no proposal      *)
(* leaves a node, so every vote is the proposer's own.                     *)

NeedsOthers(e) ==
    /\ e.quorum \in Nat /\ e.quorum >= 2
    /\ \A a \in e.accs : /\ IsMap(a, {"data", "voters", "quorum"})
                         /\ a.quorum \in Nat /\ a.quorum >= 2
                         /\ a.voters \subseteq {a.data.hash.coinbase}

OwnVote(vote) == vote.voter = vote.data.hash.coinbase

LEMMA AccumulatorFacts ==
    ASSUME NEW e, NeedsOthers(e), NEW data
    PROVE  LET a == Accumulator(e, data) IN
           /\ IsMap(a, {"data", "voters", "quorum"}) /\ a.quorum \in Nat /\ a.quorum >= 2
           /\ a.voters \subseteq {a.data.hash.coinbase}
<1> DEFINE open == {a \in e.accs : a.data.number = data.number /\ a.data.phase = data.phase}
           fresh == [data |-> data, voters |-> {}, quorum |-> e.quorum]
           acc == Accumulator(e, data)
<1>1. acc = IF open = {} THEN fresh ELSE CHOOSE a \in open : TRUE
  BY Zenon DEF Accumulator
<1>2. /\ IsMap(fresh, {"data", "voters", "quorum"}) /\ fresh.quorum \in Nat /\ fresh.quorum >= 2
      /\ fresh.voters = {}
  BY DEF NeedsOthers, IsMap
<1>3. open \subseteq e.accs
  OBVIOUS
<1> HIDE DEF fresh, acc, open
<1>4. acc = fresh \/ acc \in e.accs
  BY <1>1, <1>3
<1>5. /\ IsMap(acc, {"data", "voters", "quorum"}) /\ acc.quorum \in Nat /\ acc.quorum >= 2
      /\ acc.voters \subseteq {acc.data.hash.coinbase}
  BY <1>2, <1>4 DEF NeedsOthers
<1> QED
  BY <1>5 DEF acc

LEMMA NoQuorumAlone ==
    ASSUME NEW e, IsEngine(e), NeedsOthers(e), NEW vote, OwnVote(vote)
    PROVE  ~FormsQc(e, vote) /\ NeedsOthers(Counted(e, vote))
<1> DEFINE a == Accumulator(e, vote.data)
           b == IF a.data = vote.data THEN [a EXCEPT !.voters = @ \cup {vote.voter}] ELSE a
           f == [e EXCEPT !.seen = @ \cup {vote}, !.accs = (@ \ {a}) \cup {b}]
<1>1. Counted(e, vote) = IF Heard(e, vote) THEN f ELSE e
  BY Zenon DEF Counted
<1>2. FormsQc(e, vote) => /\ a.data = vote.data /\ vote.voter \notin a.voters
                          /\ Cardinality(a.voters) + 1 >= a.quorum
  BY Zenon DEF FormsQc
<1>3. /\ IsMap(a, {"data", "voters", "quorum"}) /\ a.quorum \in Nat /\ a.quorum >= 2
      /\ a.voters \subseteq {a.data.hash.coinbase}
  BY AccumulatorFacts
<1> HIDE DEF a
<1>4. ~FormsQc(e, vote)
  <2> SUFFICES ASSUME FormsQc(e, vote) PROVE FALSE
    OBVIOUS
  <2>1. a.voters = {}
    BY <1>2, <1>3 DEF OwnVote
  <2>2. Cardinality(a.voters) = 0
    BY <2>1, FS_EmptySet
  <2> QED
    BY <1>2, <1>3, <2>2
<1>5. /\ IsMap(b, {"data", "voters", "quorum"}) /\ b.quorum \in Nat /\ b.quorum >= 2
      /\ b.voters \subseteq {b.data.hash.coinbase}
  BY <1>3 DEF IsMap, OwnVote
<1> HIDE DEF b
<1>6. f.quorum = e.quorum /\ f.accs = (e.accs \ {a}) \cup {b}
  BY DEF IsEngine, EngineFields
<1> HIDE DEF f
<1>7. NeedsOthers(f)
  BY <1>5, <1>6 DEF NeedsOthers
<1> QED
  BY <1>1, <1>4, <1>7

LEMMA FollowerVote ==
    ASSUME NEW e, IsEngine(e), NeedsOthers(e), NEW me, NEW vote, OwnVote(vote)
    PROVE  LET o == OnVote(e, me, vote) IN
           o.decided = NoBlock /\ o.sent = <<>> /\ NeedsOthers(o.engine)
<1>1. ~FormsQc(e, vote) /\ NeedsOthers(Counted(e, vote))
  BY NoQuorumAlone
<1>2. /\ OnPrepareVote(e, me, vote) = Outcome(Counted(e, vote))
      /\ OnPreCommitVote(e, me, vote) = Outcome(Counted(e, vote))
      /\ OnCommitVote(e, vote) = Outcome(Counted(e, vote))
  BY <1>1, Zenon DEF OnPrepareVote, OnPreCommitVote, OnCommitVote
<1>3. OnVote(e, me, vote) = Outcome(Counted(e, vote))
  BY <1>2 DEF OnVote, Rules!Prepare, Rules!PreCommit
<1> QED
  BY <1>1, <1>3 DEF Outcome

LEMMA FollowerProposal ==
    ASSUME NEW e, IsEngine(e), NumberedStore(e), NeedsOthers(e), NEW me, NEW block,
           block.number \in Nat, block.coinbase = me
    PROVE  LET o == OnProposal(e, me, block) IN o.decided = NoBlock /\ NeedsOthers(o.engine)
<1> DEFINE f == Stored(e, block)
           data == Data(block, Rules!Prepare)
           mine == [voter |-> me, data |-> data]
           d == Voted(f, mine.data)
           o == OnProposal(e, me, block)
<1>1. IsEngine(f) /\ f.quorum = e.quorum /\ f.accs = e.accs
  BY StoredFacts
<1>2. o = IF MayVote(e, mine.data, block.number - 1)
          THEN Sending(mine, OnPrepareVote(d, me, mine)) ELSE Outcome(f)
  BY Zenon DEF OnProposal, Stored
<1>3. OwnVote(mine)
  BY DEF OwnVote, Data
<1> HIDE DEF f
<1>4. NeedsOthers(f)
  BY <1>1 DEF NeedsOthers
<1>5. IsEngine(d) /\ d.quorum = f.quorum /\ d.accs = f.accs
  <2> DEFINE s == Rules!AfterVote(f.safety, mine.data)
  <2>1. d = [f EXCEPT !.safety = s]
    BY DEF Voted
  <2> HIDE DEF s, d
  <2> QED
    BY <1>1, <2>1 DEF IsEngine, EngineFields
<1> HIDE DEF mine, d
<1>6. NeedsOthers(d)
  BY <1>4, <1>5 DEF NeedsOthers
<1>7. ~FormsQc(d, mine) /\ NeedsOthers(Counted(d, mine))
  BY <1>3, <1>5, <1>6, NoQuorumAlone
<1>8. OnPrepareVote(d, me, mine) = Outcome(Counted(d, mine))
  BY <1>7, Zenon DEF OnPrepareVote
<1> DEFINE q == Outcome(Counted(d, mine))
<1>9. IsOutcome(q) /\ q.decided = NoBlock /\ q.engine = Counted(d, mine)
  BY DEF IsOutcome, Outcome
<1>10. Outcome(f).decided = NoBlock /\ Outcome(f).engine = f
  BY DEF Outcome
<1> HIDE DEF q, o
<1>11. o = Sending(mine, q) \/ o = Outcome(f)
  BY <1>2, <1>8 DEF q
<1>12. Sending(mine, q).engine = q.engine /\ Sending(mine, q).decided = q.decided
  BY <1>9, SendingOutcome
<1>13. o.decided = NoBlock /\ NeedsOthers(o.engine)
  BY <1>4, <1>7, <1>9, <1>10, <1>11, <1>12
<1> QED
  BY <1>13 DEF o

(* floor(2n/3) + 1 of two or more. *)
LEMMA ConfiguredNeedsOthers ==
    ASSUME NEW committee, Len(committee) \in Nat, Len(committee) >= 2, NEW seed
    PROVE  NeedsOthers(NewEngine(committee, seed))
<1>1. Quorum(committee) \in Nat /\ Quorum(committee) >= 2
  BY DEF Quorum
<1> HIDE DEF Quorum
<1>2. LET e == NewEngine(committee, seed) IN e.quorum = Quorum(committee) /\ e.accs = {}
  BY NewEngineFacts
<1> QED
  BY <1>1, <1>2 DEF NeedsOthers
-----------------------------------------------------------------------------
(* One node alone in its configuration; the others configure more than     *)
(* themselves.                                                             *)

Solitary(p) ==
    /\ p \in Nodes /\ Configured[p] = <<p>>
    /\ \A v \in Nodes \ {p} : Len(Configured[v]) >= 2

(* Votes are those of the proposer, and p hears nobody else's. *)
BoxOK(p, w, box) ==
    /\ IsMap(box, {"queue", "lagged"}) /\ IsList(box.queue)
    /\ \A x \in ToSet(box.queue) : OwnVote(x) /\ (w = p => x.voter = p)

Boxes(p) == IsMap(inbox, Nodes) /\ \A w \in Nodes : BoxOK(p, w, inbox[w])

Followers(p) == \A v \in Nodes \ {p} : NeedsOthers(engine[v]) /\ pc[v] # "committing"

(* What p proposed since it was started. *)
BlockFields == {"number", "coinbase", "timestamp", "epoch_seed", "staking", "state_root"}

Produced(p) ==
    \A b \in engine[p].store :
        /\ IsMap(b, BlockFields) /\ b.coinbase = p /\ b.timestamp = count.restarts[p]
        /\ b.epoch_seed # SomeSeed(ZeroSeed)

Restarts == IsMap(count.restarts, Nodes) /\ \A v \in Nodes : count.restarts[v] \in Nat

(* A block of height i, and a chain with the bodies of the first blocks of *)
(* another.                                                                *)
IsBlock(b, i) == IsMap(b, BlockFields) /\ b.number = i

Begins(s, t) ==
    /\ IsList(s) /\ Len(s) <= Len(t)
    /\ \A i \in 1..Len(s) : IsBlock(s[i], i) /\ Body(s[i]) = Body(t[i])

Chains(p) ==
    /\ \A i \in 1..Len(chain[p]) : chain[p][i].coinbase = p
    /\ \A v \in Nodes : Begins(chain[v], chain[p])

IsOn(b, t) == IsMap(b, BlockFields) /\ b.number \in 1..Len(t) /\ Body(b) = Body(t[b.number])

Carries(m, t) == \A b \in ToSet(Payload(m)) : IsOn(b, t)

Carried(p) == \A x \in Nodes \X Nodes : \A m \in ToSet(channel[x]) : Carries(m, chain[p])

ChainInv(p) ==
    /\ DiskInv /\ Boxes(p) /\ Followers(p) /\ Produced(p) /\ Restarts /\ Chains(p) /\ Carried(p)

(* What a step does to the chain and the seed of p. *)
Quiet(p) ==
    /\ chain'[p] = chain[p] /\ engine'[p].seed = engine[p].seed
    /\ count'.restarts[p] = count.restarts[p]

Commits(p) ==
    /\ Appends(p) /\ candidate[p] \in engine[p].store /\ count' = count

Reboots(p) == chain'[p] = chain[p] /\ count'.restarts[p] > 0

Moves(p) == Quiet(p) \/ Commits(p) \/ Reboots(p)

LEMMA QueuedOK ==
    ASSUME NEW p, NEW w, NEW box, BoxOK(p, w, box), NEW sent, IsList(sent),
           \A x \in ToSet(sent) : OwnVote(x) /\ (w = p => x.voter = p)
    PROVE  BoxOK(p, w, Queued(box, sent))
<1> DEFINE all == box.queue \o sent
           excess == Len(all) - VoteChanCap
           cut == SubSeq(all, excess + 1, Len(all))
<1>1. IsList(all) /\ ToSet(all) \subseteq ToSet(box.queue) \cup ToSet(sent)
  BY ConcatFacts DEF BoxOK
<1>2. Queued(box, sent) = IF excess > 0 THEN [queue |-> cut, lagged |-> TRUE]
                          ELSE [box EXCEPT !.queue = all]
  BY Zenon DEF Queued
<1> HIDE DEF all
<1>3. Len(all) \in Nat /\ excess \in Int
  BY <1>1, SeqFacts, DriverConstants
<1>4. excess > 0 => IsList(cut) /\ ToSet(cut) \subseteq ToSet(all)
  <2> SUFFICES ASSUME excess > 0 PROVE IsList(cut) /\ ToSet(cut) \subseteq ToSet(all)
    OBVIOUS
  <2>1. excess + 1 \in Nat \ {0} /\ Len(all) \in Int /\ Len(all) <= Len(all)
    BY <1>3
  <2> HIDE DEF excess
  <2> QED
    BY <1>1, <2>1, SubSeqFacts
<1> HIDE DEF cut, excess
<1>5. CASE excess > 0
  <2> DEFINE r == [queue |-> cut, lagged |-> TRUE]
  <2>1. IsMap(r, {"queue", "lagged"}) /\ r.queue = cut
    BY DEF IsMap
  <2>2. Queued(box, sent) = r
    BY <1>2, <1>5
  <2> HIDE DEF r
  <2> QED
    BY <1>1, <1>4, <1>5, <2>1, <2>2 DEF BoxOK
<1>6. CASE ~(excess > 0)
  <2> DEFINE r == [box EXCEPT !.queue = all]
  <2>1. IsMap(r, {"queue", "lagged"}) /\ r.queue = all
    BY DEF IsMap, BoxOK
  <2>2. Queued(box, sent) = r
    BY <1>2, <1>6
  <2> HIDE DEF r
  <2> QED
    BY <1>1, <2>1, <2>2 DEF BoxOK
<1> QED
  BY <1>5, <1>6

LEMMA PostOK ==
    ASSUME NEW p, Solitary(p), NEW boxes, \A w \in Nodes : BoxOK(p, w, boxes[w]),
           NEW v \in Nodes, NEW sent, NEW hash, SentBy(sent, v, hash), hash.coinbase = v,
           inbox' = Post(boxes, v, sent)
    PROVE  Boxes(p)'
<1>1. IsMap(inbox', Nodes)
  BY DEF Post, IsMap
<1>2. ASSUME NEW w \in Nodes PROVE BoxOK(p, w, inbox'[w])
  <2>1. inbox'[w] = IF w = v \/ ({v, w} \in link /\ v \in ToSet(Configured[w]))
                    THEN Queued(boxes[w], sent) ELSE boxes[w]
    BY DEF Post
  <2>2. IsList(sent) /\ \A x \in ToSet(sent) : OwnVote(x) /\ x.voter = v
    BY DEF SentBy, OwnVote
  <2>3. ToSet(Configured[p]) = {p}
    BY SingleSeq DEF Solitary
  <2>4. BoxOK(p, w, boxes[w])
    OBVIOUS
  <2>5. CASE w = p /\ v # p
    BY <2>1, <2>3, <2>4, <2>5
  <2>6. CASE ~(w = p /\ v # p)
    <3>1. \A x \in ToSet(sent) : OwnVote(x) /\ (w = p => x.voter = p)
      BY <2>2, <2>6
    <3>2. BoxOK(p, w, Queued(boxes[w], sent))
      BY <2>2, <2>4, <3>1, QueuedOK
    <3> QED
      BY <2>1, <2>4, <3>2
  <2> QED
    BY <2>5, <2>6
<1> QED
  BY <1>1, <1>2 DEF Boxes

LEMMA SameChains ==
    ASSUME NEW p, ChainInv(p), chain' = chain, NEW new, ChannelGrows(new),
           \A m \in new : Carries(m, chain[p])
    PROVE  Chains(p)' /\ Carried(p)'
<1>1. Chains(p)'
  BY DEF ChainInv, Chains
<1>2. Carried(p)'
  BY DEF ChainInv, Carried, ChannelGrows
<1> QED
  BY <1>1, <1>2

(* A step of one node, as far as the followers go. *)
LEMMA FollowersStep ==
    ASSUME NEW p, ChainInv(p), NEW v \in Nodes,
           \A w \in Nodes \ {v} : engine'[w] = engine[w] /\ pc'[w] = pc[w],
           v # p => NeedsOthers(engine'[v]) /\ pc'[v] # "committing"
    PROVE  Followers(p)'
  BY DEF ChainInv, Followers

LEMMA RestartsSame ==
    ASSUME NEW p, ChainInv(p), count'.restarts = count.restarts
    PROVE  Restarts'
  BY DEF ChainInv, Restarts

LEMMA InvFacts ==
    ASSUME NEW p, Solitary(p), ChainInv(p)
    PROVE  /\ p \in Nodes /\ DiskInv /\ NodeTypes /\ ChannelTypes
           /\ Boxes(p) /\ Followers(p) /\ Produced(p) /\ Restarts /\ Chains(p) /\ Carried(p)
  BY DEF Solitary, ChainInv, DiskInv, Types

LEMMA ProposeChain ==
    ASSUME NEW p, Solitary(p), ChainInv(p), NEW v \in Nodes, NEW staking \in StakingTxs,
           RunRound(v, staking)
    PROVE  ChainInv(p)' /\ Moves(p)
<1> DEFINE e == engine[v]
           c == Candidate(v, staking)
           f == Stored(e, c)
           o == OnProposal(e, v, c)
<1>0. /\ p \in Nodes /\ DiskInv /\ NodeTypes /\ ChannelTypes
      /\ Boxes(p) /\ Followers(p) /\ Produced(p) /\ Restarts
  BY InvFacts
<1>1. Height(v) \in Nat /\ IsEngine(e) /\ NumberedStore(e)
  BY <1>0, NodeFacts
<1>2. /\ c.number = Height(v) + 1 /\ c.number \in Nat \ {0} /\ IsMap(c, BlockFields)
      /\ c.coinbase = v /\ c.timestamp = count.restarts[v]
      /\ c.epoch_seed # SomeSeed(ZeroSeed)
  BY <1>1, CandidateFits DEF BlockFields
<1>3. /\ chain' = chain /\ count' = count /\ channel' = channel
      /\ engine' = [engine EXCEPT ![v] = o.engine] /\ inbox' = Post(inbox, v, o.sent)
      /\ candidate' = [candidate EXCEPT ![v] = o.decided]
  BY DEF RunRound, net, disk
<1>4. pc' = [pc EXCEPT ![v] = CASE o.decided # NoBlock -> "committing"
                    [] o.decided = NoBlock /\ o.sent # <<>> /\ e.quorum > 1 -> "waiting"
                    [] OTHER -> "idle"]
  BY DEF RunRound
<1> HIDE DEF c
<1>5. Follows(f, o) /\ SentBy(o.sent, v, c)
  BY <1>1, <1>2, ProposalFollows, ProposalSent
<1>6. IsEngine(f) /\ f.store = e.store \cup {c} /\ f.seed = e.seed
  BY <1>1, <1>2, StoredFacts
<1>7. v # p => o.decided = NoBlock /\ NeedsOthers(o.engine)
  BY <1>0, <1>1, <1>2, FollowerProposal DEF Followers
<1> HIDE DEF o, f, e
<1>8. /\ engine'[v] = o.engine /\ (o.decided = NoBlock => pc'[v] # "committing")
      /\ \A w \in Nodes \ {v} : engine'[w] = engine[w] /\ pc'[w] = pc[w]
  BY <1>0, <1>3, <1>4 DEF NodeTypes, IsMap
<1>9. DiskInv'
  BY <1>0, ProposeDisk
<1>10. Boxes(p)'
  <2>1. \A w \in Nodes : BoxOK(p, w, inbox[w])
    BY <1>0 DEF Boxes
  <2> QED
    BY <1>2, <1>3, <1>5, <2>1, PostOK
<1>11. Followers(p)'
  BY <1>7, <1>8, FollowersStep
<1>12. Produced(p)'
  <2>1. CASE v = p
    <3>1. engine'[p].store = engine[p].store \cup {c}
      BY <1>5, <1>6, <1>8, <2>1 DEF Follows, e
    <3>2. c.coinbase = p /\ c.timestamp = count.restarts[p]
      BY <1>2, <2>1
    <3> QED
      BY <1>0, <1>2, <1>3, <3>1, <3>2 DEF Produced
  <2>2. CASE v # p
    BY <1>0, <1>3, <1>8, <2>2 DEF Produced
  <2> QED
    BY <2>1, <2>2
<1>13. Restarts'
  BY <1>3, RestartsSame
<1>14. Chains(p)' /\ Carried(p)'
  BY <1>0, <1>3, ChannelSame, SameChains
<1>15. engine'[p].seed = engine[p].seed
  <2>1. CASE v = p
    BY <1>5, <1>6, <1>8, <2>1 DEF Follows, e
  <2>2. CASE v # p
    BY <1>0, <1>8, <2>2
  <2> QED
    BY <2>1, <2>2
<1>16. Quiet(p)
  BY <1>3, <1>15 DEF Quiet
<1> QED
  BY <1>9, <1>10, <1>11, <1>12, <1>13, <1>14, <1>16 DEF ChainInv, Moves

LEMMA DeliverChain ==
    ASSUME NEW p, Solitary(p), ChainInv(p), NEW v \in Nodes, Deliver(v)
    PROVE  ChainInv(p)' /\ Moves(p)
<1> DEFINE e == engine[v]
           vote == Head(inbox[v].queue)
           o == OnVote(e, v, vote)
           rest == Tail(inbox[v].queue)
           read == [inbox EXCEPT ![v].queue = rest]
<1>0. /\ p \in Nodes /\ DiskInv /\ NodeTypes /\ ChannelTypes
      /\ Boxes(p) /\ Followers(p) /\ Produced(p) /\ Restarts
  BY InvFacts
<1>1. IsEngine(e) /\ NumberedStore(e)
  BY <1>0, NodeFacts
<1>2. /\ chain' = chain /\ count' = count /\ channel' = channel
      /\ engine' = [engine EXCEPT ![v] = o.engine] /\ inbox' = Post(read, v, o.sent)
      /\ pc' = IF o.decided # NoBlock THEN [pc EXCEPT ![v] = "committing"] ELSE pc
      /\ pc[v] = "waiting" /\ inbox[v].queue # <<>>
  BY DEF Deliver, net, disk
<1>3. BoxOK(p, v, inbox[v])
  BY <1>0 DEF Boxes
<1>4. vote \in ToSet(inbox[v].queue) /\ IsList(rest) /\ ToSet(rest) \subseteq ToSet(inbox[v].queue)
  BY <1>2, <1>3, SeqFacts, TailFacts DEF BoxOK
<1>5. OwnVote(vote) /\ (v = p => vote.voter = p)
  BY <1>3, <1>4 DEF BoxOK
<1> HIDE DEF vote, rest
<1>6. \A w \in Nodes : BoxOK(p, w, read[w])
  <2>1. /\ IsMap(read[v], {"queue", "lagged"}) /\ read[v].queue = rest
        /\ \A w \in Nodes \ {v} : read[w] = inbox[w]
    BY <1>0, <1>3 DEF Boxes, BoxOK, IsMap
  <2> HIDE DEF read
  <2>2. BoxOK(p, v, read[v])
    BY <1>3, <1>4, <2>1 DEF BoxOK
  <2> QED
    BY <1>0, <2>1, <2>2 DEF Boxes
<1> HIDE DEF read
<1>7. Follows(e, o) /\ SentBy(o.sent, v, vote.data.hash)
  BY <1>1, VoteFollows, VoteSent
<1>8. v # p => o.decided = NoBlock /\ o.sent = <<>> /\ NeedsOthers(o.engine)
  BY <1>0, <1>1, <1>5, FollowerVote DEF Followers
<1> HIDE DEF o, e
<1>9. /\ engine'[v] = o.engine /\ (o.decided = NoBlock => pc'[v] # "committing")
      /\ \A w \in Nodes \ {v} : engine'[w] = engine[w] /\ pc'[w] = pc[w]
  BY <1>0, <1>2 DEF NodeTypes, IsMap
<1>10. DiskInv'
  BY <1>0, DeliverDisk
<1>11. Boxes(p)'
  <2>1. PICK hash : SentBy(o.sent, v, hash) /\ hash.coinbase = v
    <3>1. CASE v = p
      BY <1>5, <1>7, <3>1 DEF OwnVote
    <3>2. CASE v # p
      <4> DEFINE h == [coinbase |-> v]
      <4>1. h.coinbase = v
        OBVIOUS
      <4> HIDE DEF h
      <4>2. SentBy(o.sent, v, h)
        BY <1>8, <3>2, NothingSent
      <4> QED
        BY <4>1, <4>2
    <3> QED
      BY <3>1, <3>2
  <2> QED
    BY <1>2, <1>6, <2>1, PostOK
<1>12. Followers(p)'
  BY <1>8, <1>9, FollowersStep
<1>13. engine'[p].store = engine[p].store /\ engine'[p].seed = engine[p].seed
  <2>1. CASE v = p
    BY <1>7, <1>9, <2>1 DEF Follows, e
  <2>2. CASE v # p
    BY <1>0, <1>9, <2>2
  <2> QED
    BY <2>1, <2>2
<1>14. Produced(p)'
  BY <1>0, <1>2, <1>13 DEF Produced
<1>15. Restarts'
  BY <1>2, RestartsSame
<1>16. Chains(p)' /\ Carried(p)'
  BY <1>0, <1>2, ChannelSame, SameChains
<1>17. Quiet(p)
  BY <1>2, <1>13 DEF Quiet
<1> QED
  BY <1>10, <1>11, <1>12, <1>14, <1>15, <1>16, <1>17 DEF ChainInv, Moves

LEMMA TimeoutChain ==
    ASSUME NEW p, Solitary(p), ChainInv(p), NEW v \in Nodes, Timeout(v) \/ Lagged(v)
    PROVE  ChainInv(p)' /\ Moves(p)
<1>0. /\ p \in Nodes /\ DiskInv /\ NodeTypes /\ ChannelTypes
      /\ Boxes(p) /\ Followers(p) /\ Produced(p) /\ Restarts
  BY InvFacts
<1>1. IsEngine(engine[v])
  BY <1>0, NodeFacts
<1>2. /\ pc' = [pc EXCEPT ![v] = "idle"] /\ chain' = chain /\ count' = count /\ channel' = channel
  BY DEF Timeout, Lagged, net, disk
<1>3. /\ engine'[v] = engine[v] \/ engine'[v] = [engine[v] EXCEPT !.round = @ + 1]
      /\ \A w \in Nodes \ {v} : engine'[w] = engine[w] /\ pc'[w] = pc[w]
      /\ pc'[v] = "idle"
  BY <1>0, <1>2 DEF Timeout, Lagged, NodeTypes, IsMap
<1>4. /\ engine'[v].quorum = engine[v].quorum /\ engine'[v].accs = engine[v].accs
      /\ engine'[v].store = engine[v].store /\ engine'[v].seed = engine[v].seed
  <2>1. CASE engine'[v] = engine[v]
    BY <2>1
  <2>2. CASE engine'[v] = [engine[v] EXCEPT !.round = @ + 1]
    BY <1>1, <2>2 DEF IsEngine, EngineFields
  <2> QED
    BY <1>3, <2>1, <2>2
<1>5. DiskInv'
  BY <1>0, TimeoutDisk
<1>6. Boxes(p)'
  <2>1. CASE inbox' = inbox
    BY <1>0, <2>1 DEF Boxes
  <2>2. CASE inbox' = [inbox EXCEPT ![v].lagged = FALSE]
    <3>1. BoxOK(p, v, inbox[v])
      BY <1>0 DEF Boxes
    <3>2. /\ IsMap(inbox', Nodes) /\ IsMap(inbox'[v], {"queue", "lagged"})
          /\ inbox'[v].queue = inbox[v].queue /\ \A w \in Nodes \ {v} : inbox'[w] = inbox[w]
      BY <1>0, <2>2, <3>1 DEF Boxes, BoxOK, IsMap
    <3>3. BoxOK(p, v, inbox'[v])
      BY <3>1, <3>2 DEF BoxOK
    <3> QED
      BY <1>0, <3>2, <3>3 DEF Boxes
  <2> QED
    BY <2>1, <2>2 DEF Timeout, Lagged
<1>7. Followers(p)'
  <2>1. v # p => NeedsOthers(engine'[v])
    BY <1>0, <1>4 DEF Followers, NeedsOthers
  <2> QED
    BY <1>3, <2>1, FollowersStep
<1>8. engine'[p].store = engine[p].store /\ engine'[p].seed = engine[p].seed
  BY <1>0, <1>3, <1>4
<1>9. Produced(p)'
  BY <1>0, <1>2, <1>8 DEF Produced
<1>10. Restarts'
  BY <1>2, RestartsSame
<1>11. Chains(p)' /\ Carried(p)'
  BY <1>0, <1>2, ChannelSame, SameChains
<1>12. Quiet(p)
  BY <1>2, <1>8 DEF Quiet
<1> QED
  BY <1>5, <1>6, <1>7, <1>9, <1>10, <1>11, <1>12 DEF ChainInv, Moves

(* The body of a block is not touched by its execution. *)
LEMMA BodyFacts ==
    ASSUME NEW b, IsMap(b, BlockFields)
    PROVE  Body(b).number = b.number /\ Body(b).coinbase = b.coinbase
  BY DEF Body, IsMap, BlockFields

LEMMA ExecutedBody ==
    ASSUME NEW b, IsMap(b, BlockFields), NEW root, NEW x, x = [b EXCEPT !.state_root = root]
    PROVE  /\ IsMap(x, BlockFields) /\ Body(x) = Body(b) /\ x.number = b.number
           /\ x.coinbase = b.coinbase /\ x.timestamp = b.timestamp /\ x.epoch_seed = b.epoch_seed
<1>2. /\ IsMap(x, BlockFields) /\ x.number = b.number
      /\ x.coinbase = b.coinbase /\ x.timestamp = b.timestamp /\ x.epoch_seed = b.epoch_seed
  BY DEF IsMap, BlockFields
<1>3. Body(x) = Body(b)
  <2> DEFINE none == Unexecuted
  <2> HIDE DEF none
  <2>1. [x EXCEPT !.state_root = none] = [b EXCEPT !.state_root = none]
    BY DEF IsMap, BlockFields
  <2> QED
    BY <2>1 DEF Body, none
<1> QED
  BY <1>2, <1>3

(* A chain that has grown by a block. *)
LEMMA LongerChain ==
    ASSUME NEW t, Begins(t, t), NEW b, IsBlock(b, Len(t) + 1), NEW u, u = Append(t, b)
    PROVE  /\ Begins(u, u) /\ Len(u) = Len(t) + 1 /\ Len(t) \in Nat /\ u[Len(t) + 1] = b
           /\ \A i \in 1..Len(t) : u[i] = t[i]
           /\ \A s : Begins(s, t) => Begins(s, u)
           /\ \A m : Carries(m, t) => Carries(m, u)
<1>1. /\ IsList(u) /\ Len(u) = Len(t) + 1 /\ u[Len(t) + 1] = b /\ Len(t) \in Nat
      /\ \A i \in 1..Len(t) : u[i] = t[i]
  BY AppendFacts, SeqFacts DEF Begins
<1>2. Begins(u, u)
  <2>1. ASSUME NEW i \in 1..Len(u) PROVE IsBlock(u[i], i)
    <3>1. CASE i = Len(t) + 1
      BY <1>1, <3>1
    <3>2. CASE i # Len(t) + 1
      <4>1. i \in 1..Len(t)
        BY <1>1, <3>2
      <4> QED
        BY <1>1, <4>1 DEF Begins
    <3> QED
      BY <3>1, <3>2
  <2>2. Len(u) <= Len(u)
    BY <1>1
  <2> QED
    BY <1>1, <2>1, <2>2 DEF Begins
<1>3. ASSUME NEW s, Begins(s, t) PROVE Begins(s, u)
  <2>1. /\ IsList(s) /\ Len(s) <= Len(t) /\ Len(s) \in Nat
        /\ \A i \in 1..Len(s) : IsBlock(s[i], i) /\ Body(s[i]) = Body(t[i])
    BY <1>3, SeqFacts DEF Begins
  <2>2. \A i \in 1..Len(s) : u[i] = t[i]
    BY <1>1, <2>1
  <2>3. Len(s) <= Len(u)
    BY <1>1, <2>1
  <2> QED
    BY <2>1, <2>2, <2>3 DEF Begins
<1>4. ASSUME NEW x, IsOn(x, t) PROVE IsOn(x, u)
  <2>1. x.number \in 1..Len(t) /\ Body(x) = Body(t[x.number]) /\ IsMap(x, BlockFields)
    BY <1>4 DEF IsOn
  <2>2. x.number \in 1..Len(u) /\ u[x.number] = t[x.number]
    BY <1>1, <2>1
  <2> QED
    BY <2>1, <2>2 DEF IsOn
<1>5. ASSUME NEW m, Carries(m, t) PROVE Carries(m, u)
  BY <1>4, <1>5 DEF Carries
<1> QED
  BY <1>1, <1>2, <1>3, <1>5

LEMMA DoCommitChain ==
    ASSUME NEW p, Solitary(p), ChainInv(p), NEW v \in Nodes, DoCommit(v)
    PROVE  ChainInv(p)' /\ Moves(p)
<1> DEFINE stored == Executed(candidate[p], accounts[p], TRUE)
           t == chain[p]
           u == Append(t, stored)
           m0 == [type |-> "block", block |-> stored]
<1>0. /\ p \in Nodes /\ DiskInv /\ NodeTypes /\ ChannelTypes
      /\ Boxes(p) /\ Followers(p) /\ Produced(p) /\ Restarts /\ Chains(p) /\ Carried(p)
  BY InvFacts
<1>1. /\ pc[v] = "committing" /\ pc'[v] # "committing" /\ count' = count
      /\ \A w \in Nodes \ {v} : pc'[w] = pc[w] /\ engine'[w] = engine[w]
      /\ Appends(v) \/ Skips(v)
  BY <1>0, DoCommitFacts
<1>2. v = p
  BY <1>0, <1>1 DEF Followers
<1>3. candidate[p] \in engine[p].store /\ IsList(t)
  BY <1>0, <1>1, <1>2, NodeFacts DEF DecidedFits
<1>4. DiskInv'
  BY <1>0, DoCommitDisk
<1>5. Boxes(p)'
  BY <1>0 DEF Boxes, DoCommit
<1>6. Followers(p)'
  BY <1>1, <1>2, FollowersStep
<1>7. SameStore(engine[p], engine'[p])
  BY <1>1, <1>2 DEF Appends, Skips
<1>8. Produced(p)'
  BY <1>0, <1>1, <1>7 DEF Produced, SameStore
<1>9. Restarts'
  BY <1>1, RestartsSame
<1>10. CASE Appends(v)
  <2>1. /\ candidate[p].number = Height(p) + 1 /\ chain' = [chain EXCEPT ![p] = u]
        /\ channel' = Broadcast(p, m0)
    BY <1>2, <1>10 DEF Appends
  <2>a. IsMap(candidate[p], BlockFields) /\ candidate[p].coinbase = p
    BY <1>0, <1>3 DEF Produced
  <2>b. IsMap(stored, BlockFields) /\ stored.number = candidate[p].number
        /\ stored.coinbase = candidate[p].coinbase
    <3>1. PICK root : stored = [candidate[p] EXCEPT !.state_root = root]
      BY Zenon DEF Executed
    <3> HIDE DEF stored
    <3> QED
      BY <2>a, <3>1, ExecutedBody
  <2> HIDE DEF stored
  <2>2. IsBlock(stored, Len(t) + 1) /\ stored.coinbase = p
    BY <2>1, <2>a, <2>b DEF Height, IsBlock
  <2>3. /\ Begins(u, u) /\ Len(u) = Len(t) + 1 /\ Len(t) \in Nat /\ u[Len(t) + 1] = stored
        /\ \A i \in 1..Len(t) : u[i] = t[i]
        /\ \A s : Begins(s, t) => Begins(s, u)
        /\ \A m : Carries(m, t) => Carries(m, u)
    <3>1. Begins(t, t)
      BY <1>0 DEF Chains
    <3> QED
      BY <2>2, <3>1, LongerChain
  <2> HIDE DEF u
  <2>4. chain'[p] = u /\ \A w \in Nodes \ {p} : chain'[w] = chain[w]
    BY <1>0, <2>1 DEF NodeTypes, IsMap
  <2>5. Chains(p)'
    <3>1. \A i \in 1..Len(t) : t[i].coinbase = p
      BY <1>0 DEF Chains
    <3>2. ASSUME NEW i \in 1..Len(u) PROVE u[i].coinbase = p
      <4>1. CASE i = Len(t) + 1
        BY <2>2, <2>3, <4>1
      <4>2. CASE i # Len(t) + 1
        <5>1. i \in 1..Len(t)
          BY <2>3, <4>2
        <5> QED
          BY <2>3, <3>1, <5>1
      <4> QED
        BY <4>1, <4>2
    <3>3. \A w \in Nodes : Begins(chain'[w], u)
      BY <1>0, <2>3, <2>4 DEF Chains
    <3> QED
      BY <2>4, <3>2, <3>3 DEF Chains
  <2>6. Carries(m0, u)
    <3>1. stored.number = Len(t) + 1 /\ IsMap(stored, BlockFields)
      BY <2>2 DEF IsBlock
    <3>2. IsOn(stored, u)
      BY <2>3, <3>1 DEF IsOn
    <3>3. MessageOK(m0) /\ m0.type = "block" /\ m0.block = stored
      BY DEF MessageOK
    <3> HIDE DEF m0
    <3>4. ToSet(Payload(m0)) = {stored}
      BY <3>3, PayloadFacts, SingleSeq
    <3> QED
      BY <3>2, <3>4 DEF Carries
  <2>7. Carried(p)'
    <3> HIDE DEF m0
    <3>1. ChannelGrows({m0})
      BY <1>0, <2>1, BroadcastGrows
    <3>2. \A x \in Nodes \X Nodes : \A m \in ToSet(channel'[x]) : Carries(m, u)
      BY <1>0, <2>3, <2>6, <3>1 DEF Carried, ChannelGrows
    <3> QED
      BY <2>4, <3>2 DEF Carried
  <2>8. Moves(p)
    BY <1>1, <1>2, <1>3, <1>10 DEF Moves, Commits
  <2> QED
    BY <1>4, <1>5, <1>6, <1>8, <1>9, <2>5, <2>7, <2>8 DEF ChainInv
<1>11. CASE Skips(v)
  <2>1. chain' = chain /\ channel' = channel /\ engine'[p].seed = engine[p].seed
    BY <1>2, <1>11 DEF Skips
  <2>2. Chains(p)' /\ Carried(p)'
    BY <1>0, <2>1, ChannelSame, SameChains
  <2>3. Quiet(p)
    BY <1>1, <2>1 DEF Quiet
  <2> QED
    BY <1>4, <1>5, <1>6, <1>8, <1>9, <2>2, <2>3 DEF ChainInv, Moves
<1> QED
  BY <1>1, <1>10, <1>11

LEMMA CommitFailsChain ==
    ASSUME NEW p, Solitary(p), ChainInv(p), NEW v \in Nodes, CommitFails(v)
    PROVE  ChainInv(p)' /\ Moves(p)
<1> DEFINE f == PruneSeenVotes(engine[v], candidate[v].number)
<1>0. /\ p \in Nodes /\ DiskInv /\ NodeTypes /\ ChannelTypes
      /\ Boxes(p) /\ Followers(p) /\ Produced(p) /\ Restarts
  BY InvFacts
<1>1. /\ pc[v] = "committing" /\ pc' = [pc EXCEPT ![v] = "idle"]
      /\ engine' = [engine EXCEPT ![v] = f] /\ chain' = chain /\ channel' = channel
      /\ inbox' = inbox /\ count' = [count EXCEPT !.failures = @ + 1, !.events = @ + 1]
  BY DEF CommitFails, net
<1>2. v = p
  BY <1>0, <1>1 DEF Followers
<1>3. SameCore(engine[v], f)
  BY <1>0, NodeFacts, PruneCore
<1> HIDE DEF f
<1>4. /\ engine'[p] = f
      /\ \A w \in Nodes \ {v} : engine'[w] = engine[w] /\ pc'[w] = pc[w]
  BY <1>0, <1>1, <1>2 DEF NodeTypes, IsMap
<1>5. count'.restarts = count.restarts
  <2> DEFINE n == count.failures + 1
             k == count.events + 1
  <2>1. count' = [count EXCEPT !.failures = n, !.events = k]
    BY <1>1
  <2> HIDE DEF n, k
  <2> QED
    BY <1>0, <2>1 DEF NodeTypes, IsMap
<1>6. DiskInv'
  BY <1>0, CommitFailsDisk
<1>7. Boxes(p)'
  BY <1>0, <1>1 DEF Boxes
<1>8. Followers(p)'
  BY <1>2, <1>4, FollowersStep
<1>9. engine'[p].store = engine[p].store /\ engine'[p].seed = engine[p].seed
  BY <1>2, <1>3, <1>4 DEF SameCore
<1>10. Produced(p)'
  BY <1>0, <1>5, <1>9 DEF Produced
<1>11. Restarts'
  BY <1>5, RestartsSame
<1>12. Chains(p)' /\ Carried(p)'
  BY <1>0, <1>1, ChannelSame, SameChains
<1>13. Quiet(p)
  BY <1>1, <1>5, <1>9 DEF Quiet
<1> QED
  BY <1>6, <1>7, <1>8, <1>10, <1>11, <1>12, <1>13 DEF ChainInv, Moves

(* Nothing of the drivers and the chains changes. *)
LEMMA NetworkChain ==
    ASSUME NEW p, Solitary(p), ChainInv(p), chain' = chain, engine' = engine, pc' = pc,
           inbox' = inbox, count'.restarts = count.restarts, DiskInv',
           NEW new, ChannelGrows(new), \A m \in new : Carries(m, chain[p])
    PROVE  ChainInv(p)' /\ Moves(p)
<1>1. Boxes(p)' /\ Followers(p)' /\ Produced(p)' /\ Restarts'
  BY DEF ChainInv, Boxes, Followers, Produced, Restarts
<1>2. Chains(p)' /\ Carried(p)'
  BY SameChains
<1>3. Quiet(p)
  BY DEF Quiet
<1> QED
  BY <1>1, <1>2, <1>3 DEF ChainInv, Moves

LEMMA RegistryChain ==
    ASSUME NEW p, Solitary(p), ChainInv(p), NEW v \in Nodes, NEW u \in Nodes,
           Stake(v, u) \/ Jail(v, u)
    PROVE  ChainInv(p)' /\ Moves(p)
<1>0. DiskInv /\ NodeTypes /\ ChannelTypes
  BY InvFacts
<1>1. /\ chain' = chain /\ engine' = engine /\ pc' = pc /\ inbox' = inbox
      /\ channel' = channel /\ count' = [count EXCEPT !.events = @ + 1]
  BY DEF Stake, Jail, driver, net, disk
<1>2. count'.restarts = count.restarts /\ ChannelGrows({}) /\ DiskInv'
  BY <1>0, <1>1, CountEvent, ChannelSame, RegistryDisk
<1> QED
  BY <1>1, <1>2, NetworkChain

LEMMA ConnectChain ==
    ASSUME NEW p, Solitary(p), ChainInv(p), NEW v \in Nodes, NEW w \in Nodes, Connect(v, w)
    PROVE  ChainInv(p)' /\ Moves(p)
<1> DEFINE new == ToSet(Request(v, w)) \cup ToSet(Request(w, v))
<1>0. DiskInv /\ NodeTypes /\ ChannelTypes
  BY InvFacts
<1>1. /\ chain' = chain /\ engine' = engine /\ pc' = pc /\ inbox' = inbox
      /\ count' = [count EXCEPT !.events = @ + 1]
  BY DEF Connect, driver, disk
<1>2. count'.restarts = count.restarts /\ ChannelGrows(new) /\ DiskInv'
  BY <1>0, <1>1, CountEvent, ConnectGrows, ConnectDisk
<1>3. \A m \in new : Carries(m, chain[p])
  <2>1. \A m \in new : m.type = "get" /\ MessageOK(m)
    BY <1>0, RequestFacts
  <2> QED
    BY <2>1, PayloadFacts DEF Carries
<1> HIDE DEF new
<1> QED
  BY <1>1, <1>2, <1>3, NetworkChain

LEMMA DisconnectChain ==
    ASSUME NEW p, Solitary(p), ChainInv(p), NEW v \in Nodes, NEW w \in Nodes, Disconnect(v, w)
    PROVE  ChainInv(p)' /\ Moves(p)
<1>0. DiskInv /\ NodeTypes /\ ChannelTypes
  BY InvFacts
<1>1. /\ chain' = chain /\ engine' = engine /\ pc' = pc /\ inbox' = inbox
      /\ count' = count /\ Drop({{v, w}})
  BY DEF Disconnect, driver, disk
<1>2. ChannelGrows({}) /\ DiskInv'
  BY <1>0, <1>1, DropGrows, DisconnectDisk
<1> QED
  BY <1>1, <1>2, NetworkChain

(* An import of a block of t leaves a beginning of t. *)
LEMMA ImportBegins ==
    ASSUME NEW t, Begins(t, t), NEW s, Begins(s, t), NEW held, NEW b, IsOn(b, t)
    PROVE  Begins(Imported(s, held, b), t)
<1> DEFINE x == Executed(b, held, FALSE)
           u == Append(s, x)
           r == Imported(s, held, b)
<1>1. r = IF b.number = Len(s) + 1 THEN u ELSE s
  BY Zenon DEF Imported
<1>2. IsMap(b, BlockFields) /\ b.number \in 1..Len(t) /\ Body(b) = Body(t[b.number])
  BY DEF IsOn
<1>3. IsBlock(x, b.number) /\ Body(x) = Body(b)
  <2>1. PICK root : x = [b EXCEPT !.state_root = root]
    BY Zenon DEF Executed
  <2> HIDE DEF x
  <2> QED
    BY <1>2, <2>1, ExecutedBody DEF IsBlock
<1> HIDE DEF x, r
<1>4. /\ IsList(s) /\ Len(s) \in Nat /\ Len(t) \in Nat
      /\ \A i \in 1..Len(s) : IsBlock(s[i], i) /\ Body(s[i]) = Body(t[i])
  BY SeqFacts DEF Begins
<1>5. IsList(u) /\ Len(u) = Len(s) + 1 /\ u[Len(s) + 1] = x /\ \A i \in 1..Len(s) : u[i] = s[i]
  BY <1>4, AppendFacts
<1> HIDE DEF u
<1>6. CASE b.number = Len(s) + 1
  <2>1. ASSUME NEW i \in 1..Len(u) PROVE IsBlock(u[i], i) /\ Body(u[i]) = Body(t[i])
    <3>1. CASE i = Len(s) + 1
      BY <1>2, <1>3, <1>5, <1>6, <3>1
    <3>2. CASE i # Len(s) + 1
      <4>1. i \in 1..Len(s)
        BY <1>4, <1>5, <3>2
      <4> QED
        BY <1>4, <1>5, <4>1
    <3> QED
      BY <3>1, <3>2
  <2>2. Len(u) <= Len(t)
    BY <1>2, <1>4, <1>5, <1>6
  <2>3. Begins(u, t)
    BY <1>5, <2>1, <2>2 DEF Begins
  <2> QED
    BY <1>1, <1>6, <2>3 DEF r
<1>7. CASE b.number # Len(s) + 1
  BY <1>1, <1>7 DEF r
<1> QED
  BY <1>6, <1>7

LEMMA BatchBegins ==
    ASSUME NEW t, Begins(t, t), NEW s, Begins(s, t), NEW held,
           NEW batch, IsList(batch), \A b \in ToSet(batch) : IsOn(b, t)
    PROVE  Begins(ImportedBatch(s, held, batch), t)
<1> DEFINE X == ToSet(s) \cup {Executed(b, held, FALSE) : b \in ToSet(batch)}
           Good == {r \in Seq(X) : Begins(r, t)}
<1>1. s \in Good
  <2>1. ToSet(s) \subseteq X /\ IsList(s)
    BY DEF Begins
  <2> HIDE DEF X
  <2>2. s \in Seq(X)
    BY <2>1 DEF IsList
  <2> QED
    BY <2>2
<1>2. ASSUME NEW r \in Good, NEW b \in ToSet(batch) PROVE Imported(r, held, b) \in Good
  <2> DEFINE x == Executed(b, held, FALSE)
             q == Imported(r, held, b)
  <2>1. x \in X
    BY <1>2
  <2> HIDE DEF X
  <2>2. r \in Seq(X) /\ Begins(r, t)
    BY <1>2
  <2>3. q = Append(r, x) \/ q = r
    BY Zenon DEF Imported
  <2>4. Begins(q, t)
    BY <1>2, <2>2, ImportBegins
  <2> HIDE DEF x, q
  <2>5. q \in Seq(X)
    BY <2>1, <2>2, <2>3
  <2>6. q \in Good
    BY <2>4, <2>5
  <2> QED
    BY <2>6 DEF q
<1> HIDE DEF X, Good
<1>3. ImportedBatch(s, held, batch) \in Good
  BY <1>1, <1>2, BatchInduction
<1> QED
  BY <1>3 DEF Good

LEMMA ImportsBegin ==
    ASSUME NEW t, Begins(t, t), NEW s, Begins(s, t), NEW held, NEW B, \A b \in B : IsOn(b, t),
           NEW r, Imports(s, held, B, r)
    PROVE  Begins(r, t)
<1>1. CASE r = s
  BY <1>1
<1>2. CASE \E b \in B : r = Imported(s, held, b)
  BY <1>2, ImportBegins
<1>3. CASE \E batch : IsList(batch) /\ ToSet(batch) \subseteq B /\ r = ImportedBatch(s, held, batch)
  <2>1. PICK batch : IsList(batch) /\ ToSet(batch) \subseteq B /\ r = ImportedBatch(s, held, batch)
    BY <1>3
  <2>2. \A b \in ToSet(batch) : IsOn(b, t)
    BY <2>1
  <2> QED
    BY <2>1, <2>2, BatchBegins
<1> QED
  BY <1>1, <1>2, <1>3 DEF Imports

(* Blocks it has are no news to a chain. *)
LEMMA NoNews ==
    ASSUME NEW t, IsList(t), NEW held, NEW B, \A b \in B : IsOn(b, t), NEW r, Imports(t, held, B, r)
    PROVE  r = t
<1>1. ASSUME NEW b \in B PROVE Imported(t, held, b) = t
  <2>1. b.number \in 1..Len(t) /\ Len(t) \in Nat
    BY SeqFacts DEF IsOn
  <2>2. b.number # Len(t) + 1
    BY <2>1
  <2> QED
    BY <2>2, Zenon DEF Imported
<1>2. ASSUME NEW batch, IsList(batch), ToSet(batch) \subseteq B PROVE ImportedBatch(t, held, batch) = t
  <2> DEFINE Good == {t}
  <2>1. t \in Good /\ \A s \in Good : \A b \in ToSet(batch) : Imported(s, held, b) \in Good
    BY <1>1, <1>2
  <2> HIDE DEF Good
  <2>2. ImportedBatch(t, held, batch) \in Good
    BY <1>2, <2>1, BatchInduction
  <2> QED
    BY <2>2 DEF Good
<1> QED
  BY <1>1, <1>2 DEF Imports

LEMMA ExchangeChain ==
    ASSUME NEW p, Solitary(p), ChainInv(p), NEW v \in Nodes, NEW w \in Nodes, Exchange(v, w)
    PROVE  ChainInv(p)' /\ Moves(p)
<1> DEFINE t == chain[p]
<1>0. /\ p \in Nodes /\ DiskInv /\ NodeTypes /\ ChannelTypes
      /\ Boxes(p) /\ Followers(p) /\ Produced(p) /\ Restarts /\ Chains(p) /\ Carried(p)
  BY InvFacts
<1>1. /\ IsList(t) /\ IsList(chain[v]) /\ Begins(chain[v], t) /\ Begins(t, t)
      /\ \A i \in 1..Len(t) : t[i].coinbase = p
  BY <1>0, NodeFacts DEF Chains
<1>2. engine' = engine /\ pc' = pc /\ inbox' = inbox /\ count'.restarts = count.restarts
  BY <1>0, ExchangeFacts
<1>3. PICK m \in ToSet(channel[<<w, v>>]) : \E answer, s :
        /\ AnswerOf(v, answer) /\ ChannelGrows(ToSet(answer)) /\ chain' = [chain EXCEPT ![v] = s]
        /\ Imports(chain[v], accounts[v], ToSet(Payload(m)), s)
  BY <1>0, ExchangeFacts
<1>4. PICK answer, s :
        /\ AnswerOf(v, answer) /\ ChannelGrows(ToSet(answer)) /\ chain' = [chain EXCEPT ![v] = s]
        /\ Imports(chain[v], accounts[v], ToSet(Payload(m)), s)
  BY <1>3
<1>5. \A b \in ToSet(Payload(m)) : IsOn(b, t)
  BY <1>0 DEF Carried, Carries
<1>6. \A x \in ToSet(answer) : Carries(x, t)
  <2>1. ASSUME NEW b \in ToSet(chain[v]) PROVE IsOn(b, t)
    <3>1. PICK i \in 1..Len(chain[v]) : b = chain[v][i]
      BY <1>1, SeqFacts
    <3>2. i \in 1..Len(t) /\ IsBlock(b, i) /\ Body(b) = Body(t[i])
      BY <1>1, <3>1, SeqFacts DEF Begins
    <3> QED
      BY <3>2 DEF IsOn, IsBlock
  <2>2. ASSUME NEW x \in ToSet(answer) PROVE Carries(x, t)
    <3>1. MessageOK(x) /\ (x.type = "get" \/ (x.type = "blocks" /\ ToSet(x.batch) \subseteq ToSet(chain[v])))
      BY <1>4 DEF AnswerOf
    <3>2. ToSet(Payload(x)) \subseteq ToSet(chain[v])
      BY <3>1, PayloadFacts
    <3> QED
      BY <2>1, <3>2 DEF Carries
  <2> QED
    BY <2>2
<1> HIDE DEF t
<1>7. Begins(s, t)
  BY <1>1, <1>4, <1>5, ImportsBegin
<1>8. chain'[v] = s /\ \A u \in Nodes \ {v} : chain'[u] = chain[u]
  BY <1>0, <1>4 DEF NodeTypes, IsMap
<1>9. chain'[p] = t
  <2>1. CASE v = p
    <3>1. s = t
      BY <1>1, <1>4, <1>5, <2>1, NoNews DEF t
    <3> QED
      BY <1>8, <2>1, <3>1
  <2>2. CASE v # p
    BY <1>0, <1>8, <2>2 DEF t
  <2> QED
    BY <2>1, <2>2
<1>10. Chains(p)'
  <2>1. \A u \in Nodes : Begins(chain'[u], t)
    BY <1>0, <1>7, <1>8 DEF Chains, t
  <2> QED
    BY <1>1, <1>9, <2>1 DEF Chains
<1>11. Carried(p)'
  <2>1. \A x \in Nodes \X Nodes : \A y \in ToSet(channel'[x]) : Carries(y, t)
    BY <1>0, <1>4, <1>6 DEF Carried, ChannelGrows, t
  <2> QED
    BY <1>9, <2>1 DEF Carried
<1>12. Boxes(p)' /\ Followers(p)' /\ Produced(p)' /\ Restarts'
  BY <1>0, <1>2 DEF Boxes, Followers, Produced, Restarts
<1>13. DiskInv'
  BY <1>0, ExchangeDisk
<1>14. Quiet(p)
  BY <1>2, <1>9 DEF Quiet, t
<1> QED
  BY <1>10, <1>11, <1>12, <1>13, <1>14 DEF ChainInv, Moves

LEMMA RestartChain ==
    ASSUME NEW p, Solitary(p), ChainInv(p), NEW v \in Nodes, NEW seed, Restart(v, seed)
    PROVE  ChainInv(p)' /\ Moves(p)
<1> DEFINE f == NewEngine(Configured[v], seed)
           box == [queue |-> <<>>, lagged |-> FALSE]
<1>0. /\ p \in Nodes /\ DiskInv /\ NodeTypes /\ ChannelTypes
      /\ Boxes(p) /\ Followers(p) /\ Produced(p) /\ Restarts
  BY InvFacts
<1>1. /\ engine' = [engine EXCEPT ![v] = f] /\ pc' = [pc EXCEPT ![v] = "idle"] /\ chain' = chain
      /\ count' = [count EXCEPT !.restarts[v] = @ + 1, !.events = @ + 1]
      /\ inbox' = [inbox EXCEPT ![v] = box] /\ Drop({l \in link : v \in l})
  BY DEF Restart
<1>2. f.store = {}
  BY NewEngineFacts
<1>3. v # p => NeedsOthers(f)
  <2>1. Len(Configured[v]) \in Nat
    BY DriverConstants
  <2> QED
    BY <2>1, ConfiguredNeedsOthers DEF Solitary
<1> HIDE DEF f
<1>4. /\ engine'[v] = f /\ pc'[v] = "idle"
      /\ \A w \in Nodes \ {v} : engine'[w] = engine[w] /\ pc'[w] = pc[w]
  BY <1>0, <1>1 DEF NodeTypes, IsMap
<1>5. count'.restarts = [count.restarts EXCEPT ![v] = @ + 1]
  <2> DEFINE r == [count.restarts EXCEPT ![v] = @ + 1]
             k == count.events + 1
  <2>1. count' = [count EXCEPT !.restarts = r, !.events = k]
    BY <1>1
  <2> HIDE DEF r, k
  <2>2. count'.restarts = r
    BY <1>0, <2>1 DEF NodeTypes, IsMap
  <2> QED
    BY <2>2 DEF r
<1>6. /\ Restarts' /\ count'.restarts[v] > 0
      /\ \A w \in Nodes \ {v} : count'.restarts[w] = count.restarts[w]
  BY <1>0, <1>5 DEF Restarts, IsMap
<1>7. DiskInv'
  BY <1>0, RestartDisk
<1>8. Boxes(p)'
  <2>1. IsMap(box, {"queue", "lagged"}) /\ box.queue = <<>>
    BY DEF IsMap
  <2> HIDE DEF box
  <2>2. IsList(box.queue) /\ ToSet(box.queue) = {}
    BY <2>1, EmptyList
  <2>3. BoxOK(p, v, box)
    BY <2>1, <2>2 DEF BoxOK
  <2>4. IsMap(inbox', Nodes) /\ inbox'[v] = box /\ \A w \in Nodes \ {v} : inbox'[w] = inbox[w]
    BY <1>0, <1>1 DEF Boxes, IsMap
  <2> QED
    BY <1>0, <2>3, <2>4 DEF Boxes
<1>9. Followers(p)'
  BY <1>3, <1>4, FollowersStep
<1>10. Produced(p)'
  <2>1. CASE v = p
    BY <1>2, <1>4, <2>1 DEF Produced
  <2>2. CASE v # p
    BY <1>0, <1>4, <1>6, <2>2 DEF Produced
  <2> QED
    BY <2>1, <2>2
<1>11. Chains(p)' /\ Carried(p)'
  <2>1. ChannelGrows({})
    BY <1>0, <1>1, DropGrows
  <2> QED
    BY <1>1, <2>1, SameChains
<1>12. Moves(p)
  <2>1. CASE v = p
    BY <1>1, <1>6, <2>1 DEF Moves, Reboots
  <2>2. CASE v # p
    BY <1>0, <1>1, <1>4, <1>6, <2>2 DEF Moves, Quiet
  <2> QED
    BY <2>1, <2>2
<1> QED
  BY <1>6, <1>7, <1>8, <1>9, <1>10, <1>11, <1>12 DEF ChainInv

LEMMA InitChain == ASSUME NEW p, Solitary(p), Init PROVE ChainInv(p)
<1>0. p \in Nodes
  BY DEF Solitary
<1>1. PICK seed \in GenesisSeeds : engine = [v \in Nodes |-> NewEngine(Configured[v], seed)]
  BY DEF Init
<1>2. DiskInv
  BY InitDisk
<1>3. ASSUME NEW v \in Nodes PROVE chain[v] = <<>> /\ IsList(chain[v]) /\ Len(chain[v]) = 0
  BY EmptyList DEF Init
<1>4. ASSUME NEW x \in Nodes \X Nodes PROVE ToSet(channel[x]) = {}
  BY EmptyList DEF Init
<1>5. Boxes(p)
  <2> DEFINE box == [queue |-> <<>>, lagged |-> FALSE]
  <2>1. IsMap(box, {"queue", "lagged"}) /\ box.queue = <<>>
    BY DEF IsMap
  <2>2. IsMap(inbox, Nodes) /\ \A w \in Nodes : inbox[w] = box
    BY DEF Init, IsMap
  <2> HIDE DEF box
  <2>3. IsList(box.queue) /\ ToSet(box.queue) = {}
    BY <2>1, EmptyList
  <2>4. \A w \in Nodes : BoxOK(p, w, box)
    BY <2>1, <2>3 DEF BoxOK
  <2> QED
    BY <2>2, <2>4 DEF Boxes
<1>6. Followers(p)
  <2> SUFFICES ASSUME NEW v \in Nodes \ {p} PROVE NeedsOthers(engine[v]) /\ pc[v] # "committing"
    BY DEF Followers
  <2>1. Len(Configured[v]) \in Nat /\ Len(Configured[v]) >= 2
    BY DriverConstants DEF Solitary
  <2>2. engine[v] = NewEngine(Configured[v], seed)
    BY <1>1
  <2> QED
    BY <2>1, <2>2, ConfiguredNeedsOthers DEF Init
<1>7. Produced(p)
  <2>1. engine[p] = NewEngine(Configured[p], seed)
    BY <1>0, <1>1
  <2>2. engine[p].store = {}
    BY <2>1, NewEngineFacts
  <2> QED
    BY <2>2 DEF Produced
<1>8. Restarts
  BY DEF Restarts, Init, IsMap
<1>9. Chains(p)
  BY <1>0, <1>3 DEF Chains, Begins
<1>10. Carried(p)
  BY <1>4 DEF Carried
<1> QED
  BY <1>2, <1>5, <1>6, <1>7, <1>8, <1>9, <1>10 DEF ChainInv

LEMMA StutterChain ==
    ASSUME NEW p, Solitary(p), ChainInv(p), UNCHANGED vars PROVE ChainInv(p)' /\ Moves(p)
<1>0. DiskInv /\ ChannelTypes
  BY InvFacts
<1>1. /\ chain' = chain /\ engine' = engine /\ pc' = pc /\ inbox' = inbox
      /\ count' = count /\ channel' = channel
  BY DEF vars
<1>2. DiskInv'
  BY <1>0, NextDisk
<1>3. ChannelGrows({})
  BY <1>0, <1>1, ChannelSame
<1> QED
  BY <1>1, <1>2, <1>3, NetworkChain

LEMMA NextChain ==
    ASSUME NEW p, Solitary(p), ChainInv(p), [Next]_vars PROVE ChainInv(p)' /\ Moves(p)
<1>1. ASSUME NEW v \in Nodes, Propose(v) PROVE ChainInv(p)' /\ Moves(p)
  BY <1>1, ProposeChain DEF Propose
<1>2. ASSUME NEW v \in Nodes, WaitForProposal(v) PROVE ChainInv(p)' /\ Moves(p)
  BY <1>2, StutterChain DEF WaitForProposal
<1> QED
  BY <1>1, <1>2, StutterChain, DeliverChain, TimeoutChain, DoCommitChain, CommitFailsChain,
     RegistryChain, ConnectChain, DisconnectChain, ExchangeChain, RestartChain DEF Next, Exchange

LEMMA ChainsAgree ==
    ASSUME NEW p, Solitary(p), ChainInv(p) PROVE OneChain
<1> SUFFICES ASSUME NEW v \in Nodes, NEW w \in Nodes, NEW i \in 1..Lower(Height(v), Height(w))
             PROVE  Body(chain[v][i]) = Body(chain[w][i])
  BY DEF OneChain
<1>1. Begins(chain[v], chain[p]) /\ Begins(chain[w], chain[p])
  BY DEF ChainInv, Chains
<1>2. Len(chain[v]) \in Nat /\ Len(chain[w]) \in Nat
  BY <1>1, SeqFacts DEF Begins
<1>3. i \in 1..Len(chain[v]) /\ i \in 1..Len(chain[w])
  BY <1>2 DEF Lower, Height
<1> QED
  BY <1>1, <1>3 DEF Begins

(* With one producer alone in its configuration and any number of nodes    *)
(* that configure more than themselves, all nodes hold prefixes of one     *)
(* chain but for the results of the execution, however proposals, imports, *)
(* elections, jails, staking transactions, restarts inside and outside a   *)
(* commit, failing commits and imports, lost messages and lost connections *)
(* interleave: a follower never gathers a quorum, so do_commit writes on   *)
(* one node only, and every other head moves by the importer, which takes  *)
(* a block only where the producer has it.  That the results agree too     *)
(* (SameBlocks) does not follow and does not hold.                         *)
THEOREM DriverOneChain == ASSUME NEW p, Solitary(p) PROVE Spec => []OneChain
<1>1. Init => ChainInv(p)
  BY InitChain
<1>2. ChainInv(p) /\ [Next]_vars => ChainInv(p)'
  BY NextChain
<1>3. ChainInv(p) => OneChain
  BY ChainsAgree
<1> QED
  BY <1>1, <1>2, <1>3, PTL DEF Spec
-----------------------------------------------------------------------------
(* The seeds derived from a chain *)

Successor(seed, blocks, n) == IF EndsEpoch(n) THEN Append(seed, blocks[n]) ELSE seed

IsSeeds(f, g, blocks, h) ==
    f = [n \in 0..h |-> IF n = 0 THEN g
                        ELSE IF EndsEpoch(n) THEN Append(f[n - 1], blocks[n]) ELSE f[n - 1]]

Seeds(g, blocks, h) == CHOOSE f : IsSeeds(f, g, blocks, h)

LEMMA SeedAfterUnfold ==
    ASSUME NEW g, NEW blocks, NEW h PROVE SeedAfter(g, blocks, h) = Seeds(g, blocks, h)[h]
  BY Zenon DEF SeedAfter, Seeds, IsSeeds

LEMMA SeedsValue ==
    ASSUME NEW f, NEW g, NEW blocks, NEW h \in Nat, IsSeeds(f, g, blocks, h)
    PROVE  f[0] = g /\ \A n \in 1..h : f[n] = Successor(f[n - 1], blocks, n)
<1> DEFINE F == [n \in 0..h |-> IF n = 0 THEN g
                        ELSE IF EndsEpoch(n) THEN Append(f[n - 1], blocks[n]) ELSE f[n - 1]]
<1>1. f = F
  BY DEF IsSeeds
<1>2. 0 \in 0..h
  OBVIOUS
<1>3. F[0] = g
  BY <1>2
<1>4. ASSUME NEW n \in 1..h PROVE F[n] = Successor(f[n - 1], blocks, n)
  <2>1. n \in 0..h /\ n # 0
    OBVIOUS
  <2> QED
    BY <2>1 DEF Successor
<1> HIDE DEF F
<1> QED
  BY <1>1, <1>3, <1>4

LEMMA SeedsExist ==
    ASSUME NEW g, IsList(g), NEW blocks, NEW h \in Nat
    PROVE  IsSeeds(Seeds(g, blocks, h), g, blocks, h)
<1> DEFINE X == ToSet(g) \cup {blocks[i] : i \in 1..h}
           V == Seq(X)
           step == [x \in (1..h) \X V |-> Successor(x[2], blocks, x[1])]
<1>1. g \in V
  <2>1. ToSet(g) \subseteq X
    OBVIOUS
  <2> HIDE DEF X
  <2> QED
    BY <2>1 DEF IsList
<1>2. ASSUME NEW n \in 1..h, NEW s \in V PROVE Successor(s, blocks, n) \in V
  <2>1. blocks[n] \in X
    OBVIOUS
  <2> HIDE DEF X
  <2>2. Append(s, blocks[n]) \in V
    BY <2>1
  <2> QED
    BY <2>2 DEF Successor
<1> HIDE DEF V
<1>3. step \in [(1..h) \X V -> V]
  BY <1>2
<1>4. \A n \in 1..h : \A s \in V : step[<<n, s>>] = Successor(s, blocks, n)
  OBVIOUS
<1> HIDE DEF step
<1>5. PICK f : IsRecursion(f, h, V, g, step)
  BY <1>1, <1>3, RecursionExists
<1>6. f \in [0..h -> V] /\ f[0] = g /\ \A n \in 1..h : f[n] = step[<<n, f[n - 1]>>]
  BY <1>5 DEF IsRecursion
<1>7. ASSUME NEW n \in 0..h, n # 0
      PROVE  f[n] = IF EndsEpoch(n) THEN Append(f[n - 1], blocks[n]) ELSE f[n - 1]
  <2>1. n \in 1..h /\ n - 1 \in 0..h
    BY <1>7
  <2>2. f[n - 1] \in V
    BY <1>6, <2>1
  <2>3. f[n] = Successor(f[n - 1], blocks, n)
    BY <1>4, <1>6, <2>1, <2>2
  <2> QED
    BY <2>3 DEF Successor
<1>8. IsSeeds(f, g, blocks, h)
  BY <1>6, <1>7 DEF IsSeeds
<1> QED
  BY <1>8, Zenon DEF Seeds

LEMMA SeedsAgree ==
    ASSUME NEW g, NEW b, NEW c, NEW h \in Nat, NEW k \in Nat, NEW m \in Nat, m <= h, m <= k,
           \A i \in 1..m : b[i] = c[i],
           NEW e, IsSeeds(e, g, b, h), NEW f, IsSeeds(f, g, c, k)
    PROVE  e[m] = f[m]
<1>1. e[0] = g /\ \A n \in 1..h : e[n] = Successor(e[n - 1], b, n)
  BY SeedsValue
<1>2. f[0] = g /\ \A n \in 1..k : f[n] = Successor(f[n - 1], c, n)
  BY SeedsValue
<1> DEFINE Good == {n \in 0..m : e[n] = f[n]}
<1>3. 0 \in Good
  <2>1. 0 \in 0..m
    OBVIOUS
  <2> QED
    BY <1>1, <1>2, <2>1
<1>4. ASSUME NEW n \in 1..m, n - 1 \in Good PROVE n \in Good
  <2>1. n \in 1..h /\ n \in 1..k /\ n \in 0..m
    OBVIOUS
  <2>2. e[n - 1] = f[n - 1] /\ b[n] = c[n]
    BY <1>4
  <2>3. Successor(e[n - 1], b, n) = Successor(f[n - 1], c, n)
    BY <2>2 DEF Successor
  <2>4. e[n] = f[n]
    BY <1>1, <1>2, <2>1, <2>3
  <2> QED
    BY <2>1, <2>4
<1> HIDE DEF Good
<1>5. \A n \in 0..m : n \in Good
  BY <1>3, <1>4, IntervalInduction
<1>6. m \in 0..m
  OBVIOUS
<1> QED
  BY <1>5, <1>6 DEF Good

(* The derived seed depends on the blocks below a height only. *)
LEMMA SeedAfterSame ==
    ASSUME NEW g, IsList(g), NEW b, NEW c, NEW h \in Nat, \A i \in 1..h : b[i] = c[i]
    PROVE  SeedAfter(g, b, h) = SeedAfter(g, c, h)
<1> DEFINE e == Seeds(g, b, h)
           f == Seeds(g, c, h)
<1>1. IsSeeds(e, g, b, h) /\ IsSeeds(f, g, c, h)
  BY SeedsExist
<1> HIDE DEF e, f
<1>2. e[h] = f[h]
  BY <1>1, SeedsAgree
<1> QED
  BY <1>2, SeedAfterUnfold DEF e, f

LEMMA SeedAfterZero ==
    ASSUME NEW g, IsList(g), NEW b PROVE SeedAfter(g, b, 0) = g
<1> DEFINE e == Seeds(g, b, 0)
<1>1. IsSeeds(e, g, b, 0)
  BY SeedsExist
<1> HIDE DEF e
<1>2. e[0] = g
  BY <1>1, SeedsValue
<1> QED
  BY <1>2, SeedAfterUnfold DEF e

LEMMA SeedAfterStep ==
    ASSUME NEW g, IsList(g), NEW b, NEW h \in Nat
    PROVE  SeedAfter(g, b, h + 1) = Successor(SeedAfter(g, b, h), b, h + 1)
<1> DEFINE k == h + 1
           e == Seeds(g, b, h)
           f == Seeds(g, b, k)
<1>1. k \in Nat /\ k - 1 = h /\ k \in 1..k
  OBVIOUS
<1> HIDE DEF k
<1>2. IsSeeds(e, g, b, h) /\ IsSeeds(f, g, b, k)
  BY <1>1, SeedsExist
<1> HIDE DEF e, f
<1>3. e[h] = f[h]
  BY <1>1, <1>2, SeedsAgree
<1>4. f[k] = Successor(f[k - 1], b, k)
  BY <1>1, <1>2, SeedsValue
<1>5. f[k] = Successor(e[h], b, k)
  BY <1>1, <1>3, <1>4
<1>6. SeedAfter(g, b, k) = f[k] /\ SeedAfter(g, b, h) = e[h]
  BY SeedAfterUnfold DEF e, f
<1>7. SeedAfter(g, b, k) = Successor(SeedAfter(g, b, h), b, k)
  BY <1>5, <1>6
<1> QED
  BY <1>7 DEF k

(* As long as p was not restarted its engine's seed is the derived one,    *)
(* and the blocks it produced until then carry theirs.                     *)
SeedFollows(p, g) ==
    /\ count.restarts[p] = 0 => engine[p].seed = SeedAfter(g, chain[p], Len(chain[p]))
    /\ \A i \in 1..Len(chain[p]) :
            (\A j \in 1..i : chain[p][j].timestamp = 0)
                => chain[p][i].epoch_seed = DerivedSeed(g, chain[p], i)

SeedInv(p) == \E g \in GenesisSeeds : SeedFollows(p, g)

LEMMA InitSeed == ASSUME NEW p, Solitary(p), Init PROVE SeedInv(p)
<1>1. PICK g \in GenesisSeeds : engine = [v \in Nodes |-> NewEngine(Configured[v], g)]
  BY DEF Init
<1>2. p \in Nodes /\ IsList(g)
  BY DriverConstants DEF Solitary, IsList
<1>3. chain[p] = <<>> /\ Len(chain[p]) = 0
  BY <1>2, EmptyList DEF Init
<1>4. engine[p] = NewEngine(Configured[p], g)
  BY <1>1, <1>2
<1>5. engine[p].seed = g
  BY <1>4, NewEngineFacts
<1>6. SeedAfter(g, chain[p], 0) = g
  BY <1>2, SeedAfterZero
<1>7. SeedFollows(p, g)
  BY <1>3, <1>5, <1>6 DEF SeedFollows
<1> QED
  BY <1>7 DEF SeedInv

LEMMA DerivedSame ==
    ASSUME NEW g, IsList(g), NEW b, NEW c, NEW i \in Nat \ {0},
           \A j \in 1..(i - 1) : b[j] = c[j]
    PROVE  DerivedSeed(g, b, i) = DerivedSeed(g, c, i)
<1>1. SeedAfter(g, b, i - 1) = SeedAfter(g, c, i - 1)
  <2>1. i - 1 \in Nat
    OBVIOUS
  <2> QED
    BY <2>1, SeedAfterSame
<1> QED
  BY <1>1 DEF DerivedSeed

LEMMA NextSeed ==
    ASSUME NEW p, Solitary(p), ChainInv(p), Moves(p), SeedInv(p) PROVE SeedInv(p)'
<1>1. PICK g \in GenesisSeeds : SeedFollows(p, g)
  BY DEF SeedInv
<1>2. IsList(g)
  BY DriverConstants DEF IsList
<1>3. /\ p \in Nodes /\ DiskInv /\ NodeTypes /\ Produced(p) /\ IsList(chain[p])
  BY InvFacts, NodeFacts
<1>4. SUFFICES SeedFollows(p, g)'
  BY <1>4 DEF SeedInv
<1>5. CASE Quiet(p)
  BY <1>1, <1>5 DEF SeedFollows, Quiet
<1>6. CASE Reboots(p)
  BY <1>1, <1>6 DEF SeedFollows, Reboots
<1>7. CASE Commits(p)
  <2> DEFINE b == candidate[p]
             t == chain[p]
             x == Executed(b, accounts[p], TRUE)
             u == Append(t, x)
             n == Len(t)
             seed == engine[p].seed
  <2>1. /\ b.number = n + 1 /\ ValidateEpochSeed(b.number, b.epoch_seed, seed)
        /\ chain' = [chain EXCEPT ![p] = u] /\ b \in engine[p].store /\ count' = count
        /\ engine'[p].seed = IF EndsEpoch(x.number) THEN Append(seed, x) ELSE seed
    BY <1>7 DEF Commits, Appends, Height
  <2>2. /\ IsMap(b, BlockFields) /\ b.timestamp = count.restarts[p]
        /\ b.epoch_seed # SomeSeed(ZeroSeed)
    BY <1>3, <2>1 DEF Produced
  <2>a. x.number = b.number /\ x.timestamp = b.timestamp /\ x.epoch_seed = b.epoch_seed
    <3>1. PICK root : x = [b EXCEPT !.state_root = root]
      BY Zenon DEF Executed
    <3> HIDE DEF x
    <3> QED
      BY <2>2, <3>1, ExecutedBody
  <2> HIDE DEF x
  <2>3. x.number = n + 1 /\ x.timestamp = count.restarts[p] /\ x.epoch_seed = b.epoch_seed
    BY <2>1, <2>2, <2>a
  <2>4. Len(u) = n + 1 /\ n \in Nat /\ u[n + 1] = x /\ \A i \in 1..n : u[i] = t[i]
    BY <1>3, AppendFacts, SeqFacts
  <2>5. chain'[p] = u
    BY <1>3, <2>1 DEF NodeTypes, IsMap
  <2> HIDE DEF u
  <2>6. /\ count.restarts[p] = 0 => seed = SeedAfter(g, t, n)
        /\ \A i \in 1..n : (\A j \in 1..i : t[j].timestamp = 0) => t[i].epoch_seed = DerivedSeed(g, t, i)
    BY <1>1 DEF SeedFollows
  <2>7. SeedAfter(g, u, n) = SeedAfter(g, t, n)
    BY <1>2, <2>4, SeedAfterSame
  <2>8. SeedAfter(g, u, n + 1) = Successor(SeedAfter(g, u, n), u, n + 1)
    BY <1>2, <2>4, SeedAfterStep
  <2> HIDE DEF n, t, seed, b
  <2>9. count'.restarts[p] = 0 => engine'[p].seed = SeedAfter(g, u, Len(u))
    BY <2>1, <2>3, <2>4, <2>6, <2>7, <2>8 DEF Successor
  <2>10. ASSUME NEW i \in 1..Len(u), \A j \in 1..i : u[j].timestamp = 0
         PROVE  u[i].epoch_seed = DerivedSeed(g, u, i)
    <3>1. CASE i = n + 1
      <4>1. i \in 1..i
        OBVIOUS
      <4>2. u[i] = x /\ u[i].timestamp = 0
        BY <2>4, <2>10, <3>1, <4>1
      <4>3. seed = SeedAfter(g, u, n)
        BY <2>3, <2>6, <2>7, <4>2
      <4>4. b.epoch_seed = IF StartsEpoch(i) /\ seed # ZeroSeed THEN SomeSeed(seed) ELSE NoSeed
        BY <2>1, <2>2, <3>1 DEF ValidateEpochSeed
      <4>5. i - 1 = n
        BY <2>4, <3>1
      <4>6. DerivedSeed(g, u, i) = IF StartsEpoch(i) /\ seed # ZeroSeed THEN SomeSeed(seed) ELSE NoSeed
        BY <4>3, <4>5 DEF DerivedSeed
      <4> QED
        BY <2>3, <4>2, <4>4, <4>6
    <3>2. CASE i # n + 1
      <4>1. i \in 1..n /\ i \in Nat \ {0}
        BY <2>4, <3>2
      <4>2. \A j \in 1..i : j \in 1..n /\ u[j] = t[j]
        BY <2>4, <4>1
      <4>3. t[i].epoch_seed = DerivedSeed(g, t, i)
        <5>1. \A j \in 1..i : t[j].timestamp = 0
          BY <2>10, <4>2
        <5> QED
          BY <2>6, <4>1, <5>1
      <4>4. DerivedSeed(g, u, i) = DerivedSeed(g, t, i)
        <5>1. \A j \in 1..(i - 1) : u[j] = t[j]
          BY <4>1, <4>2
        <5> QED
          BY <1>2, <4>1, <5>1, DerivedSame
      <4> QED
        BY <2>4, <4>1, <4>3, <4>4
    <3> QED
      BY <3>1, <3>2
  <2> QED
    BY <2>5, <2>9, <2>10 DEF SeedFollows
<1> QED
  BY <1>5, <1>6, <1>7 DEF Moves

LEMMA SeedsFollow ==
    ASSUME NEW p, Solitary(p), ChainInv(p), SeedInv(p) PROVE SeedsVerify
<1>1. PICK g \in GenesisSeeds : SeedFollows(p, g)
  BY DEF SeedInv
<1>2. IsList(g)
  BY DriverConstants DEF IsList
<1>3. SUFFICES ASSUME NEW v \in Nodes, \A i \in 1..Height(v) : AsProduced(v, i),
                      NEW i \in 1..Height(v)
               PROVE  chain[v][i].epoch_seed = DerivedSeed(g, chain[v], i)
  BY DEF SeedsVerify
<1>4. /\ IsList(chain[v]) /\ Len(chain[v]) <= Len(chain[p])
      /\ \A j \in 1..Len(chain[v]) : chain[v][j] = chain[p][j] /\ chain[v][j].timestamp = 0
  <2>1. Begins(chain[v], chain[p]) /\ Begins(chain[p], chain[p])
        /\ \A j \in 1..Len(chain[p]) : chain[p][j].coinbase = p
    BY DEF ChainInv, Chains, Solitary
  <2>2. Len(chain[v]) \in Nat /\ Len(chain[p]) \in Nat /\ Len(chain[v]) <= Len(chain[p])
    BY <2>1, SeqFacts DEF Begins
  <2>3. ASSUME NEW j \in 1..Len(chain[v])
        PROVE  chain[v][j] = chain[p][j] /\ chain[v][j].timestamp = 0
    <3>1. j \in 1..Len(chain[p])
      BY <2>2
    <3>2. /\ IsMap(chain[v][j], BlockFields) /\ IsMap(chain[p][j], BlockFields)
          /\ Body(chain[v][j]) = Body(chain[p][j])
      BY <2>1, <3>1 DEF Begins, IsBlock
    <3>3. chain[v][j].coinbase = p
      BY <2>1, <3>1, <3>2, BodyFacts
    <3>4. AsProduced(v, j)
      BY <1>3 DEF Height
    <3> QED
      BY <3>3, <3>4 DEF AsProduced
  <2> QED
    BY <2>1, <2>2, <2>3 DEF Begins
<1>5. Len(chain[v]) \in Nat /\ Len(chain[p]) \in Nat
  BY <1>4, SeqFacts, InvFacts, NodeFacts
<1>6. i \in 1..Len(chain[p]) /\ i \in Nat \ {0} /\ \A j \in 1..i : j \in 1..Len(chain[v])
  BY <1>4, <1>5 DEF Height
<1>7. \A j \in 1..i : chain[p][j].timestamp = 0
  BY <1>3, <1>4, <1>6 DEF Height
<1>8. chain[p][i].epoch_seed = DerivedSeed(g, chain[p], i)
  BY <1>1, <1>6, <1>7 DEF SeedFollows
<1>9. DerivedSeed(g, chain[v], i) = DerivedSeed(g, chain[p], i)
  <2>1. \A j \in 1..(i - 1) : chain[v][j] = chain[p][j]
    BY <1>4, <1>6
  <2> QED
    BY <1>2, <1>6, <2>1, DerivedSame
<1>10. chain[v][i] = chain[p][i]
  BY <1>4, <1>6
<1> QED
  BY <1>8, <1>9, <1>10

(* In the same networks: on every node that holds the producer's blocks,   *)
(* results included, while the producer was not restarted, the epoch_seed  *)
(* of every header is the one a light client derives from the genesis seed *)
(* and the headers below it, for every epoch length: the seed that         *)
(* rotate_epoch_seed leaves in the engine, the one put into the next       *)
(* boundary header and the one do_commit validates are the same function   *)
(* of the chain.                                                           *)
THEOREM DriverSeedsVerify == ASSUME NEW p, Solitary(p) PROVE Spec => []SeedsVerify
<1> DEFINE Inv == ChainInv(p) /\ SeedInv(p)
<1>1. Init => Inv
  BY InitChain, InitSeed
<1>2. Inv /\ [Next]_vars => Inv'
  BY NextChain, NextSeed
<1>3. Inv => SeedsVerify
  BY SeedsFollow
<1> QED
  BY <1>1, <1>2, <1>3, PTL DEF Spec
=============================================================================
