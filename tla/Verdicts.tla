------------------------------- MODULE Verdicts -------------------------------
(***************************************************************************)
(* The commands of pubkey_iterator that share its SQLite tables: `run'     *)
(* seeds and reads the weights, writes them into the row of its run and    *)
(* scores every pubkey with them; `tune' samples the pubkeys left          *)
(* unflagged, fits new weights to the labels and adopts them after a       *)
(* backtest; `export' turns the flags of a run into the review list.  The  *)
(* commands are processes of their own: they interleave statement by       *)
(* statement.  The walk over the authors and the pipeline's threads are    *)
(* the subject of module Hunter.                                           *)
(*                                                                         *)
(* The combiner's sigmoid is increasing: a score stands here for its z,    *)
(* a threshold for the z it is reached at.  A pubkey is a number that also *)
(* stands for its hash.                                                    *)
(***************************************************************************)
EXTENDS Integers, Sequences, FiniteSets, FiniteSetsExt, SequencesExt

CONSTANTS
    Keys,        \* pubkeys
    Walks,       \* what a walk over the authors may find, sets of pubkeys
    Listed,      \* pubkeys on the whitelist
    Content,     \* of each pubkey: the sub-score of its events
    Layers,      \* the layers, with "L0" for the absence from the whitelist
    SeedOrder,   \* the rows of the table weight in the order they are inserted
    Configs,     \* configurations a command may be started with
    Fits,        \* the models that the logistic regression may find
    LabelSets,   \* labels given before
    BatchSize,   \* DEFAULT_AUTHORS_PER_CALL
    None,        \* NULL, no row
    MaxStarts,   \* bound: runs of `run'
    MaxKills,    \* bound: kills
    MaxTunes,    \* bound: runs of `tune'
    MaxExports,  \* bound: runs of `export'
    MaxLabels    \* bound: labels given later

ASSUME VerdictsConstants ==
    /\ Keys \subseteq Nat /\ IsFiniteSet(Keys) /\ Listed \subseteq Keys
    /\ \A found \in Walks : found \subseteq Keys
    /\ None \notin Int /\ None \notin BOOLEAN
    /\ Content \in [Keys -> Int]
    /\ IsFiniteSet(Layers) /\ "L0" \in Layers /\ Layers \cap {"_bias", "_threshold"} = {}
    /\ SeedOrder \in Seq(Layers \cup {"_bias", "_threshold"})
    /\ Range(SeedOrder) = Layers \cup {"_bias", "_threshold"}
    /\ \A c \in Configs : /\ c.tau \in Int /\ c.bias \in Int /\ c.w \in [Layers -> Int]
                          /\ c.on \subseteq Layers
    /\ Fits \subseteq [w : [Layers -> Int], bias : Int]
    /\ MaxStarts \in Nat

VARIABLES
    \* the database
    weight, pubkeys, runs, score, signal, labels, queue, suspects,
    \* `run': its program counter, configuration, --resume, rows seeded, the
    \* weights it read, its run, the pubkeys to score, the writer's channel
    pc, cfg, resume, seeded, table, run, todo, wq,
    \* `tune' and `export', with what they have read
    tune, export,
    \* history: the last adoption, the runs left half written by a kill, the
    \* layers a run was last scored with, the runs whose list or queue was made
    \* by a command that chose the run itself, outside of `run's last writes
    adopted, torn, scoredWith, chosen,
    \* bounds
    starts, kills, tunes, exports, labelled

database == <<weight, pubkeys, runs, score, signal, labels, queue, suspects>>
batch    == <<pc, cfg, resume, seeded, table, run, todo, wq>>
history  == <<adopted, torn, scoredWith, chosen>>
bounds   == <<starts, kills, tunes, exports, labelled>>
vars == <<database, batch, tune, export, history, bounds>>

-----------------------------------------------------------------------------
(* The combiner                                                            *)

RunIds == 1 .. MaxStarts
Rows   == Layers \cup {"_bias", "_threshold"}
Off    == [at |-> "off"]

Total(f) == FoldFunction(+, 0, f)

\* combine: the sum over the layers, in z.
combine(w, bias, x) == bias + Total([l \in DOMAIN x |-> w[l] * x[l]])

\* weight_of and its likes: the stored row, or else the configured value.
Or(stored, fallback) == IF stored = None THEN fallback ELSE stored

Tau(c, t)  == Or(t["_threshold"], c.tau)
Bias(c, t) == Or(t["_bias"], c.bias)

\* ScoringStage::from_config: the enabled layers only.
Stage(c, t) == [w |-> [l \in c.on |-> Or(t[l], c.w[l])], bias |-> Bias(c, t), tau |-> Tau(c, t)]

\* The layers' sub-scores: L0 looks at the membership, the others at the events.
SubScore(l, p, white) == IF l = "L0" THEN (IF white THEN 0 ELSE 1) ELSE Content[p]

\* ScoringStage::score: the row of the table score and those of signal.
Verdict(stage, p, white) ==
    LET x == [l \in DOMAIN stage.w |-> SubScore(l, p, white)]
        z == combine(stage.w, stage.bias, x)
    IN  [key |-> p, x |-> x,
         row |-> [z |-> z, white |-> white, suspected |-> z > stage.tau]]

\* Faulty variant: a pubkey the answer lacks is taken to be absent.
ResolveAbsent(B, answer) == [p \in B |-> p \in answer /\ p \in Listed]

\* is_whitelisted_bulk: `answer' are the pubkeys the response has a value for,
\* none of them when the request fails.  The others count as whitelisted.
Resolve(B, answer) == [p \in B |-> p \in answer => p \in Listed]

\* Faulty variant: the latest run, done or not.
LatestRun == {r \in DOMAIN runs : r = Len(runs)}

\* latest_done_run; empty if there is no such run.
LatestDone ==
    {r \in DOMAIN runs : /\ runs[r].status = "done"
                         /\ \A q \in DOMAIN runs : runs[q].status = "done" => q <= r}

\* latest_unfinished_run.
LatestUndone ==
    {r \in DOMAIN runs : /\ runs[r].status # "done"
                         /\ \A q \in DOMAIN runs : runs[q].status # "done" => q <= r}

\* No transaction of `run' for r is still to come after its done-mark.
Calm(r) == ~(pc = "closing" /\ run = r)

-----------------------------------------------------------------------------
(* `run'                                                                   *)

Init ==
    /\ weight = [k \in Rows |-> None] /\ pubkeys = {} /\ runs = <<>>
    /\ score = [r \in RunIds |-> [p \in Keys |-> None]]
    /\ signal = [r \in RunIds |-> [p \in Keys |-> [l \in Layers |-> None]]]
    /\ labels \in LabelSets /\ queue = {} /\ suspects = {}
    /\ pc = "down" /\ cfg = None /\ resume = FALSE /\ seeded = 0
    /\ table = None /\ run = None /\ todo = {} /\ wq = <<>>
    /\ tune = Off /\ export = Off
    /\ adopted = None /\ torn = {} /\ scoredWith = [r \in RunIds |-> {}] /\ chosen = {}
    /\ starts = 0 /\ kills = 0 /\ tunes = 0 /\ exports = 0 /\ labelled = 0

\* The process ends; what it had in memory is gone.
End ==
    /\ pc' = "down" /\ cfg' = None /\ resume' = FALSE /\ seeded' = 0
    /\ table' = None /\ run' = None /\ todo' = {} /\ wq' = <<>>

Start ==
    /\ pc = "down" /\ starts < MaxStarts /\ starts' = starts + 1
    /\ pc' = "seed" /\ cfg' \in Configs /\ resume' \in BOOLEAN /\ seeded' = 0
    /\ UNCHANGED <<database, table, run, todo, wq, tune, export, history,
                   kills, tunes, exports, labelled>>

\* The value of a row in the configuration.
Configured(k) == CASE k = "_bias" -> cfg.bias [] k = "_threshold" -> cfg.tau [] OTHER -> cfg.w[k]

\* seed_weights_if_empty: nothing if any row is there, else one INSERT after the
\* other, each committed by itself.
Seed ==
    /\ pc = "seed"
    /\ IF seeded = 0 /\ \E k \in Rows : weight[k] # None
       THEN pc' = "read" /\ UNCHANGED <<weight, seeded>>
       ELSE LET k == SeedOrder[seeded + 1]
            IN  /\ weight' = [weight EXCEPT ![k] = Configured(k)]
                /\ seeded' = seeded + 1
                /\ pc' = IF seeded' = Len(SeedOrder) THEN "read" ELSE "seed"
    /\ UNCHANGED <<pubkeys, runs, score, signal, labels, queue, suspects, cfg, resume, table,
                   run, todo, wq, tune, export, history, bounds>>

\* read_weights.
ReadWeights ==
    /\ pc = "read" /\ pc' = "begin" /\ table' = weight
    /\ UNCHANGED <<database, cfg, resume, seeded, run, todo, wq, tune, export, history, bounds>>

\* The parameters of the run, as its row records them.
Snapshot == [tau |-> Tau(cfg, table), bias |-> Bias(cfg, table),
             w |-> [l \in Layers |-> table[l]]]

\* begin_run.
BeginRun ==
    /\ run' = Len(runs) + 1
    /\ runs' = Append(runs, [status |-> "running", snap |-> Snapshot])

\* Faulty variant: a run that goes on keeps the parameters it began with.
ResumeAsBegun(r) == run' = r /\ runs' = runs

\* The run goes on, with the parameters of now (set_run_config_json).
Resume(r) == run' = r /\ runs' = [runs EXCEPT ![r].snap = Snapshot]

\* enumerate::run up to the walk: --resume goes on with the latest unfinished
\* run, if there is one.
Begin ==
    /\ pc = "begin" /\ pc' = "walk"
    /\ IF resume /\ LatestUndone # {} THEN \E r \in LatestUndone : Resume(r) ELSE BeginRun
    /\ UNCHANGED <<weight, pubkeys, score, signal, labels, queue, suspects, cfg, resume, seeded,
                   table, todo, wq, tune, export, history, bounds>>

\* The walk finds pubkeys and run_batch reads all there are.
Walk ==
    /\ pc = "walk" /\ pc' = "score"
    /\ \E found \in Walks : pubkeys' = pubkeys \cup found
    /\ todo' = pubkeys'
    /\ scoredWith' = [scoredWith EXCEPT ![run] = cfg.on]
    /\ UNCHANGED <<weight, runs, score, signal, labels, queue, suspects, cfg, resume, seeded, table,
                   run, wq, tune, export, adopted, torn, chosen, bounds>>

\* A request of the walk fails for good: mark_run_aborted.
Abort ==
    /\ pc = "walk" /\ End
    /\ runs' = [runs EXCEPT ![run].status = "aborted"]
    /\ UNCHANGED <<weight, pubkeys, score, signal, labels, queue, suspects, tune, export, history, bounds>>

\* The next batch: the smallest pubkeys.
NextBatch == {p \in todo : Cardinality({q \in todo : q < p}) < BatchSize}

\* The ways to line up a set in ascending order, of which there is one.
Ascending(S) ==
    {s \in [1 .. Cardinality(S) -> S] :
        Range(s) = S /\ \A i, j \in DOMAIN s : i < j => s[i] < s[j]}

\* production_fetch_with_whitelist and the consumer: every pubkey asked for is
\* scored, with or without events, and sent to the writer.  A failed fetch ends
\* the run.
ScoreBatch ==
    /\ pc = "score" /\ todo # {}
    /\ \/ /\ \E answer \in SUBSET NextBatch, order \in Ascending(NextBatch) :
                LET white == Resolve(NextBatch, answer)
                    stage == Stage(cfg, table)
                IN  wq' = wq \o [i \in DOMAIN order |-> Verdict(stage, order[i], white[order[i]])]
          /\ todo' = todo \ NextBatch /\ pc' = pc
       \/ pc' = "closing" /\ UNCHANGED <<wq, todo>>
    /\ UNCHANGED <<database, cfg, resume, seeded, table, run, tune, export, history, bounds>>

\* Where the last of the first n messages about a pubkey is.
LastAbout(p, n) ==
    {i \in 1 .. n : wq[i].key = p /\ \A j \in i + 1 .. n : wq[j].key # p}

\* The signals of a pubkey after it was scored with new ones.
Over(new, old) == [l \in DOMAIN new \cup DOMAIN old |-> IF l \in DOMAIN new THEN new[l] ELSE old[l]]

\* writer_loop: one transaction over the first messages; the later row of a
\* pubkey wins, the signals of layers it was not scored with stay.
Commit ==
    /\ \E n \in 1 .. Len(wq) :
          /\ score' = [score EXCEPT ![run] = [p \in Keys |->
                 IF LastAbout(p, n) = {} THEN @[p]
                 ELSE wq[CHOOSE i \in LastAbout(p, n) : TRUE].row]]
          /\ signal' = [signal EXCEPT ![run] = [p \in Keys |->
                 IF LastAbout(p, n) = {} THEN @[p]
                 ELSE Over(wq[CHOOSE i \in LastAbout(p, n) : TRUE].x, @[p])]]
          /\ wq' = SubSeq(wq, n + 1, Len(wq))
    /\ UNCHANGED <<weight, pubkeys, runs, labels, queue, suspects, pc, cfg, resume, seeded, table,
                   run, todo, tune, export, history, bounds>>

\* mark_run_done, before the writer is waited for.
MarkDone ==
    /\ pc = "score" /\ todo = {}
    /\ runs' = [runs EXCEPT ![run].status = "done"]
    /\ pc' = "closing"
    /\ UNCHANGED <<weight, pubkeys, score, signal, labels, queue, suspects, cfg, resume, seeded,
                   table, run, todo, wq, tune, export, history, bounds>>

\* Store::close, or the drop of the store: the writer has committed everything.
Close ==
    /\ pc = "closing" /\ wq = <<>> /\ End
    /\ UNCHANGED <<database, tune, export, history, bounds>>

Kill ==
    /\ kills < MaxKills /\ kills' = kills + 1
    /\ pc # "down" /\ End
    /\ torn' = IF pc = "closing" /\ wq # <<>> /\ runs[run].status = "done" THEN torn \cup {run} ELSE torn
    /\ UNCHANGED <<database, tune, export, adopted, scoredWith, chosen, starts, tunes, exports, labelled>>

-----------------------------------------------------------------------------
(* `tune'                                                                  *)

\* The operator inserts a label (table backpropagation).
Label ==
    /\ labelled < MaxLabels /\ labelled' = labelled + 1
    /\ \E p \in pubkeys, isSpam \in BOOLEAN :
          labels[p] = None /\ labels' = [labels EXCEPT ![p] = isSpam]
    /\ UNCHANGED <<weight, pubkeys, runs, score, signal, queue, suspects, batch, tune, export,
                   history, starts, kills, tunes, exports>>

\* The first part of populate_review_queue: the unflagged pubkeys of the run that
\* come first by their hash.
Sample(r, size) ==
    LET unflagged == {p \in Keys : score[r][p] # None /\ ~score[r][p].suspected}
    IN  {p \in unflagged : Cardinality({q \in unflagged : q < p}) < size}

\* run_tune [--run-id r], by default for the latest done run.
TuneStart ==
    /\ tune = Off /\ tunes < MaxTunes /\ tunes' = tunes + 1
    /\ \E c \in Configs, r \in DOMAIN runs, default \in BOOLEAN :
          /\ default => r \in LatestDone
          /\ tune' = [at |-> "queue", cfg |-> c, run |-> r, calm |-> default /\ Calm(r),
                      sample |-> Sample(r, c.sample)]
    /\ UNCHANGED <<database, batch, export, history, starts, kills, exports, labelled>>

\* Its second part: the rows of the run are replaced in one transaction.
TuneQueue ==
    /\ tune.at = "queue"
    /\ queue' = {q \in queue : q.run # tune.run} \cup {[run |-> tune.run, key |-> p] : p \in tune.sample}
    /\ chosen' = IF tune.calm THEN chosen \cup {<<"queue", tune.run>>}
                              ELSE chosen \ {<<"queue", tune.run>>}
    /\ tune' = [at |-> "labels", cfg |-> tune.cfg, run |-> tune.run, calm |-> tune.calm]
    /\ UNCHANGED <<weight, pubkeys, runs, score, signal, labels, suspects, batch, export, adopted,
                   torn, scoredWith, bounds>>

\* labeled_features: the labels, without them or with one class only nothing is
\* fitted.
TuneLabels ==
    /\ tune.at = "labels"
    /\ tune' = IF {labels[p] : p \in Keys} \ {None} = BOOLEAN
               THEN [at |-> "fit", cfg |-> tune.cfg, run |-> tune.run, calm |-> tune.calm, labels |-> labels]
               ELSE Off
    /\ UNCHANGED <<database, batch, export, history, bounds>>

\* labeled_features: the signals of the run, 0 where there is none.
Features(r, p) == [l \in Layers |-> Or(signal[r][p][l], 0)]

\* Does a set of parameters flag the pubkey on the signals of the run?
Flags(w, bias, tau, r, p) == combine(w, bias, Features(r, p)) > tau

\* Faulty variant: only the spam that would go unflagged counts.
BacktestSpamOnly(fit, tau, r, known) ==
    \A p \in Keys : known[p] = TRUE => Flags(fit.w, fit.bias, tau, r, p)

\* backtest: no labelled pubkey may come out against its label.
Backtest(fit, tau, r, known) ==
    \A p \in Keys : known[p] # None => (Flags(fit.w, fit.bias, tau, r, p) <=> known[p])

Negated(f) == [w |-> [l \in Layers |-> -f.w[l]], bias |-> -f.bias]

\* The regression's answer predicts the class that it happens to count first.
Raw(f, posIsSpam) == IF posIsSpam THEN f ELSE Negated(f)

\* fit: turned towards spam.
Fitted == {IF posIsSpam THEN Raw(f, posIsSpam) ELSE Negated(Raw(f, posIsSpam)) :
              f \in Fits, posIsSpam \in BOOLEAN}

\* fit, then the backtest with the live threshold: blocked, or staged.
TuneFit ==
    /\ tune.at = "fit"
    /\ \E fit \in Fitted :
          tune' = IF Backtest(fit, Tau(tune.cfg, weight), tune.run, tune.labels)
                  THEN [at |-> "adopt", fit |-> fit, run |-> tune.run, calm |-> tune.calm,
                        cfg |-> tune.cfg, labels |-> tune.labels]
                  ELSE Off
    /\ UNCHANGED <<database, batch, export, history, bounds>>

\* write_weights: an UPDATE of every row but the threshold in one transaction; a
\* row that is not there stays away.
TuneAdopt ==
    /\ tune.at = "adopt" /\ tune' = Off
    /\ weight' = [k \in Rows |-> CASE weight[k] = None \/ k = "_threshold" -> weight[k]
                                   [] weight[k] # None /\ k = "_bias"       -> tune.fit.bias
                                   [] OTHER                                 -> tune.fit.w[k]]
    /\ adopted' = [run |-> tune.run, labels |-> tune.labels, calm |-> tune.calm]
    /\ UNCHANGED <<pubkeys, runs, score, signal, labels, queue, suspects, batch, export, torn,
                   scoredWith, chosen, bounds>>

-----------------------------------------------------------------------------
(* `export'                                                                *)

\* export [--run-id r]: latest_done_run, read_tau_from_run_snapshot.
ExportStart ==
    /\ export = Off /\ exports < MaxExports /\ exports' = exports + 1
    /\ \E r \in DOMAIN runs, default \in BOOLEAN :
          /\ default => r \in LatestDone
          /\ export' = [at |-> "insert", run |-> r, default |-> default, tau |-> runs[r].snap.tau]
    /\ UNCHANGED <<database, batch, tune, history, starts, kills, tunes, labelled>>

\* ORDER BY score DESC, pubkey ASC.
Above(r, p, q) == \/ score[r][p].z > score[r][q].z
                  \/ score[r][p].z = score[r][q].z /\ p < q

\* materialize_suspected: DELETE and INSERT ... SELECT in one transaction.
ExportInsert ==
    /\ export.at = "insert" /\ export' = Off
    /\ LET r == export.run
           flagged == {p \in Keys : score[r][p] # None /\ score[r][p].suspected}
           Rank(p) == 1 + Cardinality({q \in flagged : Above(r, q, p)})
       IN  /\ suspects' = {s \in suspects : s.run # r} \cup
                  {[run |-> r, key |-> p, z |-> score[r][p].z, tau |-> export.tau, rank |-> Rank(p)] : p \in flagged}
           /\ chosen' = IF export.default /\ Calm(r) THEN chosen \cup {<<"list", r>>}
                                                     ELSE chosen \ {<<"list", r>>}
    /\ UNCHANGED <<weight, pubkeys, runs, score, signal, labels, queue, batch, tune, adopted, torn,
                   scoredWith, bounds>>

-----------------------------------------------------------------------------
Next ==
    \/ Start \/ Seed \/ ReadWeights \/ Begin \/ Walk \/ Abort \/ ScoreBatch \/ Commit
    \/ MarkDone \/ Close \/ Kill
    \/ Label \/ TuneStart \/ TuneQueue \/ TuneLabels \/ TuneFit \/ TuneAdopt
    \/ ExportStart \/ ExportInsert

Spec == Init /\ [][Next]_vars

-----------------------------------------------------------------------------
(* Properties                                                              *)

\* A run that is done and whose writer has nothing left to write; a kill in
\* between leaves it torn.
Settled(r) == /\ runs[r].status = "done" /\ r \notin torn
              /\ run = r => wq = <<>>

\* The row of a settled run reproduces its verdicts: with the recorded bias,
\* threshold and weights the recorded signals give every recorded score and flag,
\* whatever kills, resumed runs and adoptions came between the first score and the
\* last (run_batch, set_run_config_json, writer_loop).  A row of the table weight
\* that was never seeded is not recorded.
DoneIsReproducible ==
    \A r \in DOMAIN runs, p \in Keys :
        LET snap == runs[r].snap
            x    == [l \in scoredWith[r] |-> signal[r][p][l]]
        IN  (Settled(r) /\ score[r][p] # None /\ \A l \in scoredWith[r] : snap.w[l] # None) =>
                /\ score[r][p].z = combine(snap.w, snap.bias, x)
                /\ score[r][p].suspected = (score[r][p].z > snap.tau)

\* The review list that `export' made of the run it chose itself is and stays the
\* list of the flags of that run, best first, each beyond the threshold it is
\* stamped with (unless a kill tore the run: rows of an earlier attempt, under another
\* threshold, may stand in it); and no suspect of it is among the negatives that `tune' put into
\* the review queue of the run (latest_done_run, materialize_suspected,
\* populate_review_queue).
ReviewIsFinal ==
    \A r \in DOMAIN runs : <<"list", r>> \in chosen =>
        LET list == {s \in suspects : s.run = r}
        IN  /\ {s.key : s \in list} = {p \in Keys : score[r][p] # None /\ score[r][p].suspected}
            /\ {s.rank : s \in list} = 1 .. Cardinality(list)
            /\ \A s, t \in list : s.rank < t.rank => s.z >= t.z
            /\ r \notin torn => \A s \in list : s.z > s.tau
            /\ <<"queue", r>> \in chosen => \A s \in list : [run |-> r, key |-> s.key] \notin queue

\* Adopted weights stand until the next adoption and agree with the labels they
\* were fitted to: on the signals of the run they came from, the live table flags
\* every pubkey labelled spam and none labelled ham (backtest, write_weights,
\* seed_weights_if_empty).  A table that was seeded in part only is left out.
AdoptedAgrees ==
    (adopted # None /\ (adopted # None => adopted.calm) /\ \A k \in Rows : weight[k] # None) =>
        \A p \in Keys : adopted.labels[p] # None =>
            (Flags(weight, weight["_bias"], weight["_threshold"], adopted.run, p) <=> adopted.labels[p])

\* A pubkey on the whitelist never loses by an outage of the whitelist server: no
\* run records it as absent or as flagged for its absence (is_whitelisted_bulk).
ListedIsNeverAbsent ==
    \A r \in RunIds, p \in Listed :
        score[r][p] # None => score[r][p].white /\ signal[r][p]["L0"] \in {None, 0}
=============================================================================
