------------------------------- MODULE Layers -------------------------------
(***************************************************************************)
(* The content layers of pubkey_iterator, L1, L3 and L4, over the events   *)
(* of one pubkey, which arrive one after another.  A content is a sequence *)
(* of tokens, the parts between white space; what the layers ask of a      *)
(* token is given by the constants.  Numbers between 0 and 1 are           *)
(* thousandths, and a logarithm comes from a table.  The entropy is a sum  *)
(* of f64 in the order of a HashMap, which no two runs share: the sum is   *)
(* exact here up to one of Rounding, any of them.                          *)
(***************************************************************************)
EXTENDS Integers, Sequences, FiniteSets, SequencesExt

CONSTANTS
    Lower,        \* to_lowercase: from the tokens to the lower-case ones
    Chars,        \* the characters of a lower-case token
    Host,         \* its host, if it parses as a URL that has one; or NoHost
    NoHost,
    HostRank,     \* the order of the host strings
    Emoji,        \* the characters that are emoji
    Clings,       \* the pairs <<c, d>> between which a grapheme does not end: d is a
                  \* mark, a joiner or a selector, or c is prepended to what follows
    Rounding,     \* what the additions of f64 may be off by, in whatever order
    Hashtag,      \* whether it starts with #
    Words,        \* the words in it, as unicode_words cuts them: tokens too
    Posts,        \* what a pubkey posts: [content, p, t], with the numbers of its
                  \* p-tags and t-tags
    Bits,         \* 64
    Offset, Prime,\* of FNV-1a
    Log2,         \* Log2[n], in thousandths
    HammingThreshold, ShingleSize, MinEvents,                        \* L1Config
    EntropyLow, EntropyHigh, MinLenForLow, EmojiKnee, HashtagKnee,   \* L3Config
    UrlRatioKnee, DomainKnee, PTagsKnee, TTagsKnee, MinEvents4,      \* L4Config
    MaxEvents     \* bound: the events of a pubkey

One == 1000

Token == DOMAIN Lower
Space == " "
Character == {Space} \cup (UNION {Range(Chars[t]) : t \in Token})

ASSUME LayersConstants ==
    /\ MinEvents \in Nat \ {0} /\ MinEvents4 \in Nat \ {0} /\ MaxEvents \in Nat
    /\ Lower \in [Token -> Token] /\ \A t \in Token : Lower[Lower[t]] = Lower[t]
    /\ Chars \in [Token -> Seq(Character)] /\ Words \in [Token -> Seq(Token)]
    /\ <<Space, Space>> \notin Clings /\ Rounding \subseteq Int
    /\ Posts \subseteq [content : Seq(Token), p : Nat, t : Nat]

VARIABLE events   \* a sequence of Posts

Part(a, b) == (a * One) \div b
Least(a, b) == IF a < b THEN a ELSE b
Most(a, b) == IF a > b THEN a ELSE b
Clamp(x) == Most(0, Least(x, One))

-----------------------------------------------------------------------------
(* near_duplicate.rs                                                       *)

\* normalize: trimmed, lower case, single spaces.
Normalize(content) == [i \in DOMAIN content |-> Lower[content[i]]]

Bit(h, i) == (h \div 2 ^ i) % 2

\* The exclusive or of two words.
Xor(a, b) == MapThenSumSet(LAMBDA i : IF Bit(a, i) = Bit(b, i) THEN 0 ELSE 2 ^ i, 0 .. Bits - 1)

\* fnv1a64 over the tokens of a text.
Fnv(text) == FoldLeft(LAMBDA h, b : (Xor(h, b) * Prime) % 2 ^ Bits, Offset, text)

\* unicode_words.
WordsOf(text) == FlattenSeq([i \in DOMAIN text |-> Words[text[i]]])

\* shingles_of: windows of words, or the whole of a short post.
Shingles(text) ==
    LET words == WordsOf(text) IN
    IF Len(words) < ShingleSize \/ ShingleSize = 0 THEN <<text>>
    ELSE [i \in 1 .. Len(words) - ShingleSize + 1 |-> SubSeq(words, i, i + ShingleSize - 1)]

\* simhash64: the bits that more shingles have than have not.
SimHash(shingles) ==
    {i \in 0 .. Bits - 1 :
        Cardinality({s \in DOMAIN shingles : Bit(Fnv(shingles[s]), i) = 1}) * 2 > Len(shingles)}

\* hamming64.
Hamming(a, b) == Cardinality((a \ b) \cup (b \ a))

\* fingerprint_of, for every content.
FingerprintOf ==
    [c \in {p.content : p \in Posts} |->
        [content_hash |-> Fnv(Normalize(c)), simhash |-> SimHash(Shingles(Normalize(c)))]]

SimHashes(evs) == [i \in DOMAIN evs |-> FingerprintOf[evs[i].content].simhash]

Near(hashes, i, j) == Hamming(hashes[i], hashes[j]) <= HammingThreshold

\* The steps from x to its root: at most as many as there are events.
Up(parent, x) ==
    LET up[k \in 0 .. Len(parent)] == IF k = 0 THEN x ELSE parent[up[k - 1]]
    IN  {up[k] : k \in 0 .. Len(parent)}
Root(parent, x) == CHOOSE r \in Up(parent, x) : parent[r] = r

\* find: the root, with path compression.
Compressed(parent, x) ==
    [y \in DOMAIN parent |-> IF y \in Up(parent, x) THEN Root(parent, x) ELSE parent[y]]

\* Faulty variant: the event itself is hung below the other's root.
UnionSelf(parent, i, j) == [Compressed(Compressed(parent, i), j) EXCEPT ![i] = Root(parent, j)]

Union(parent, i, j) ==
    LET both == Compressed(Compressed(parent, i), j)
        ri == Root(parent, i)
        rj == Root(parent, j)
    IN  IF ri = rj THEN both ELSE [both EXCEPT ![ri] = rj]

\* What the loops do with a pair.
Join(hashes, parent, i, j) == IF Near(hashes, i, j) THEN Union(parent, i, j) ELSE parent

\* The inner loop: an event and those behind it.
JoinRow(hashes, start, i) ==
    LET parent[d \in 0 .. Len(hashes) - i] ==
            IF d = 0 THEN start ELSE Join(hashes, parent[d - 1], i, i + d)
    IN  parent[Len(hashes) - i]

\* The outer loop.
Joined(hashes) ==
    LET parent[i \in 0 .. Len(hashes)] ==
            IF i = 0 THEN [x \in 1 .. Len(hashes) |-> x] ELSE JoinRow(hashes, parent[i - 1], i)
    IN  parent[Len(hashes)]

\* count_clusters.
CountClusters(hashes) ==
    LET n == Len(hashes)
        joined == Joined(hashes)
    IN  Cardinality({r \in 1 .. n : Cardinality({i \in 1 .. n : Root(joined, i) = r}) >= 2})

\* repeated_ratio: the events near another one.
Clustered(hashes) ==
    Cardinality({i \in DOMAIN hashes : \E j \in DOMAIN hashes \ {i} : Near(hashes, i, j)})

\* NearDuplicateLayer::score.
L1(evs) ==
    IF Len(evs) < MinEvents THEN [value |-> 0, clusters |-> 0]
    ELSE [value |-> Part(Clustered(SimHashes(evs)), Len(evs)),
          clusters |-> CountClusters(SimHashes(evs))]

\* fingerprints: one row for every content hash, of its first event.
Fingerprints(evs) ==
    IF Len(evs) < MinEvents THEN {}
    ELSE LET rows == [i \in DOMAIN evs |-> FingerprintOf[evs[i].content]] IN
         {rows[i] : i \in {k \in DOMAIN evs : \A m \in 1 .. k - 1 :
                              rows[m].content_hash # rows[k].content_hash}}

-----------------------------------------------------------------------------
(* content_entropy.rs                                                      *)

\* join(" ").
Spaced(parts) ==
    FlattenSeq([k \in DOMAIN parts |-> IF k = 1 THEN parts[k] ELSE <<Space>> \o parts[k]])

\* The characters of a content, and of all of them: a content without a token
\* leaves only the space.
Text(e) == Spaced([k \in DOMAIN e.content |-> Chars[Lower[e.content[k]]]])
Concat(evs) == Spaced([i \in DOMAIN evs |-> Text(evs[i])])

Counts(text) == [c \in Range(text) |-> Cardinality({k \in DOMAIN text : text[k] = c})]

\* The sum of -p log2 p, as log2 n - (sum of c log2 c) / n.
EntropyOf(counts, n) ==
    IF n = 0 THEN 0
    ELSE (n * Log2[n] - MapThenSumSet(LAMBDA c : counts[c] * Log2[counts[c]], DOMAIN counts)) \div n

\* shannon_bits_per_char.
Shannon(text) == EntropyOf(Counts(text), Len(text))

\* graphemes(true): where the graphemes of a text begin.
Graphemes(text) == {k \in DOMAIN text : k = 1 \/ <<text[k - 1], text[k]>> \notin Clings}

\* Those that is_emoji_grapheme accepts, by their first character.
EmojiGraphemes(text) == {k \in Graphemes(text) : text[k] \in Emoji}

\* entropy_component: a ramp down from each end, the low one for long texts.
EntropyComponent(h, len) ==
    LET low == IF len < MinLenForLow THEN 0 ELSE Clamp(EntropyLow + One - h)
        shoulder == Most(EntropyHigh - One \div 2, 0)
        high == Clamp(Part(h - shoulder, Most(EntropyHigh - shoulder, 1)))
    IN  Most(low, high)

\* knee_component: a knee that is not positive turns the component off.
Knee(value, knee) == IF knee > 0 THEN Least(Part(value, knee), One) ELSE 0

Tokens(evs) == FlattenSeq([i \in DOMAIN evs |-> Normalize(evs[i].content)])
Hashtags(tokens) == Cardinality({k \in DOMAIN tokens : Hashtag[tokens[k]]})
WordsIn(evs) == FlattenSeq([i \in DOMAIN evs |-> WordsOf(Normalize(evs[i].content))])

\* ContentEntropyLayer::score, when the additions are off by r.
L3(evs, r) ==
    LET text == Concat(evs)
        emoji == Part(Cardinality(EmojiGraphemes(text)), Most(Cardinality(Graphemes(text)), 1))
        tags == Part(Hashtags(Tokens(evs)), Most(Len(WordsIn(evs)), 1))
        h == Most(Shannon(text) + r, 0)
    IN  IF evs = <<>> THEN [value |-> 0, bits |-> 0, emoji |-> 0, tags |-> 0]
        ELSE [value |-> Clamp(Most(EntropyComponent(h, Len(text)),
                                   Most(Knee(emoji, EmojiKnee), Knee(tags, HashtagKnee)))),
              bits |-> h, emoji |-> emoji, tags |-> tags]

-----------------------------------------------------------------------------
(* link_mention.rs                                                         *)

\* hosts_in, every host of an event once.
HostsOf(e) == {Host[Lower[e.content[i]]] : i \in DOMAIN e.content} \ {NoHost}

Linking(evs) == Cardinality({i \in DOMAIN evs : HostsOf(evs[i]) # {}})

\* host_event_counts.
HostCounts(evs) ==
    [h \in UNION {HostsOf(evs[i]) : i \in DOMAIN evs} |->
        Cardinality({i \in DOMAIN evs : h \in HostsOf(evs[i])})]

\* Faulty variant: of equal counts the host that was met first wins.
TopHostFirst(evs) ==
    LET counts == HostCounts(evs)
        met(h) == CHOOSE i \in DOMAIN evs : h \in HostsOf(evs[i])
                                            /\ \A k \in 1 .. i - 1 : h \notin HostsOf(evs[k])
    IN  CHOOSE h \in DOMAIN counts : \A g \in DOMAIN counts \ {h} :
            \/ counts[h] > counts[g]
            \/ counts[h] = counts[g] /\ (met(h) < met(g) \/ (met(h) = met(g) /\ HostRank[h] < HostRank[g]))

\* max_by: the highest count, and of equal counts the smallest host.
TopHost(evs) ==
    LET counts == HostCounts(evs) IN
    CHOOSE h \in DOMAIN counts : \A g \in DOMAIN counts \ {h} :
        counts[h] > counts[g] \/ (counts[h] = counts[g] /\ HostRank[h] < HostRank[g])

\* sum().
Added(numbers) ==
    LET sum[i \in 0 .. Len(numbers)] == IF i = 0 THEN 0 ELSE sum[i - 1] + numbers[i]
    IN  sum[Len(numbers)]

\* total_p and total_t.
PTags(evs) == Added([i \in DOMAIN evs |-> evs[i].p])
TTags(evs) == Added([i \in DOMAIN evs |-> evs[i].t])

\* LinkMentionLayer::score.
L4(evs) ==
    LET n == Len(evs)
        counts == HostCounts(evs)
        url == Part(Linking(evs), n)
        top == IF DOMAIN counts = {} THEN NoHost ELSE TopHost(evs)
        share == IF Linking(evs) = 0 THEN 0 ELSE Part(counts[top], Linking(evs))
        p == Part(PTags(evs), n)
        t == Part(TTags(evs), n)
    IN  IF n < MinEvents4
        THEN [value |-> 0, url |-> 0, top |-> NoHost, share |-> 0, p |-> 0, t |-> 0]
        ELSE [value |-> Clamp(Max({Knee(url, UrlRatioKnee), Knee(share, DomainKnee),
                                   Knee(p, PTagsKnee), Knee(t, TTagsKnee)})),
              url |-> url, top |-> top, share |-> share, p |-> p, t |-> t]

-----------------------------------------------------------------------------
LayersInit == events = <<>>

\* One more event of the pubkey.
Post == Len(events) < MaxEvents /\ \E e \in Posts : events' = Append(events, e)

LayersNext == Post

LayersSpec == LayersInit /\ [][LayersNext]_events

-----------------------------------------------------------------------------
(* Properties                                                              *)

\* The events that are near one another, in any number of steps.
Component(hashes, i) ==
    LET reach[k \in 0 .. Len(hashes)] ==
            IF k = 0 THEN {i}
            ELSE {j \in DOMAIN hashes : \E m \in reach[k - 1] : j = m \/ Near(hashes, m, j)}
    IN  reach[Len(hashes)]

\* The union-find of count_clusters, with its path compression and whatever
\* order the pairs come in, counts the connected components of two events or
\* more, and every clustered event is in one of them.
ClustersAreComponents ==
    LET hashes == SimHashes(events)
        components == {Component(hashes, i) : i \in DOMAIN hashes}
        groups == {c \in components : Cardinality(c) >= 2}
    IN  /\ CountClusters(hashes) = Cardinality(groups)
        /\ Clustered(hashes) = Cardinality(UNION groups)

\* Two neighbours of a sequence in the other order.
Swapped(evs, i) == [evs EXCEPT ![i] = evs[i + 1], ![i + 1] = evs[i]]

\* What L3 may store for the events, by the order of the HashMap.
Entropies(evs) == {L3(evs, r) : r \in Rounding}

\* No content begins or ends with a character that joins a space: its graphemes are
\* the same wherever it stands.
ContentsApart(evs) ==
    \A i \in DOMAIN evs :
        LET text == Text(evs[i]) IN
        text # <<>> => <<Space, text[1]>> \notin Clings /\ <<text[Len(text)], Space>> \notin Clings

\* The order in which the events are read changes nothing that L1 and L4 store,
\* their evidence and the fingerprints included.  It does not change either what
\* entropy and hashtag density L3 may store, and, unless a content begins or ends in
\* the middle of a grapheme, its emoji density and value.  What does change between
\* two runs is which of the roundings of the entropy comes out; and the graphemes of
\* the joined texts do depend on the order where a content begins with a mark.
OrderFree ==
    \A i \in 1 .. Len(events) - 1 :
        LET other == Swapped(events, i) IN
        /\ L1(other) = L1(events) /\ L4(other) = L4(events)
        /\ Fingerprints(other) = Fingerprints(events)
        /\ {<<o.bits, o.tags>> : o \in Entropies(other)} = {<<o.bits, o.tags>> : o \in Entropies(events)}
        /\ ContentsApart(events) => Entropies(other) = Entropies(events)

=============================================================================
