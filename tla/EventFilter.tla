----------------------------- MODULE EventFilter -----------------------------
(***************************************************************************)
(* How LMDB2GraphQL answers a filter from strfry's indexes: the index it   *)
(* selects, the prefixes it scans there (router.rs), the prefixes an event *)
(* is stored under, and the residual check of an event that was read       *)
(* (engine.rs).                                                            *)
(***************************************************************************)
EXTENDS Integers

CONSTANTS
    Attr,      \* id, author, kind and tags (pairs of name and value) of every event
    Created,   \* created_at of every event
    Decode,    \* the key that a text of a filter's ids or authors stands for
    TagNames,  \* the names of one character
    None       \* a field that the filter does not have, a text that is not 32 bytes of hex

Has(field) == field # None

SelectIndex(f) ==
    CASE Has(f.ids)                                         -> "id"
      [] ~Has(f.ids) /\ Has(f.authors) /\ Has(f.kinds)      -> "pubkeyKind"
      [] ~Has(f.ids) /\ Has(f.authors) /\ ~Has(f.kinds)     -> "pubkey"
      [] ~Has(f.ids) /\ ~Has(f.authors) /\ Has(f.kinds)     -> "kind"
      [] ~Has(f.ids) /\ ~Has(f.authors) /\ ~Has(f.kinds) /\ Has(f.tags) -> "tag"
      [] OTHER                                              -> "created_at"

\* decode_hex: both cases of a letter give the same key; what is malformed is
\* skipped.
Keys(texts) == {Decode[t] : t \in texts} \ {None}

\* build_start_keys, without the time at the end of every key.
StartKeys(f) ==
    CASE SelectIndex(f) = "id"         -> Keys(f.ids)
      [] SelectIndex(f) = "pubkeyKind" -> Keys(f.authors) \X f.kinds
      [] SelectIndex(f) = "pubkey"     -> Keys(f.authors)
      [] SelectIndex(f) = "kind"       -> f.kinds
      [] SelectIndex(f) = "tag"        ->
            UNION {{<<t.name, v>> : v \in t.values} : t \in {x \in f.tags : x.name \in TagNames}}
      [] SelectIndex(f) = "created_at" -> {"all"}

\* strfry's indexes.
IndexKeys(index, e) ==
    CASE index = "id"         -> {Attr[e].id}
      [] index = "pubkeyKind" -> {<<Attr[e].author, Attr[e].kind>>}
      [] index = "pubkey"     -> {Attr[e].author}
      [] index = "kind"       -> {Attr[e].kind}
      [] index = "tag"        -> {t \in Attr[e].tags : t[1] \in TagNames}
      [] index = "created_at" -> {"all"}

\* The check of a hydrated event: the texts are compared as they are, tags of
\* several names are all required and one value of each is enough.
Residual(f, e) ==
    /\ Has(f.kinds) => Attr[e].kind \in f.kinds
    /\ Has(f.authors) => Attr[e].author \in f.authors
    /\ Has(f.ids) => Attr[e].id \in f.ids
    /\ Has(f.tags) => \A t \in f.tags : \E v \in t.values : <<t.name, v>> \in Attr[e].tags

InTime(f, e) == f.since <= Created[e] /\ Created[e] <= f.until
=============================================================================
