---------------------------- MODULE VectorSearch ----------------------------
(***************************************************************************)
(* core/vector_search.py with its InMemoryVectorStore: texts stored under  *)
(* their embeddings, and queries for the most similar ones.                *)
(*                                                                         *)
(* Concurrency.  One event loop.  A call awaits its embeddings and then    *)
(* works on the store without another await (the store's lock is never     *)
(* held across one), so that calls interleave between the two.             *)
(*                                                                         *)
(* Abstractions.  A text is its embedding, and what the provider answers   *)
(* is any of Vectors; a record is its id and its vector.  A vector has     *)
(* integer components, and similarities are compared as the fractions they *)
(* are.  A threshold is zero (the default) or lower than any score.        *)
(***************************************************************************)
EXTENDS Integers, Sequences, SequencesExt, FiniteSets, TLC

CONSTANTS
    Callers,
    Namespaces,
    Ids,
    Vectors,
    default_top_k,
    MaxRecords      \* bound: records in the store

VARIABLES
    data,       \* the records of each namespace, in the order of the dict
    job,        \* what each caller awaits the embeddings of
    answer      \* the answer a query has just returned

searchVars == <<data, job, answer>>

Record == [id : Ids, vector : Vectors]
NoJob == [do |-> "nothing"]
Stores == [do : {"store"}, namespace : Namespaces, ids : SeqOf(Ids, 2) \ {<<>>}]
Queries == [do : {"query"}, namespace : Namespaces, top_k : {0, 1}, low : BOOLEAN]
NoAnswer == [to |-> "nobody"]

TypeOK ==
    /\ data \in [Namespaces -> Seq(Record)]
    /\ job \in [Callers -> Stores \cup Queries \cup {NoJob}]
    /\ answer # NoAnswer =>
         answer.to \in Queries /\ answer.vector \in Vectors /\ answer.matches \in Seq(Record)

Init ==
    /\ data = [n \in Namespaces |-> <<>>]
    /\ job = [c \in Callers |-> NoJob]
    /\ answer = NoAnswer

-----------------------------------------------------------------------------
(* _cosine_similarity().                                                    *)

Dot(u, v) ==
    LET sum[n \in 0..Len(u)] == IF n = 0 THEN 0 ELSE sum[n - 1] + u[n] * v[n]
    IN sum[Len(u)]
\* A vector of length zero is similar to nothing: its score is zero.
Square(v) == IF Dot(v, v) = 0 THEN 1 ELSE Dot(v, v)
Signed(n) == IF n < 0 THEN -(n * n) ELSE n * n
\* u is more similar to q than v is.
Closer(q, u, v) == Signed(Dot(q, u)) * Square(v) > Signed(Dot(q, v)) * Square(u)
Comparable(q, records) == \A i \in DOMAIN records : Len(records[i].vector) = Len(q)

-----------------------------------------------------------------------------
(* The store.                                                               *)

Total == FoldLeft(LAMBDA sum, n : sum + Len(data[n]), 0, SetToSeq(Namespaces))

\* A record replaces the one of its id, in its place.
upsert(records, record) ==
    IF \E i \in DOMAIN records : records[i].id = record.id
    THEN [i \in DOMAIN records |-> IF records[i].id = record.id THEN record ELSE records[i]]
    ELSE Append(records, record)
\* One after the other, under one lock.
upsert_batch(records, ids, vectors) ==
    LET after[n \in 0..Len(ids)] ==
            IF n = 0 THEN records
            ELSE upsert(after[n - 1], [id |-> ids[n], vector |-> vectors[n]])
    IN after[Len(ids)]

\* What is at some places of a sequence, in an order given by its pairs of places: in the
\* k-th place what has k - 1 of the others before it.
Arranged(s, places, before) ==
    [k \in 1..Cardinality(places) |->
        s[CHOOSE i \in places : Cardinality({j \in places : <<j, i>> \in before}) = k - 1]]
Kept(s, places) == Arranged(s, places, {p \in places \X places : p[1] < p[2]})

\* The records of the namespace, most similar first and else as they were, and of them
\* the first k.
Before(q, records) ==
    {p \in (DOMAIN records) \X (DOMAIN records) :
        LET u == records[p[1]].vector
            v == records[p[2]].vector
        IN Closer(q, u, v) \/ (~Closer(q, v, u) /\ p[1] < p[2])}
Sorted(q, records) == Arranged(records, DOMAIN records, Before(q, records))
First(records, k) == SubSeq(records, 1, IF k < Len(records) THEN k ELSE Len(records))

\* Slip: the first k are taken, and then sorted.
SlicedFirst(q, records, k) == Sorted(q, First(records, k))
Ranked(q, records, k) == First(Sorted(q, records), k)

\* top_k or the default, where 0 is no top_k.
TopK(query) == IF query.top_k = 0 THEN default_top_k ELSE query.top_k
Passes(query, q, record) == query.low \/ Dot(q, record.vector) >= 0
Matches(query, q) ==
    LET ranked == Ranked(q, data[query.namespace], TopK(query))
    IN Kept(ranked, {i \in DOMAIN ranked : Passes(query, q, ranked[i])})

-----------------------------------------------------------------------------
\* store(), store_batch() and query() ask the provider for their embeddings.
Call(c, j) ==
    /\ job[c] = NoJob
    /\ job' = [job EXCEPT ![c] = j]
    /\ answer' = NoAnswer
    /\ UNCHANGED data

\* The embeddings arrive: a batch is stored as a whole.
Stored(c, vectors) ==
    LET j == job[c] IN
    /\ j.do = "store" /\ Len(vectors) = Len(j.ids)
    /\ Total + Len(j.ids) <= MaxRecords
    /\ data' = [data EXCEPT ![j.namespace] = upsert_batch(@, j.ids, vectors)]
    /\ job' = [job EXCEPT ![c] = NoJob]
    /\ answer' = NoAnswer

\* One record of another length is enough for the query to raise.
Answered(c, q) ==
    /\ job[c].do = "query"
    /\ answer' = IF Comparable(q, data[job[c].namespace])
                 THEN [to |-> job[c], vector |-> q, matches |-> Matches(job[c], q)]
                 ELSE NoAnswer
    /\ job' = [job EXCEPT ![c] = NoJob]
    /\ UNCHANGED data

\* The provider raises: nothing is stored, or answered.
EmbedFails(c) ==
    /\ job[c] # NoJob
    /\ job' = [job EXCEPT ![c] = NoJob]
    /\ answer' = NoAnswer
    /\ UNCHANGED data

Delete(n, ids) ==
    /\ data' = [data EXCEPT ![n] = Kept(@, {i \in DOMAIN @ : @[i].id \notin ids})]
    /\ answer' = NoAnswer
    /\ UNCHANGED job

DeleteNamespace(n) ==
    /\ data' = [data EXCEPT ![n] = <<>>]
    /\ answer' = NoAnswer
    /\ UNCHANGED job

Next ==
    \/ \E c \in Callers :
        \/ \E j \in Stores \cup Queries : Call(c, j)
        \/ \E vectors \in SeqOf(Vectors, 2) : Stored(c, vectors)
        \/ \E q \in Vectors : Answered(c, q)
        \/ EmbedFails(c)
    \/ \E n \in Namespaces : DeleteNamespace(n) \/ \E i \in Ids : Delete(n, {i})

Spec == Init /\ [][Next]_searchVars

-----------------------------------------------------------------------------
\* A query is answered with the most similar records its namespace holds at that
\* moment, best first: none is passed over for one that is less similar, and none
\* of another namespace is among them.
AnswersBest ==
    answer # NoAnswer =>
        LET query == answer.to
            found == answer.matches
            records == data[query.namespace]
        IN /\ ToSet(found) \subseteq ToSet(records) /\ IsInjective(found)
           /\ Len(found) <= TopK(query)
           /\ \A i \in DOMAIN found :
                /\ Passes(query, answer.vector, found[i])
                /\ \A j \in 1..(i - 1) : ~Closer(answer.vector, found[i].vector, found[j].vector)
           /\ \A r \in ToSet(records) \ ToSet(found) :
                \/ ~Passes(query, answer.vector, r)
                \/ /\ Len(found) = TopK(query)
                   /\ \A i \in DOMAIN found : ~Closer(answer.vector, r.vector, found[i].vector)

=============================================================================
