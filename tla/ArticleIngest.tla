--------------------------- MODULE ArticleIngest ---------------------------
(***************************************************************************)
(* handle_article_ingest: every attempt fetches and extracts afresh, every *)
(* failure is final, and the one checkpoint comes after the embedding.     *)
(***************************************************************************)
EXTENDS MediaJob

ArticleStart(j) ==
    /\ pc[j] = "start"
    /\ IF "doc_written" \in done[j] THEN Return(j)
       ELSE GoTo(j, "fetch") /\ UNCHANGED progress

\* The page may have changed since an earlier fetch.
FetchArticle(j) ==
    /\ pc[j] = "fetch"
    /\ \E t \in Transcript : text' = [text EXCEPT ![j] = Speech(t)]
    /\ GoTo(j, "dedupe")
    /\ UNCHANGED <<done, stored, scratch, work>>

\* Network, paywall, a page without a body.
FetchFails(j) == pc[j] = "fetch" /\ Fail(j)

ArticleHandle(j) ==
    \/ ArticleStart(j) \/ FetchArticle(j) \/ FetchFails(j) \/ DedupeThen(j, "vault")
    \/ InsertThen(j, "embed") \/ EmbedThen(j, "doc_written")
    \/ RecordDocumentThen(j, "return") \/ Finish(j)
=============================================================================
