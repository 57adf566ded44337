----------------------------- MODULE QueryCache -----------------------------
(***************************************************************************)
(* What the pages rely on of @tanstack/react-query, the cache between the  *)
(* front end and the API.  The library is not in the repository; this is   *)
(* how useQuery, invalidateQueries and setQueryData behave as the pages    *)
(* use them, with the options main.tsx gives the QueryClient.              *)
(*                                                                         *)
(* An entry is one query key.  Its one fetch is asked, then served (the    *)
(* server has read its rows), and then arrives; the server may change in   *)
(* between.  The one automatic retry of a request is a request that takes  *)
(* longer: it is served later.  An entry is never garbage collected.       *)
(***************************************************************************)
CONSTANT NoData     \* nothing has arrived yet

Entries(Data) ==
    [data : Data \cup {NoData}, stale : BOOLEAN,
     fetch : {"idle", "asked", "served"}, answer : Data \cup {NoData}]

Unloaded == [data |-> NoData, stale |-> FALSE, fetch |-> "idle", answer |-> NoData]

Loaded(e) == e.data # NoData
Fetching(e) == e.fetch # "idle"

\* A mount, a tick of refetchInterval or a focus: a fetch under way is joined.
Ask(e) == IF Fetching(e) THEN e ELSE [e EXCEPT !.fetch = "asked"]

\* A mount asks what was never loaded or was invalidated.  What is older than
\* staleTime (30 s) is asked too: time is not modelled, so the page may.
MustAsk(e) == ~Loaded(e) \/ e.stale

\* cancelRefetch: the fetch under way is dropped for a new one, but only once
\* there is data; the very first fetch is joined.
AskAgain(e) ==
    IF Fetching(e) /\ ~Loaded(e) THEN e
    ELSE [e EXCEPT !.fetch = "asked", !.answer = NoData]

\* invalidateQueries: only what is on screen is fetched at once.
Invalidate(e, observed) ==
    LET marked == [e EXCEPT !.stale = TRUE]
    IN IF observed THEN AskAgain(marked) ELSE marked

\* The server reads its rows for the answer.
Serve(e, snapshot) == [e EXCEPT !.fetch = "served", !.answer = snapshot]

\* The answer becomes the data, and the entry is fresh whatever invalidated it.
Arrive(e) == [data |-> e.answer, stale |-> FALSE, fetch |-> "idle", answer |-> NoData]

\* The request and its retry failed: the data stays, and counts as invalidated.
Fail(e) == [e EXCEPT !.fetch = "idle", !.answer = NoData, !.stale = TRUE]

\* setQueryData; a fetch under way goes on and will overwrite it.
Write(e, value) == [e EXCEPT !.data = value, !.stale = FALSE]
=============================================================================
