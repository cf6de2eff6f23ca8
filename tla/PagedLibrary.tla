---------------------------- MODULE PagedLibrary ----------------------------
(***************************************************************************)
(* A library shown a page at a time, with filters: what the browsers of    *)
(* the community wraps and of the community lock sounds have in common.    *)
(* A change of the filters or of the page starts a timer, the timer starts *)
(* a request, and every answer is displayed, in whatever order they come.  *)
(* Requests are numbered in the order they are sent.                       *)
(***************************************************************************)
EXTENDS Naturals, FiniteSets

CONSTANTS
  Filters,      \* search, model and sort order, taken together
  AnyFilter,    \* the filter at the start
  Pages,        \* the most pages the library has
  None,
  MaxFetches    \* bound on requests sent in all

PagedLibraryAssumption ==
  /\ AnyFilter \in Filters /\ Pages \in Nat \ {0} /\ MaxFetches \in Nat
  /\ None \notin [filter : Filters, page : 1 .. Pages]

VARIABLES
  query,     \* the filter and the page the controls show
  due,       \* the request a timer is about to send, or None
  sent,      \* how many were sent
  fetches,   \* those under way
  shown,     \* the query whose entries are displayed, or None
  total,     \* pages there are, by the last answer
  loading,   \* loading
  error,     \* error
  last,      \* the number of the answer displayed
  crossed    \* an answer came after one to a later request

lib == <<query, due, sent, fetches, shown, total, loading, error, last, crossed>>

Query == [filter : Filters, page : 1 .. Pages]

LibTypeOK ==
  /\ query \in Query /\ due \in Query \cup {None} /\ sent \in 0 .. MaxFetches
  /\ fetches \subseteq [n : 1 .. MaxFetches, of : Query]
  /\ shown \in Query \cup {None} /\ total \in 0 .. Pages
  /\ loading \in BOOLEAN /\ error \in BOOLEAN
  /\ last \in 0 .. MaxFetches /\ crossed \in BOOLEAN

LibInit ==
  /\ query = [filter |-> AnyFilter, page |-> 1] /\ due = query
  /\ sent = 0 /\ fetches = {} /\ shown = None /\ total = 0
  /\ loading = TRUE /\ error = FALSE /\ last = 0 /\ crossed = FALSE

\* The request of a timer that was not stopped, or one by hand.
Send(q) ==
  /\ sent < MaxFetches
  /\ sent' = sent + 1 /\ fetches' = fetches \cup {[n |-> sent + 1, of |-> q]}
  /\ loading' = TRUE /\ error' = FALSE
  /\ UNCHANGED <<query, shown, total, last, crossed>>

\* Mutant: a timer that runs is left to run.
KeepsTimer(q) == IF due = None THEN q ELSE due

\* A new render stops the timer of the last one.
Restarts(q) == q

Asks(q) ==
  /\ query' = q /\ due' = Restarts(q)
  /\ UNCHANGED <<sent, fetches, shown, total, loading, error, last, crossed>>

Timer == due # None /\ Send(due) /\ due' = None

Displays(f, s, t) ==
  /\ fetches' = fetches \ {f}
  /\ shown' = s /\ total' = t /\ loading' = FALSE
  /\ last' = f.n /\ crossed' = (crossed \/ f.n < last)

\* entries of the query; or an error, which leaves s on display
Answer(f) ==
  /\ f \in fetches
  /\ \E t \in 0 .. Pages : Displays(f, f.of, t)
  /\ UNCHANGED <<query, due, sent, error>>

Failure(f, s) ==
  /\ f \in fetches
  /\ Displays(f, s, total) /\ error' = TRUE
  /\ UNCHANGED <<query, due, sent>>

GridShown == ~loading /\ ~error /\ shown # None

Quiet == due = None /\ fetches = {}
=============================================================================
