--------------------------------- MODULE Api ---------------------------------
(***************************************************************************)
(* The control-plane API (services/api-go) in front of Postgres, and the   *)
(* replay command (services/replay-go) that writes what the API lists.     *)
(*                                                                         *)
(* A run of the command sends one INSERT; it may lose the connection       *)
(* before the answer and then does not know whether the row is there.      *)
(* Requests share a bounded pool of connections, and read their rows one   *)
(* by one from a connection that may break.  The gates before the handlers *)
(* (CORS, the authenticator, the limiter) hold nothing of what is modelled *)
(* here and change nothing of it: a request that they turn away is one     *)
(* that never arrives.                                                     *)
(***************************************************************************)
EXTENDS Integers, SequencesExt

CONSTANTS
  Runs,          \* runs of the replay command; the job_id of each is its own
  Ranges,        \* what operators ask for: records of cluster, start and end
  Requests,      \* requests in the API at a time
  MaxConns,      \* connections of the pool
  Absent,        \* a parameter that is not given
  Clusters,      \* cluster names that are safe tokens
  Asked,         \* what clients ask for
  DefaultLimit,  \* rows of a listing that names no limit, by endpoint
  MaxLimit,      \* the largest limit, by endpoint
  Watermarks     \* finality_watermarks by cluster and status; nothing here writes it

Lists == {"watermarks", "jobs"}
Statuses == [watermarks |-> {"processed", "confirmed", "finalized"},
             jobs |-> {"queued", "running", "failed", "done"}]

ASSUME ApiAssumption ==
  /\ \A a \in Ranges : a.start \in Int /\ a.end \in Int
  /\ MaxConns \in Nat \ {0}
  /\ Absent \notin Clusters
  /\ \A q \in Asked : q.endpoint \in Lists \cup {"ready"}
  /\ MaxLimit \in [Lists -> Nat \ {0}]
  /\ \A e \in Lists : DefaultLimit[e] \in 1..MaxLimit[e]
  /\ Watermarks \in Seq({Watermarks[i] : i \in DOMAIN Watermarks})
  /\ \A i \in DOMAIN Watermarks : Watermarks[i].status \in Statuses.watermarks

VARIABLES
  (* runs of the command *)
  run,    \* where each run is, or how it ended
  args,   \* its cluster and slots
  (* Postgres *)
  up,     \* the database answers
  txn,    \* the INSERT of each run: "none", "open", "committed" or "aborted"
  order,  \* the runs in the order of created_at: when their INSERT began
  (* the API *)
  free,   \* connections of the pool that no request holds
  pc,     \* where each request is; "listed" holds on to a listing that was answered
  query,  \* what it asks for
  rows,   \* the rows it has yet to read
  out,    \* the rows it has read
  cut,    \* its reading ended before its rows did
  known   \* the jobs that were in the table when it came

runVars == <<run, args>>
dbVars == <<up, txn, order>>
listVars == <<query, rows, out, cut, known>>
vars == <<runVars, dbVars, free, pc, listVars>>

NoArgs == [cluster |-> Absent, start |-> 0, end |-> 0]
NoQuery == [endpoint |-> "ready"]

(* The table replay_jobs. *)
Jobs == {c \in Runs : txn[c] = "committed"}

Listable == Runs \cup {Watermarks[i] : i \in DOMAIN Watermarks}

TypeOK ==
  /\ run \in [Runs -> {"idle", "connecting", "sent", "enqueued", "rejected", "failed"}]
  /\ args \in [Runs -> Ranges \cup {NoArgs}]
  /\ up \in BOOLEAN
  /\ txn \in [Runs -> {"none", "open", "committed", "aborted"}]
  /\ order \in Seq(Runs)
  /\ \A i, j \in DOMAIN order : order[i] = order[j] => i = j
  /\ \A c \in Runs : txn[c] # "none" <=> \E i \in DOMAIN order : order[i] = c
  /\ free \in 0..MaxConns
  /\ pc \in [Requests -> {"idle", "acquire", "query", "reading", "listed"}]
  /\ query \in [Requests -> Asked \cup {NoQuery}]
  /\ rows \in [Requests -> Seq(Listable)]
  /\ out \in [Requests -> Seq(Listable)]
  /\ cut \in [Requests -> BOOLEAN]
  /\ known \in [Requests -> SUBSET Runs]

Init ==
  /\ run = [c \in Runs |-> "idle"]
  /\ args = [c \in Runs |-> NoArgs]
  /\ up \in BOOLEAN
  /\ txn = [c \in Runs |-> "none"]
  /\ order = <<>>
  /\ free = MaxConns
  /\ pc = [r \in Requests |-> "idle"]
  /\ query = [r \in Requests |-> NoQuery]
  /\ rows = [r \in Requests |-> <<>>]
  /\ out = [r \in Requests |-> <<>>]
  /\ cut = [r \in Requests |-> FALSE]
  /\ known = [r \in Requests |-> {}]

-----------------------------------------------------------------------------
(* The replay command *)

(* validateSlotRange *)
ValidRange(start, end) == start > 0 /\ end > 0 /\ end >= start

(* Nobody has asked for the range, or the run that did has failed: operators
   ask again only then. *)
MayAsk(a) ==
  \A c \in Runs : args[c] = a => run[c] \in {"rejected", "failed"}

(* The command starts; an invalid range or a missing HELIOS_PG_DSN ends it. *)
Launch(c) ==
  /\ run[c] = "idle"
  /\ \E a \in {x \in Ranges : MayAsk(x)}, dsn \in BOOLEAN :
       /\ args' = [args EXCEPT ![c] = a]
       /\ run' = [run EXCEPT ![c] =
            IF ValidRange(a.start, a.end) /\ dsn THEN "connecting" ELSE "rejected"]
  /\ UNCHANGED <<dbVars, free, pc, listVars>>

(* The pool dials, and the INSERT begins at the server under a new job_id. *)
Insert(c) ==
  /\ run[c] = "connecting" /\ up
  /\ run' = [run EXCEPT ![c] = "sent"]
  /\ txn' = [txn EXCEPT ![c] = "open"]
  /\ order' = Append(order, c)
  /\ UNCHANGED <<args, up, free, pc, listVars>>

(* The server ends the transaction, whether or not the run still waits. *)
EndTransaction(c) ==
  /\ txn[c] = "open"
  /\ \/ up /\ txn' = [txn EXCEPT ![c] = "committed"]
     \/ txn' = [txn EXCEPT ![c] = "aborted"]
  /\ UNCHANGED <<runVars, up, order, free, pc, listVars>>

(* Mutant: the error of Exec is not looked at. *)
SucceedsAlways(c) == txn[c] # "open"

(* Exec returns no error. *)
Succeeds(c) == txn[c] = "committed"

(* "enqueued replay job" *)
Enqueued(c) ==
  /\ run[c] = "sent" /\ Succeeds(c)
  /\ run' = [run EXCEPT ![c] = "enqueued"]
  /\ UNCHANGED <<args, dbVars, free, pc, listVars>>

(* "insert job": refused, disconnected, or five seconds have passed. *)
InsertFails(c) ==
  /\ run[c] \in {"connecting", "sent"}
  /\ run' = [run EXCEPT ![c] = "failed"]
  /\ UNCHANGED <<args, dbVars, free, pc, listVars>>

-----------------------------------------------------------------------------
(* The API: parameters *)

(* strconv.Atoi and the bounds. *)
ValidLimit(q) ==
  q.limit = Absent \/ q.limit \in 1..MaxLimit[q.endpoint]

(* parseWatermarkQuery and parseReplayJobsQuery: a safe token, a status of the
   endpoint, and no parameter of another name. *)
ValidQuery(q) ==
  /\ ~q.unsupported
  /\ q.cluster \in Clusters \cup {Absent}
  /\ q.status \in Statuses[q.endpoint] \cup {Absent}
  /\ ValidLimit(q)

-----------------------------------------------------------------------------
(* The API: handlers *)

(* The end of a request, with whatever error or status. *)
Answer(r) ==
  /\ pc' = [pc EXCEPT ![r] = "idle"]
  /\ query' = [query EXCEPT ![r] = NoQuery]
  /\ rows' = [rows EXCEPT ![r] = <<>>]
  /\ out' = [out EXCEPT ![r] = <<>>]
  /\ cut' = [cut EXCEPT ![r] = FALSE]
  /\ known' = [known EXCEPT ![r] = {}]

(* What a handler goes on with: the rest is turned away for its parameters. *)
Handled == {q \in Asked : q.endpoint \in Lists => ValidQuery(q)}

(* A request gets to its handler, which waits for a connection. *)
Arrive(r) ==
  /\ pc[r] = "idle"
  /\ pc' = [pc EXCEPT ![r] = "acquire"]
  /\ \E q \in Handled : query' = [query EXCEPT ![r] = q]
  /\ known' = [known EXCEPT ![r] = Jobs]
  /\ UNCHANGED <<runVars, dbVars, free, rows, out, cut>>

(* The client is done with a listing. *)
Leave(r) ==
  /\ pc[r] = "listed"
  /\ Answer(r)
  /\ UNCHANGED <<runVars, dbVars, free>>

(* A connection of the pool, dialled if need be. *)
Acquire(r) ==
  /\ pc[r] = "acquire" /\ free > 0
  /\ free' = free - 1
  /\ pc' = [pc EXCEPT ![r] = "query"]
  /\ UNCHANGED <<runVars, dbVars, listVars>>

LimitOf(q) == IF q.limit = Absent THEN DefaultLimit[q.endpoint] ELSE q.limit

(* How many of the places in P come before place p. *)
Rank(P, p) == Cardinality({x \in P : x < p})

(* LIMIT n of the rows of s at the places in P, in the order of s. *)
FirstRows(s, P, n) ==
  [i \in 1..(IF Cardinality(P) < n THEN Cardinality(P) ELSE n) |->
     s[CHOOSE p \in P : Rank(P, p) = i - 1]]

(* /v1/watermarks: filtered, ORDER BY cluster, status LIMIT. *)
SelectedWatermarks(q) ==
  LET matches(w) == q.cluster \in {Absent, w.cluster} /\ q.status \in {Absent, w.status}
  IN  FirstRows(Watermarks, {i \in DOMAIN Watermarks : matches(Watermarks[i])}, LimitOf(q))

(* The row of run c is in replay_jobs and passes the filters; every job is queued. *)
Matches(q, c) ==
  /\ c \in Jobs
  /\ q.cluster \in {Absent, args[c].cluster}
  /\ q.status \in {Absent, "queued"}

(* The rows of s, in their order, that match. *)
Places(q, s) == {i \in DOMAIN s : Matches(q, s[i])}

(* Mutant: the WHERE clause is not appended. *)
SelectedUnfiltered(q) ==
  LET s == Reverse(order)
  IN  FirstRows(s, {i \in DOMAIN s : s[i] \in Jobs}, LimitOf(q))

(* /v1/replay/jobs: filtered, ORDER BY created_at DESC LIMIT; created_at is now()
   of the INSERT, the time its transaction began. *)
SelectedJobs(q) == FirstRows(Reverse(order), Places(q, Reverse(order)), LimitOf(q))

(* Query succeeds: the server has chosen the rows. *)
RunQuery(r) ==
  /\ pc[r] = "query" /\ query[r].endpoint \in Lists /\ up
  /\ pc' = [pc EXCEPT ![r] = "reading"]
  /\ rows' = [rows EXCEPT ![r] = IF query[r].endpoint = "jobs"
                                 THEN SelectedJobs(query[r])
                                 ELSE SelectedWatermarks(query[r])]
  /\ UNCHANGED <<runVars, dbVars, free, query, out, cut, known>>

(* Mutants: the connection stays with a request that fails; a request gives one
   back that it never had. *)
GivenBackIfRead(r) == IF pc[r] = "reading" THEN 1 ELSE 0
GivenBackAlways(r) == 1

(* rows.Close, or Release in the pool, on every way out. *)
GivenBack(r) == IF pc[r] \in {"query", "reading"} THEN 1 ELSE 0

(* Query fails before there are rows: no connection in time, a database that is
   down, a client that has gone. *)
QueryFails(r) ==
  /\ pc[r] \in {"acquire", "query"} /\ query[r].endpoint \in Lists
  /\ Answer(r)
  /\ free' = free + GivenBack(r)
  /\ UNCHANGED <<runVars, dbVars>>

(* rows.Next and rows.Scan: the next row. *)
ReadRow(r) ==
  /\ pc[r] = "reading" /\ rows[r] # <<>>
  /\ rows' = [rows EXCEPT ![r] = Tail(@)]
  /\ out' = [out EXCEPT ![r] = Append(@, Head(rows[r]))]
  /\ UNCHANGED <<runVars, dbVars, free, pc, query, cut, known>>

(* Scan cannot store the row. *)
ScanFails(r) ==
  /\ pc[r] = "reading" /\ rows[r] # <<>>
  /\ Answer(r)
  /\ free' = free + GivenBack(r)
  /\ UNCHANGED <<runVars, dbVars>>

(* rows.Next is false and the answer is 200 with what was read: at the end of the
   rows, or when the connection breaks or five seconds have passed, which only
   rows.Err would tell. *)
Listed(r, broken) ==
  /\ pc[r] = "reading"
  /\ broken \/ rows[r] = <<>>
  /\ pc' = [pc EXCEPT ![r] = "listed"]
  /\ cut' = [cut EXCEPT ![r] = broken]
  /\ free' = free + GivenBack(r)
  /\ UNCHANGED <<runVars, dbVars, query, rows, out, known>>

(* handleWatermarks and handleReplayJobs, from the query on. *)
HandleList(r) ==
  \/ RunQuery(r) \/ QueryFails(r) \/ ReadRow(r) \/ ScanFails(r)
  \/ \E broken \in BOOLEAN : Listed(r, broken)

(* handleReady: Ping on a connection of the same pool, answered or not. *)
HandleReady(r) ==
  /\ query[r].endpoint = "ready"
  /\ pc[r] \in {"acquire", "query"}
  /\ Answer(r)
  /\ free' = free + GivenBack(r)
  /\ UNCHANGED <<runVars, dbVars>>

(* The database goes down or comes back. *)
Toggle ==
  /\ up' = ~up
  /\ UNCHANGED <<runVars, txn, order, free, pc, listVars>>

Next ==
  \/ \E c \in Runs :
       Launch(c) \/ Insert(c) \/ EndTransaction(c) \/ Enqueued(c) \/ InsertFails(c)
  \/ \E r \in Requests : Arrive(r) \/ Leave(r) \/ Acquire(r) \/ HandleList(r) \/ HandleReady(r)
  \/ Toggle

Spec == Init /\ [][Next]_vars

-----------------------------------------------------------------------------
(* Properties *)

(* Every connection is free or with a request that uses it: no way out of a
   handler keeps one, so listings and probes never run out of them for good. *)
PoolExact ==
  free + Cardinality({r \in Requests : pc[r] \in {"query", "reading"}}) = MaxConns

(* Two jobs for what an operator wanted once exist only if the run before had
   sent its INSERT and could not tell what became of it; a run that says
   "enqueued" is right. *)
JobsAccounted ==
  /\ \A c \in Runs : run[c] = "enqueued" => c \in Jobs
  /\ \A c, d \in Jobs :
       c # d /\ args[c] = args[d] => run[c] = "failed" \/ run[d] = "failed"

(* Job c began after job d. *)
Younger(c, d) ==
  \E i, j \in DOMAIN order : order[i] = c /\ order[j] = d /\ i > j

(* A listing of jobs shows jobs of the table that pass its filters, the youngest
   first, and none that is passed over for an older one; one that is not cut has
   every such job that was there when the request came, unless younger ones that
   pass the filters too use up the limit.  Jobs that commit late are listed by when
   they began, so a reader of the first rows only may never see them. *)
ListingComplete ==
  \A r \in Requests :
    pc[r] = "listed" /\ query[r].endpoint = "jobs" =>
      LET q == query[r]
          missing == {c \in known[r] : Matches(q, c)} \ ToSet(out[r])
      IN  /\ \A c \in ToSet(out[r]) : Matches(q, c)
          /\ \A c \in missing, d \in ToSet(out[r]) : Younger(d, c)
          /\ missing # {} /\ ~cut[r] => Len(out[r]) = LimitOf(q)
          /\ Len(out[r]) <= MaxLimit["jobs"]
          /\ \A i, j \in DOMAIN out[r] : i < j => Younger(out[r][i], out[r][j])

=============================================================================
