-------------------------------- MODULE MCApi --------------------------------
(* Instances of Api for TLC. *)
EXTENDS Api

CONSTANTS c1, c2

(* Two clusters, and a range that ends before it starts. *)
MCRanges == {[cluster |-> c1, start |-> 1, end |-> 1],
             [cluster |-> c2, start |-> 1, end |-> 2],
             [cluster |-> c1, start |-> 2, end |-> 1]}

Ask(endpoint, cluster, status, limit, unsupported) ==
  [endpoint |-> endpoint, cluster |-> cluster, status |-> status,
   limit |-> limit, unsupported |-> unsupported]

(* All jobs, the queued or the finished ones of a cluster, the first one; the
   watermarks; the probe; and a query that is refused for each reason. *)
MCAsked ==
  {Ask("jobs", Absent, Absent, Absent, FALSE), Ask("jobs", c1, "queued", 1, FALSE),
   Ask("jobs", c1, "done", 1, FALSE), Ask("watermarks", c1, "finalized", 1, FALSE),
   Ask("ready", Absent, Absent, Absent, FALSE),
   Ask("jobs", "not safe", Absent, Absent, FALSE), Ask("jobs", Absent, "finalized", Absent, FALSE),
   Ask("jobs", Absent, Absent, 0, FALSE), Ask("watermarks", Absent, Absent, 4, FALSE),
   Ask("jobs", Absent, Absent, Absent, TRUE)}

MCDefaultLimit == [watermarks |-> 2, jobs |-> 2]
MCMaxLimit == [watermarks |-> 3, jobs |-> 2]
MCWatermarks == <<[cluster |-> c1, status |-> "finalized"],
                  [cluster |-> c1, status |-> "processed"]>>

Symmetric == Permutations(Requests) \cup Permutations(Runs)

=============================================================================
