--------------------------- MODULE GithubImport ---------------------------
(***************************************************************************)
(* Imports of GitHub tarballs (internal/httpapi/github_tarball.go) of one   *)
(* repository into one workspace.  A fetch request registers a job under    *)
(* githubTarJobsMu and leaves a goroutine that downloads and imports; a     *)
(* direct import does the same work in its handler and registers a finished *)
(* job.  The registry maps job ids to job objects: a goroutine goes on with *)
(* its object whatever the registry says.                                   *)
(***************************************************************************)
EXTENDS Naturals, FiniteSets, Sequences

CONSTANTS
    FetchIds,      \* job ids of fetch requests
    DirectIds,     \* job ids that direct imports name
    Heads,         \* head commits
    Chunks,        \* the number of BulkWrite chunks of an import
    MaxJobs,       \* bound: job objects
    NoJob

ASSUME ImportBounds == Chunks \in Nat \ {0} /\ MaxJobs \in Nat /\ NoJob \notin Nat

VARIABLES
    registry,   \* githubTarJobs: job id -> the number of its object or NoJob
    jobs,       \* the objects: [id, head, status, direct, chunk, old]
    tree        \* the contents: chunk -> head it came from, and the clone marker

importVars == <<registry, jobs, tree>>

JobIds == FetchIds \cup DirectIds

ImportInit ==
    /\ registry = [j \in JobIds |-> NoJob]
    /\ jobs = <<>>
    /\ tree = [chunk |-> [i \in 1..Chunks |-> NoJob], marker |-> NoJob]

Finished == {"completed", "failed"}

(* Finished jobs are forgotten when their retention is over.                 *)
pruneGithubTarballJobsLocked ==
    [j \in JobIds |-> IF registry[j] # NoJob /\ jobs[registry[j]].old
                      THEN NoJob ELSE registry[j]]

activeBeforeImport(reg, head) ==
    {j \in JobIds : reg[j] # NoJob /\ jobs[reg[j]].head = head
                    /\ jobs[reg[j]].status \in {"queued", "fetching"}}

activeGithubTarballJobLocked(reg, head) ==
    {j \in JobIds : reg[j] # NoJob /\ jobs[reg[j]].head = head
                    /\ jobs[reg[j]].status \in {"queued", "fetching", "importing"}}

NewJob(id, head, status, direct) ==
    [id |-> id, head |-> head, status |-> status, direct |-> direct, chunk |-> 1, old |-> FALSE]

(* A known id, or a job that is busy with the same head, is the answer.      *)
handleGithubTarballFetch(id, head) ==
    LET reg == pruneGithubTarballJobsLocked
    IN  /\ Len(jobs) < MaxJobs
        /\ IF reg[id] # NoJob \/ activeGithubTarballJobLocked(reg, head) # {}
           THEN registry' = reg /\ UNCHANGED jobs
           ELSE /\ jobs' = Append(jobs, NewJob(id, head, "queued", FALSE))
                /\ registry' = [reg EXCEPT ![id] = Len(jobs) + 1]
        /\ UNCHANGED tree

(* A direct import extracts what it was sent; it is in no registry yet.      *)
handleGithubTarballImport(id, head) ==
    /\ Len(jobs) < MaxJobs
    /\ jobs' = Append(jobs, NewJob(id, head, "importing", TRUE))
    /\ UNCHANGED <<registry, tree>>

setStatus(o, status) == jobs' = [jobs EXCEPT ![o].status = status]

(* runGithubTarballFetchJob up to the import; download and extraction may    *)
(* fail.                                                                     *)
StartFetch(o) ==
    /\ jobs[o].status = "queued"
    /\ setStatus(o, "fetching")
    /\ UNCHANGED <<registry, tree>>

Fetched(o) ==
    /\ jobs[o].status = "fetching"
    /\ \E status \in {"importing", "failed"} : setStatus(o, status)
    /\ UNCHANGED <<registry, tree>>

ExtractFails(o) ==
    /\ jobs[o].status = "importing" /\ jobs[o].chunk = 1
    /\ setStatus(o, IF jobs[o].direct THEN "gone" ELSE "failed")
    /\ UNCHANGED <<registry, tree>>

(* importGithubTarballEntries: chunk by chunk; what the caller may not write *)
(* becomes an error of the summary.                                          *)
WriteChunk(o, allowed) ==
    /\ jobs[o].status = "importing" /\ jobs[o].chunk <= Chunks
    /\ tree' = IF allowed THEN [tree EXCEPT !.chunk[jobs[o].chunk] = jobs[o].head] ELSE tree
    /\ jobs' = [jobs EXCEPT ![o].chunk = @ + 1]
    /\ UNCHANGED registry

(* The clone marker, then the job's end in the registry: a fetch updates its *)
(* object, a direct import registers one.                                    *)
FinishImport(o, allowed) ==
    /\ jobs[o].status = "importing" /\ jobs[o].chunk = Chunks + 1
    /\ tree' = IF allowed THEN [tree EXCEPT !.marker = jobs[o].head] ELSE tree
    /\ setStatus(o, "completed")
    /\ registry' = IF jobs[o].direct
                   THEN [pruneGithubTarballJobsLocked EXCEPT ![jobs[o].id] = o]
                   ELSE registry

(* The retention of a finished job is over.                                  *)
AgeJob(o) ==
    /\ jobs[o].status \in Finished /\ ~jobs[o].old
    /\ jobs' = [jobs EXCEPT ![o].old = TRUE]
    /\ UNCHANGED <<registry, tree>>

ImportNext ==
    \/ \E id \in FetchIds, head \in Heads : handleGithubTarballFetch(id, head)
    \/ \E id \in DirectIds, head \in Heads : handleGithubTarballImport(id, head)
    \/ \E o \in DOMAIN jobs :
        \/ StartFetch(o) \/ Fetched(o) \/ ExtractFails(o) \/ AgeJob(o)
        \/ \E allowed \in BOOLEAN : WriteChunk(o, allowed) \/ FinishImport(o, allowed)

(* However requests for it overlap, finish, fail or are forgotten, a head is *)
(* downloaded and imported by one fetch job at a time (as long as a direct   *)
(* import does not reuse the id of a fetch that is running).                 *)
OneFetchPerHead ==
    \A o, q \in DOMAIN jobs :
        /\ ~jobs[o].direct /\ ~jobs[q].direct /\ jobs[o].head = jobs[q].head
        /\ {jobs[o].status, jobs[q].status} \subseteq {"queued", "fetching", "importing"}
        => o = q
=============================================================================
