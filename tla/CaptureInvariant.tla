-------------------------- MODULE CaptureInvariant --------------------------
(***************************************************************************)
(* The inductive invariant behind CaptureLifecycle's safety properties.    *)
(* The properties speak of what is durable; whether a step keeps them      *)
(* depends on where each actor stands, which is what the parts below say.  *)
(***************************************************************************)
EXTENDS CaptureLifecycle

\* The capture has a running owner that has not committed it yet.
Pre(c) == phase[c] \in {"open", "sealing", "finishing", "indexing", "timing", "committing"}

\* The database knows the capture, by a row or by a deletion marker.
Settled(c) == c \in rows \/ c \in tombstones

\* Refs that promise bytes are backed by a finished file, and a complete one by
\* an observed end.
Backed(c, ended, refs) ==
    \A d \in Directions : refs[d] \in {"complete", "interrupted"} =>
        file[c][d] = "body" /\ (refs[d] = "complete" => d \in ended)

\* Recovery and deletion have a subject exactly while they are between steps.
Shape ==
    /\ recStep = "pick" <=> recCur = NoCapture
    /\ recCur # NoCapture => recStatus = "running" /\ recCur \in recTodo
    /\ recStatus # "running" => recTodo = {}
    /\ recTodo \subseteq journals
    /\ delStep = "none" <=> delCur = NoCapture

\* Monitor, store, recovery and deletion take turns: recovery runs on a ready
\* store before any exchange is captured, and a deletion runs either while the
\* store is being opened or while the monitor is idle and recovery is not
\* running.
Owners ==
    /\ ~up => monitor = "idle" /\ store = "closed" /\ recStatus = "idle" /\ delCur = NoCapture
    /\ up /\ store = "closed" => recStatus = "failed"
    /\ store = "resuming" => recStatus = "waiting"
    /\ recStatus \in {"running", "done"} => store = "ready"
    /\ startup \in {"ok", "capacity"} => store = "ready"
    /\ recStatus \in {"waiting", "running"} => startup = "pending" \/ monitor = "starting"
    /\ monitor \in {"running", "stopping"} => recStatus = "done"
    /\ shutdown # "none" <=> monitor = "stopping"
    /\ delCur # NoCapture =>
          \/ store = "resuming"
          \/ store = "ready" /\ monitor = "idle" /\ recStatus \notin {"waiting", "running"}

\* Nothing is known of a capture before its exchange begins.
Fresh(c) ==
    /\ entry[c] = Blank /\ stored[c] = Blank /\ writer[c] = [d \in Directions |-> "none"]
    /\ ~dirty[c] /\ admission[c] = "waiting" /\ saves[c] = 0
    /\ c \notin journals /\ ~Settled(c)

\* What a live capture's phase says of its ticket, its writers and its journal:
\* an admitted writer has a journal behind it, the journal never says more than
\* the entry in memory, and a stop misses no exchange that is still live.
LiveShape ==
    \A c \in Captures :
        /\ Live(c) => monitor \in {"running", "stopping"}
        /\ Live(c) /\ shutdown = "writes" => phase[c] # "open" /\ c \in awaited
        /\ phase[c] = "new" => Fresh(c)
        /\ dirty[c] => phase[c] \in {"open", "sealing", "indexing", "timing"}
        /\ phase[c] = "open" => entry[c].outcome = "none"
        /\ phase[c] \in {"open", "sealing", "finishing"}
              => entry[c].refs = NoRefs /\ stored[c].refs = NoRefs
        /\ Pre(c) /\ admission[c] = "granted" => c \in journals
        /\ Pre(c) => stored[c].outcome \in {"none", entry[c].outcome}
        /\ \A d \in Directions :
              /\ writer[c][d] \in {"gated", "open", "damaged", "failed"}
                    => phase[c] \in {"open", "sealing", "finishing"}
              /\ writer[c][d] = "open" => file[c][d] = "part"
              /\ Pre(c) => stored[c].refs[d] \in {"none", entry[c].refs[d]}

\* The durable evidence of one capture, and how often it was inserted.
Evidence ==
    \A c \in Captures :
        /\ \A d \in Directions : file[c][d] # "absent" => c \in journals \/ Settled(c)
        /\ Pre(c) => ~Settled(c)
        /\ phase[c] \in {"removing", "notifying"} \/ c \in notified => Settled(c)
        /\ saves[c] \in {0, 1} /\ (saves[c] = 1 => Settled(c)) /\ (c \in rows => saves[c] = 1)
        /\ job[c] # "none" => c \in tombstones
        /\ job[c] = "complete" => \A d \in Directions : file[c][d] = "absent"

\* Wherever refs are kept (writers, memory, journal, row), they are backed.
Whole ==
    \A c \in Captures :
        /\ Pre(c) => Backed(c, entry[c].ended, writer[c]) /\ Backed(c, entry[c].ended, entry[c].refs)
        /\ c \in journals /\ c \notin tombstones => Backed(c, stored[c].ended, stored[c].refs)
        /\ c \in rows /\ c \notin tombstones => Backed(c, saved[c].ended, saved[c].refs)

\* Recovery inserts only a capture the database does not know, with refs that
\* are backed and that repeat what the journal recorded.
Recovering ==
    /\ recStep \in {"expire", "request", "response", "commit"} => ~Settled(recCur)
    /\ recStep = "drop" => Settled(recCur)
    /\ recStep \in {"response", "commit"} =>
          /\ Backed(recCur, stored[recCur].ended, recRefs)
          /\ \A d \in Directions : d = "request" \/ recStep = "commit" =>
                stored[recCur].refs[d] \in {"none", recRefs[d]}
    /\ recStep \in {"expire", "request"} => recRefs = NoRefs

\* A deletion works on an unfinished job and has removed what it has passed.
Deleting ==
    /\ delCur # NoCapture => job[delCur] \in {"pending", "failed"}
    /\ delStep = "remove" => \A d \in Directions : d \in delTodo \/ file[delCur][d] = "absent"

\* The conjunction is inductive, and strong enough for every safety property
\* of CaptureLifecycle.
IInv ==
    /\ TypeOK /\ Shape /\ Owners /\ LiveShape /\ Evidence /\ Whole /\ Recovering /\ Deleting
===========================================================================
