----------------------------- MODULE TraceStore -----------------------------
(***************************************************************************)
(* What a trace writer promises about the data: every block context holds   *)
(* what its own caller recorded, a flush puts exactly that into the log,    *)
(* once, and whatever ends the run, the blocks that survive are a prefix of *)
(* the log.  A flush that is refused logs part of the context at most.      *)
(* Flushes are not counted: a context flushed before it is left goes on,    *)
(* and each later flush logs all it holds again.                            *)
(***************************************************************************)
EXTENDS Naturals, Sequences, SequencesExt

CONSTANT Unread  \* the trace is still being written

VARIABLES
  ctxs,     \* contexts in the order they were begun: what they hold, and whether
            \* they are "open", "logged" or "refused"
  log,      \* the sets of records logged, in order
  survived  \* what is left once the run has ended

storeVars == <<ctxs, log, survived>>

StoreInit == ctxs = << >> /\ log = << >> /\ survived = Unread

\* The sets in the log from place n on are disjoint parts of `whole`.
PartsOf(whole, n) ==
  /\ \A i \in n..Len(log') : log'[i] \subseteq whole
  /\ \A i, j \in n..Len(log') : i # j => log'[i] \cap log'[j] = {}

Others(c) == Len(ctxs') = Len(ctxs) /\ \A d \in 1..Len(ctxs) : d # c => ctxs'[d] = ctxs[d]

Begin ==
  /\ ctxs' = Append(ctxs, [holds |-> {}, status |-> "open"])
  /\ UNCHANGED <<log, survived>>

Record(c) ==
  /\ ctxs[c].status = "open" /\ ctxs'[c].status = "open" /\ Others(c)
  /\ UNCHANGED <<log, survived>>

Flush(c) ==
  /\ ctxs[c].status = "open"
  /\ \E s \in {"open", "logged"} : ctxs' = [ctxs EXCEPT ![c].status = s]
  /\ IsPrefix(log, log')
  /\ PartsOf(ctxs[c].holds, Len(log) + 1)
  /\ ctxs[c].holds = UNION {log'[i] : i \in Len(log) + 1..Len(log')}
  /\ UNCHANGED survived

Refuse(c) ==
  /\ ctxs[c].status = "open"
  /\ \E s \in {"open", "refused"} : ctxs' = [ctxs EXCEPT ![c].status = s]
  /\ IsPrefix(log, log')
  /\ PartsOf(ctxs[c].holds, Len(log) + 1)
  /\ UNCHANGED survived

\* A context begun, filled and flushed at once.
Write ==
  /\ Len(ctxs') = Len(ctxs) + 1 /\ IsPrefix(ctxs, ctxs') /\ IsPrefix(log, log')
  /\ ctxs'[Len(ctxs')].status = "logged"
  /\ PartsOf(ctxs'[Len(ctxs')].holds, Len(log) + 1)
  /\ ctxs'[Len(ctxs')].holds = UNION {log'[i] : i \in Len(log) + 1..Len(log')}
  /\ UNCHANGED survived

End ==
  /\ survived = Unread /\ survived' # Unread
  /\ IsPrefix(survived', log)
  /\ UNCHANGED <<ctxs, log>>

StoreNext ==
  \/ survived = Unread /\ (Begin \/ Write)
  \/ \E c \in 1..Len(ctxs) : survived = Unread /\ (Record(c) \/ Flush(c) \/ Refuse(c))
  \/ End

StoreSpec == StoreInit /\ [][StoreNext]_storeVars
=============================================================================
