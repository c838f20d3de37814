------------------------------ MODULE BotWorker ------------------------------
(***************************************************************************)
(* The credential pool (tgc.BotWorker): per channel, a list of bot tokens  *)
(* and a round-robin cursor.  UploadFile calls worker.Set(tokens, channel) *)
(* and then worker.Next(channel) (upload.go lines 154-155); each of the    *)
(* two calls holds the worker's mutex, so each is atomic.  The worker's    *)
(* code lives in internal/tgc, which is not part of this repository: the   *)
(* operators below follow the spec (section 4.1): Set stores the list of   *)
(* a channel it has not seen and leaves a known channel alone, Next        *)
(* returns the cursor's token and advances the cursor, wrapping at the     *)
(* list's length.                                                          *)
(***************************************************************************)
EXTENDS Naturals, Sequences

CONSTANTS
    Channels,   \* channel ids
    Tokens      \* bot tokens

VARIABLE
    worker      \* worker[ch] = [bots |-> token list, idx |-> cursor]

Unset == [bots |-> <<>>, idx |-> 0]

WorkerInit == worker = [ch \in Channels |-> Unset]

(* worker.Set(bots, ch): the state after the call.                          *)
AfterSet(w, toks, ch) ==
    IF w[ch].bots = <<>>
    THEN [w EXCEPT ![ch] = [bots |-> toks, idx |-> 0]]
    ELSE w

(* worker.Next(ch): the index it returns (0-based, as in Go).               *)
Pick(w, ch) == w[ch].idx

(* Mutant: Next advances the cursor without wrapping it.                    *)
AfterNextNoWrap(w, ch) == [w EXCEPT ![ch].idx = w[ch].idx + 1]

(* worker.Next(ch): the state after the call.                               *)
AfterNext(w, ch) ==
    [w EXCEPT ![ch].idx = (w[ch].idx + 1) % Len(w[ch].bots)]

=============================================================================
