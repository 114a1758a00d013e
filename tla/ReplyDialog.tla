---------------------------- MODULE ReplyDialog -----------------------------
(***************************************************************************)
(* Replying to boosts on the page (webroot/script/helipad.js): one dialog  *)
(* and one button serve all rows, while the requests they start go on when *)
(* the dialog is closed and opened for another row.  A reply is paid by    *)
(* the node (POST /api/v1/reply) or by the browser's wallet (webln), which *)
(* then has the boost marked as replied (POST /api/v1/mark_replied).  Rows *)
(* are drawn anew with what the server had read before: one by one when    *)
(* their metadata is fetched, all of them when the filter has emptied the  *)
(* list and it is asked for again.                                         *)
(***************************************************************************)
EXTENDS Integers, Sequences, FiniteSets

CONSTANTS
  Rows,          \* the boosts on the page
  Fetchable,     \* those shown with a "Fetch metadata" link instead
  MaxOpenings,   \* bound: openings of the dialog
  MaxReplies,    \* bound: replies sent
  MaxFetches     \* bound: metadata and lists asked for, together

ASSUME DialogAssumption ==
  /\ Rows # {} /\ Fetchable \subseteq Rows
  /\ {MaxOpenings, MaxReplies, MaxFetches} \subseteq Nat

VARIABLES
  button,      \* what each row offers: "fetch", "reply" or "replied"; or it is "gone"
  dialog,      \* #replyModal and #send-reply
  replies,     \* the requests so far, in the order of the clicks
  hides,       \* timers to hide the dialog
  fetches,     \* the requests for metadata and for lists so far
  paid,        \* the payments made for each row
  replySent,   \* reply_sent of each row in the database
  resolved,    \* the rows whose metadata is in the database
  (* history *)
  unstored,    \* the rows that were paid for without that being stored
  drawn        \* the request whose answer has drawn the row last (0: none)

server == <<paid, replySent, resolved, unstored>>
dialogVars == <<button, dialog, replies, hides, fetches, server, drawn>>

RenderReplyButton(replied) == IF replied THEN "replied" ELSE "reply"

(* Mutant of Offered: the list does not say what was replied to. *)
OfferedAnew(r) == IF r \in Fetchable \ resolved THEN "fetch" ELSE "reply"

(* What renderBoosts makes of a row as it is in the database. *)
Offered(r) == IF r \in Fetchable \ resolved THEN "fetch" ELSE RenderReplyButton(replySent[r])

DialogInit ==
  /\ resolved = {} /\ unstored = {}
  /\ drawn = [r \in Rows |-> 0]
  /\ button = [r \in Rows |-> IF r \in Fetchable THEN "fetch" ELSE "reply"]
  /\ dialog = [shown |-> FALSE, index |-> CHOOSE r \in Rows : TRUE,   \* none yet
               enabled |-> TRUE, opening |-> 0, stray |-> FALSE]
  /\ replies = <<>>
  /\ hides = 0
  /\ fetches = <<>>
  /\ paid = [r \in Rows |-> 0]
  /\ replySent = [r \in Rows |-> FALSE]

----------------------------------------------------------------------------
(* The dialog *)

(* show.bs.modal: the form is reset to the row, the button enabled.        *)
ShowDialog(r) ==
  /\ ~dialog.shown /\ button[r] \in {"reply", "replied"} /\ dialog.opening < MaxOpenings
  /\ dialog' = [shown |-> TRUE, index |-> r, enabled |-> TRUE,
                opening |-> dialog.opening + 1, stray |-> FALSE]
  /\ UNCHANGED <<button, replies, hides, fetches, server, drawn>>

CloseDialog ==
  /\ dialog.shown
  /\ dialog' = [dialog EXCEPT !.shown = FALSE]
  /\ UNCHANGED <<button, replies, hides, fetches, server, drawn>>

Reply(from) == [row |-> dialog.index, from |-> from, opening |-> dialog.opening, state |-> "paying"]

(* Mutant of SendReply: the button stays enabled while the wallet is asked.*)
SendReplyAgain(from) ==
  /\ dialog.shown /\ dialog.enabled /\ Len(replies) < MaxReplies
  /\ replies' = Append(replies, Reply(from))
  /\ dialog' = [dialog EXCEPT !.enabled = from = "browser"]
  /\ UNCHANGED <<button, hides, fetches, server, drawn>>

(* A click on #send-reply with a valid form.  For the wallet the data are  *)
(* taken off the row: if it is gone, there is an alert and nothing else.   *)
SendReply(from) ==
  /\ dialog.shown /\ dialog.enabled /\ Len(replies) < MaxReplies
  /\ from = "browser" => button[dialog.index] \in {"reply", "replied"}
  /\ replies' = Append(replies, Reply(from))
  /\ dialog' = [dialog EXCEPT !.enabled = FALSE]
  /\ UNCHANGED <<button, hides, fetches, server, drawn>>

(* A reply fails: an alert, and the button of whichever row the dialog is  *)
(* open for now is enabled.                                                *)
Fail(n) ==
  /\ replies' = [replies EXCEPT ![n].state = "failed"]
  /\ dialog' = [dialog EXCEPT !.enabled = TRUE,
                              !.stray = @ \/ replies[n].opening # dialog.opening]
  /\ UNCHANGED <<button, hides, fetches, drawn>>

(* resolveKeysendAddress throws, or returns nothing for what is no address.*)
AddressFails(n) ==
  /\ replies[n].from = "browser" /\ replies[n].state = "paying"
  /\ Fail(n)
  /\ UNCHANGED server

(* webln.keysend pays, or the wallet refuses.                              *)
BrowserPays(n) ==
  /\ replies[n].from = "browser" /\ replies[n].state = "paying"
  /\ \/ /\ paid' = [paid EXCEPT ![replies[n].row] = @ + 1]
        /\ replies' = [replies EXCEPT ![n].state = "marking"]
        /\ UNCHANGED <<button, dialog, hides, fetches, drawn>>
     \/ Fail(n) /\ UNCHANGED paid
  /\ UNCHANGED <<replySent, resolved, unstored>>

(* api_v1_mark_replied, whose answer may be an error or get lost.          *)
MarkReplied(n) ==
  /\ replies[n].state = "marking"
  /\ \/ /\ replySent' = [replySent EXCEPT ![replies[n].row] = TRUE]
        /\ \/ /\ replies' = [replies EXCEPT ![n].state = "answered"]
              /\ UNCHANGED <<button, dialog, hides, fetches, drawn>>
           \/ Fail(n)
     \/ Fail(n) /\ UNCHANGED replySent
  /\ UNCHANGED <<paid, resolved, unstored>>

(* api_v1_reply: the boost is sent, and its payment stored with the index  *)
(* of the boost, which may fail unnoticed; the answer is success, or lost  *)
(* on its way; or an error, before or after the boost was sent.            *)
NodePays(n) ==
  LET r == replies[n].row
  IN
  /\ replies[n].from = "node" /\ replies[n].state = "paying"
  /\ \/ /\ paid' = [paid EXCEPT ![r] = @ + 1]
        /\ \E stored \in BOOLEAN :
             /\ replySent' = [replySent EXCEPT ![r] = @ \/ stored]
             /\ unstored' = IF stored THEN unstored ELSE unstored \cup {r}
        /\ \/ /\ replies' = [replies EXCEPT ![n].state = "answered"]
              /\ UNCHANGED <<button, dialog, hides, fetches, drawn>>
           \/ Fail(n)
     \/ /\ \E sent \in {0, 1} : paid' = [paid EXCEPT ![r] = @ + sent]
        /\ Fail(n) /\ UNCHANGED <<replySent, unstored>>
  /\ UNCHANGED resolved

(* Mutant of Replied: the row is the one the dialog shows now.             *)
RepliedInDialog(n) ==
  /\ replies[n].state = "answered"
  /\ replies' = [replies EXCEPT ![n].state = "done"]
  /\ button' = [button EXCEPT ![dialog.index] = "replied"]
  /\ hides' = hides + 1
  /\ UNCHANGED <<dialog, fetches, server, drawn>>

(* The answer arrives: renderReplyButton, if the row is on the page, and   *)
(* the dialog goes in a second.                                            *)
Replied(n) ==
  /\ replies[n].state = "answered"
  /\ replies' = [replies EXCEPT ![n].state = "done"]
  /\ button' = [button EXCEPT ![replies[n].row] =
                 IF @ = "gone" THEN @ ELSE RenderReplyButton(TRUE)]
  /\ hides' = hides + 1
  /\ UNCHANGED <<dialog, fetches, server, drawn>>

(* The timer hides the dialog, for whichever row it is open.               *)
HideDialog ==
  /\ hides > 0
  /\ hides' = hides - 1
  /\ dialog' = [dialog EXCEPT !.shown = FALSE]
  /\ UNCHANGED <<button, replies, fetches, server, drawn>>

----------------------------------------------------------------------------
(* Rows drawn anew *)

(* The rows for which the page has been told that a reply went out.        *)
Told == {replies[n].row : n \in {n \in DOMAIN replies : replies[n].state = "done"}}

Ask(kind, rows) ==
  /\ Len(fetches) < MaxFetches
  /\ fetches' = Append(fetches, [kind |-> kind, rows |-> rows, state |-> "asked",
                                 as |-> [r \in Rows |-> "fetch"],   \* not read yet
                                 told |-> Told, over |-> {}])
  /\ UNCHANGED <<button, dialog, replies, hides, server, drawn>>

(* A link is not disabled by its disabled property: it can be clicked      *)
(* twice.                                                                  *)
FetchMetadata(r) == button[r] = "fetch" /\ Ask("metadata", {r})

(* The timer asks for new rows, or a list that is empty for all of it.     *)
GetBoosts == Ask("list", Rows)

(* A podcast is chosen in the filter, or the filter cleared. *)
ChangeFilter ==
  /\ \E r \in Rows : button[r] # "gone"
  /\ button' = [r \in Rows |-> "gone"]
  /\ UNCHANGED <<dialog, replies, hides, fetches, server, drawn>>

(* get_single_invoice_from_db of api_v1_fetch_metadata, whose boost, once  *)
(* it has its metadata, has a reply address; or get_boosts_from_db.        *)
ReadBoosts(f) ==
  /\ fetches[f].state = "asked"
  /\ fetches' = [fetches EXCEPT ![f].state = "read",
                   ![f].as = [r \in Rows |-> IF fetches[f].kind = "metadata"
                                             THEN RenderReplyButton(replySent[r]) ELSE Offered(r)]]
  /\ UNCHANGED <<button, dialog, replies, hides, server, drawn>>

(* update_invoice_in_db of the boost that was read. *)
UpdateInvoice(f) ==
  /\ fetches[f].kind = "metadata" /\ fetches[f].state = "read"
  /\ fetches' = [fetches EXCEPT ![f].state = "stored"]
  /\ resolved' = resolved \cup fetches[f].rows
  /\ UNCHANGED <<button, dialog, replies, hides, paid, replySent, unstored, drawn>>

(* The rows are drawn as the answer has them.  Noted are those of them the *)
(* page had been told of a reply to.                                       *)
Draw(f, rows) ==
  /\ fetches' = [fetches EXCEPT ![f].state = "done", ![f].over = rows \cap Told]
  /\ button' = [r \in Rows |-> IF r \in rows THEN fetches[f].as[r] ELSE button[r]]
  /\ drawn' = [r \in Rows |-> IF r \in rows THEN f ELSE drawn[r]]
  /\ UNCHANGED <<dialog, replies, hides, server>>

(* Mutant of MetadataFetched: the row is rendered as not replied to.       *)
MetadataRendered(f) ==
  /\ fetches[f].state = "stored"
  /\ fetches' = [fetches EXCEPT ![f].state = "done", ![f].over = fetches[f].rows \cap Told]
  /\ button' = [r \in Rows |-> IF r \in fetches[f].rows THEN "reply" ELSE button[r]]
  /\ drawn' = [r \in Rows |-> IF r \in fetches[f].rows THEN f ELSE drawn[r]]
  /\ UNCHANGED <<dialog, replies, hides, server>>

(* success removes the row, if it is still there, and renders the boost    *)
(* that came with the answer; error leaves the row alone.  The boost finds *)
(* no place while the array messageIds has rows that the filter removed.   *)
MetadataFetched(f) ==
  /\ fetches[f].state = "stored"
  /\ \/ Draw(f, fetches[f].rows)
     \/ /\ \E r \in Rows : button[r] = "gone"
        /\ fetches' = [fetches EXCEPT ![f].state = "done"]
        /\ button' = [r \in Rows |-> IF r \in fetches[f].rows THEN "gone" ELSE button[r]]
        /\ UNCHANGED <<dialog, replies, hides, server, drawn>>

MetadataFails(f) ==
  /\ fetches[f].kind = "metadata" /\ fetches[f].state \in {"asked", "read", "stored"}
  /\ fetches' = [fetches EXCEPT ![f].state = "failed"]
  /\ UNCHANGED <<button, dialog, replies, hides, server, drawn>>

(* A list renders no row that is on the page; which of the others it has   *)
(* is up to the filter, and to what messageIds holds.                      *)
ListFetched(f) ==
  /\ fetches[f].kind = "list" /\ fetches[f].state = "read"
  /\ \E rows \in SUBSET {r \in Rows : button[r] = "gone"} : Draw(f, rows)

User == \/ CloseDialog \/ ChangeFilter
        \/ \E r \in Rows : ShowDialog(r) \/ FetchMetadata(r)

Sending == \/ \E from \in {"node", "browser"} : SendReply(from)
           \/ \E n \in DOMAIN replies : \/ AddressFails(n) \/ BrowserPays(n) \/ MarkReplied(n)
                                        \/ NodePays(n) \/ Replied(n)

Fetching == \E f \in DOMAIN fetches : \/ ReadBoosts(f) \/ UpdateInvoice(f) \/ MetadataFetched(f)
                                      \/ MetadataFails(f) \/ ListFetched(f)

DialogNext == User \/ Sending \/ HideDialog \/ GetBoosts \/ Fetching

DialogSpec == DialogInit /\ [][DialogNext]_dialogVars

----------------------------------------------------------------------------
(* Properties *)

TypeOK ==
  /\ button \in [Rows -> {"fetch", "reply", "replied", "gone"}]
  /\ dialog \in [shown : BOOLEAN, index : Rows, enabled : BOOLEAN,
                 opening : 0..MaxOpenings, stray : BOOLEAN]
  /\ replies \in Seq([row : Rows, from : {"node", "browser"}, opening : 1..MaxOpenings,
                      state : {"paying", "marking", "answered", "done", "failed"}])
  /\ fetches \in Seq([kind : {"metadata", "list"}, rows : SUBSET Rows,
                      state : {"asked", "read", "stored", "done", "failed"},
                      as : [Rows -> {"fetch", "reply", "replied"}],
                      told : SUBSET Rows, over : SUBSET Rows])
  /\ hides \in Nat /\ paid \in [Rows -> Nat] /\ replySent \in [Rows -> BOOLEAN]
  /\ resolved \subseteq Rows /\ unstored \subseteq Rows
  /\ drawn \in [Rows -> 0 .. Len(fetches)]

(* A row shows "Replied" only after a reply to that very boost was paid,   *)
(* whatever the dialog has been opened for meanwhile (the click handlers   *)
(* take the index with the request); and the state has its types.          *)
RepliedWasPaid ==
  /\ TypeOK
  /\ \A r \in Rows : button[r] = "replied" \/ replySent[r] => paid[r] > 0

(* The button cannot send a second reply from one opening of the dialog    *)
(* while the first is on its way or has succeeded, except when a reply of  *)
(* an earlier opening fails just then: its error handler enables the       *)
(* button of the row the dialog is open for now.                           *)
OncePerOpening ==
  \A n \in DOMAIN replies :
    dialog.enabled /\ replies[n].opening = dialog.opening /\ replies[n].state # "failed" => dialog.stray

(* The answer that drew the row last had no reply to it, though the page   *)
(* knew of one when it came; and if the page knew when it asked, then      *)
(* because a reply was paid that the server could not store.               *)
DrawnUnreplied(r) ==
  LET answer == fetches[drawn[r]]
  IN
  /\ drawn[r] # 0
  /\ r \in answer.over /\ answer.as[r] # "replied"
  /\ r \in answer.told => r \in unstored

(* A boost a reply was paid for is shown as replied when it is shown and   *)
(* nothing is under way for it, unless the user was told that a reply of   *)
(* it failed, or the row has been drawn anew from an answer of the server  *)
(* that was under way when the reply was, or that came after a reply of    *)
(* which the server kept no record.                                        *)
PaidIsShown ==
  \A r \in Rows :
    \/ paid[r] = 0 \/ button[r] \in {"replied", "gone"}
    \/ \E n \in DOMAIN replies : replies[n].row = r /\ replies[n].state # "done"
    \/ DrawnUnreplied(r)
=============================================================================
