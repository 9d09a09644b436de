------------------------------ MODULE Request ------------------------------
(***************************************************************************)
(* How a worker receives a request (networking/http/http_server.c), takes  *)
(* its query or body apart (networking/http/http_request.c), and finds the *)
(* token of the user in it (http/helper/helper.c).  strtok cuts the text   *)
(* into fields, which go into a queue; each is then cut into a key and a   *)
(* value, which go into a dictionary.  strtok keeps its place in ONE       *)
(* static variable of the process, which every worker uses, and so does    *)
(* every worker use the one table that base64 is decoded with.             *)
(*                                                                         *)
(* A step is one call of strtok, or one access to the table, and what the  *)
(* worker does by itself until the next.  A field has a key and a value,   *)
(* or no value; fields are of one length, in which the buffer is counted.  *)
(* Requests have lines that can be cut, and the Content-Type that          *)
(* extract_body asks for; the text is a body's.                            *)
(***************************************************************************)
EXTENDS Dictionary, Folds, Functions, FiniteSetsExt

CONSTANTS
  Workers,              \* threads that parse requests
  MaxKey,               \* bound: keys are 1..MaxKey, in the order of strcmp
  MaxFields,            \* bound: how many fields a text has
  MaxTotal,             \* bound: how many the texts have that are parsed at a time
  MaxTexts              \* bound: how many texts are parsed in all

ASSUME BoundsAssumption ==
  MaxKey \in Nat /\ MaxFields \in Nat /\ MaxTotal \in Nat /\ MaxTexts \in Nat

Keys  == 1..MaxKey
NoKey == 0              \* what is cut off a field without a value: none of the keys
Heads == {NoKey} \cup Keys
None == 0
Garbage == 1            \* a token that a table not filled has given

VARIABLES
  buffer,               \* each worker: request_string, on its stack: keys of fields
  sent,                 \* each worker: the keys of the fields its client has sent
  fields,               \* each worker: its queue of fields
  dict,                 \* each worker: its dictionary
  key,                  \* each worker: the key it has cut off
  token,                \* each worker: the token it found: whose, or Garbage
  pc,
  saved,                \* strtok's static pointer: the pieces that are left there
  table, filled,        \* decoding_table: who allocated it; the tables that are filled
  up,                   \* the process runs
  last,                 \* ghost: who called strtok last
  mixed,                \* ghost: workers that went on in what another had begun
  spliced,              \* ghost: workers whose buffer holds not just what was sent
  spoilt,               \* ghost: workers whose token ran on in old bytes, or was decoded
                        \* while another was filling a table
  texts                 \* how many texts have come

decoding == <<token, table, filled, spoilt>>
vars == <<buffer, sent, fields, dict, key, token, pc, saved, table, filled, up, last, mixed,
          spliced, spoilt, texts>>

(* A piece of text: a field, or a value alone, which has no "=" either; own *)
(* tells whose it is and stands for the value's text.                      *)
Field(w, k, j) == [key |-> k, own |-> <<w, j>>]
ValueOf(piece) == [piece EXCEPT !.key = NoKey]
NoField(w) == IterateLL(fields[w], 0) = NULL

Init ==
  /\ buffer = [w \in Workers |-> <<>>] /\ sent = [w \in Workers |-> <<>>]
  /\ fields = [w \in Workers |-> EmptyList]
  /\ dict = [w \in Workers |-> EmptyDictionary]
  /\ key = [w \in Workers |-> NoKey]
  /\ token = [w \in Workers |-> None]
  /\ pc = [w \in Workers |-> "idle"]
  /\ saved = <<>> /\ up = TRUE
  /\ table = None /\ filled = {}
  /\ last \in Workers /\ mixed = {} /\ spliced = {} /\ texts = 0
  /\ spoilt = {}

At(w, label) == up /\ pc[w] = label
Goto(w, label) == pc' = [pc EXCEPT ![w] = label]

(* strtok(NULL, ...) by w, which finds saved there. *)
Resume(w) ==
  /\ last' = w
  /\ mixed' = IF last = w THEN mixed ELSE mixed \cup {w}

-----------------------------------------------------------------------------
(* recv into the buffer, from a place on. *)
Stored(text, at, piece) ==
  [j \in 1..Max({Len(text), at + Len(piece)}) |->
     IF j \in at + 1..at + Len(piece) THEN piece[j - at] ELSE text[j]]

(* Seeded fault: each piece is stored at the beginning. *)
ReceivedOver(text, a, b, c) == Stored(Stored(Stored(text, 0, a), 0, b), 0, c)

(* A request may come in pieces, three here at most.  Each is stored as    *)
(* far from the beginning as the last one was long: the third begins in    *)
(* the second.  No end is written after them: what an earlier request left *)
(* further on belongs to this one.                                         *)
Received(text, a, b, c) == Stored(Stored(Stored(text, 0, a), Len(a), b), Len(b), c)

Cuts(n) == {cut \in (0..n) \X (0..n) : cut[1] <= cut[2] /\ (cut[1] = 0 => n = 0)}

(* The first recv waits for what comes; the others end after 50 ms.  What  *)
(* comes later is lost, and the last field may have lost its value with it.*)
InTime(keys) ==
  {keys} \cup UNION {{SubSeq(keys, 1, n), Append(SubSeq(keys, 1, n - 1), NoKey)} : n \in 1..Len(keys)}

(* The request is received, and its text cut up to its first field;        *)
(* without a text (a request with no body) strtok goes on where this       *)
(* worker's last call came to the end.                                     *)
Begin(w) ==
  /\ At(w, "idle")
  /\ texts < MaxTexts /\ texts' = texts + 1
  /\ \E n \in 0..MaxFields :
     /\ n + SumFunctionOnSet([v \in Workers |-> Len(sent[v])], Workers) <= MaxTotal
     /\ \E keys \in [1..n -> Heads] : \E got \in InTime(keys) : \E cut \in Cuts(Len(got)) :
          LET a == SubSeq(got, 1, cut[1])
              b == SubSeq(got, cut[1] + 1, cut[2])
              c == SubSeq(got, cut[2] + 1, Len(got))
              text == Received(buffer[w], a, b, c)
              pieces == [j \in 1..Len(text) |-> Field(w, text[j], j)]
          IN
          /\ b = <<>> => c = <<>>
          /\ sent' = [sent EXCEPT ![w] = keys]
          /\ buffer' = [buffer EXCEPT ![w] = text]
          /\ spliced' = IF got # keys \/ c # <<>> \/ Len(got) < Len(buffer[w])
                        THEN spliced \cup {w} ELSE spliced
          /\ fields' = [fields EXCEPT ![w] = IF text = <<>> THEN @ ELSE Push(@, pieces[1])]
          /\ saved' = IF text = <<>> THEN <<>> ELSE Tail(pieces)
  /\ last' = w
  /\ Goto(w, "split")
  /\ UNCHANGED <<dict, key, up, mixed, decoding>>

(* strtok(NULL, "&") *)
Split(w) ==
  /\ At(w, "split")
  /\ IF saved = <<>>
     THEN Goto(w, "key") /\ UNCHANGED <<fields, saved>>
     ELSE /\ fields' = [fields EXCEPT ![w] = Push(@, Head(saved))]
          /\ saved' = Tail(saved)
          /\ UNCHANGED pc
  /\ Resume(w)
  /\ UNCHANGED <<buffer, sent, dict, key, up, spliced, texts, decoding>>

(* strtok(field, "="): what follows the key is left, and of a field        *)
(* without a value nothing.                                                *)
CutKey(w) ==
  LET field == Peek(fields[w]) IN
  /\ At(w, "key") /\ ~NoField(w)
  /\ key' = [key EXCEPT ![w] = field.key]
  /\ saved' = IF field.key = NoKey THEN <<>> ELSE <<ValueOf(field)>>
  /\ last' = w
  /\ Goto(w, "value")
  /\ UNCHANGED <<buffer, sent, fields, dict, up, mixed, spliced, texts, decoding>>

(* strtok(NULL, "\0"): all that is left is the value, and if nothing is,   *)
(* value[0] ends the process.                                              *)
CutValue(w) ==
  /\ At(w, "value")
  /\ IF saved = <<>>
     THEN up' = FALSE /\ UNCHANGED <<fields, dict, key, saved, pc>>
     ELSE /\ dict' = [dict EXCEPT ![w] = InsertDict(@, key[w], Head(saved).own)]
          /\ fields' = [fields EXCEPT ![w] = Pop(@)]
          /\ key' = [key EXCEPT ![w] = NoKey]
          /\ saved' = <<>>
          /\ Goto(w, "key")
          /\ UNCHANGED up
  /\ Resume(w)
  /\ UNCHANGED <<buffer, sent, spliced, texts, decoding>>

(* The queue is empty, and its destructor called; the handler has its      *)
(* dictionary.                                                             *)
Parsed(w) ==
  /\ At(w, "key") /\ NoField(w)
  /\ fields' = [fields EXCEPT ![w] = DestructLL(@)]
  /\ Goto(w, "parsed")
  /\ UNCHANGED <<buffer, sent, dict, key, saved, up, last, mixed, spliced, texts, decoding>>

-----------------------------------------------------------------------------
(* get_user_from_request and base64_decode, in handlers that ask for the   *)
(* user.                                                                   *)

parsing == <<buffer, sent, fields, dict, key, up, spliced, texts>>

(* strtok(auth_header, " "): "Basic" is cut off and the token left. *)
CutType(w) ==
  /\ At(w, "parsed")
  /\ saved' = <<Field(w, NoKey, 0)>>
  /\ last' = w
  /\ Goto(w, "token")
  /\ UNCHANGED <<parsing, decoding, mixed>>

(* strtok(NULL, "\0"); without a token the answer is 401.  The header was  *)
(* copied without its end: bytes that the heap held before may follow.     *)
CutToken(w) ==
  /\ At(w, "token")
  /\ IF saved = <<>>
     THEN Goto(w, "done") /\ UNCHANGED <<token, spoilt>>
     ELSE /\ \/ token' = [token EXCEPT ![w] = Head(saved).own] /\ UNCHANGED spoilt
             \/ token' = [token EXCEPT ![w] = Garbage] /\ spoilt' = spoilt \cup {w}
          /\ Goto(w, "decode")
  /\ saved' = <<>>
  /\ Resume(w)
  /\ UNCHANGED <<parsing, table, filled>>

(* Whoever finds no table builds one. *)
TestTable(w) ==
  /\ At(w, "decode")
  /\ Goto(w, IF table = None THEN "build" ELSE "use")
  /\ UNCHANGED <<parsing, decoding, saved, last, mixed>>

(* malloc: the table can be seen before anything is in it. *)
BuildTable(w) ==
  /\ At(w, "build")
  /\ table' = w
  /\ Goto(w, "fill")
  /\ UNCHANGED <<parsing, token, filled, spoilt, saved, last, mixed>>

(* The loop fills the table that the pointer leads to.                     *)
FillTable(w) ==
  /\ At(w, "fill")
  /\ filled' = filled \cup {table}
  /\ Goto(w, "use")
  /\ UNCHANGED <<parsing, token, table, spoilt, saved, last, mixed>>

Decode(w) ==
  /\ At(w, "use")
  /\ token' = [token EXCEPT ![w] = IF table \in filled THEN @ ELSE Garbage]
  /\ spoilt' = IF \E v \in Workers : pc[v] = "fill" THEN spoilt \cup {w} ELSE spoilt
  /\ Goto(w, "decoded")
  /\ UNCHANGED <<parsing, table, filled, saved, last, mixed>>

(* The request is answered and destructed; the key cells that the          *)
(* destructor of the list leaves behind (DestructLL) nothing points to.    *)
Answer(w) ==
  /\ At(w, "parsed") \/ At(w, "decoded") \/ At(w, "done")
  /\ sent' = [sent EXCEPT ![w] = <<>>]
  /\ dict' = [dict EXCEPT ![w] = EmptyDictionary]
  /\ token' = [token EXCEPT ![w] = None]
  /\ mixed' = mixed \ {w} /\ spliced' = spliced \ {w} /\ spoilt' = spoilt \ {w}
  /\ Goto(w, "idle")
  /\ UNCHANGED <<buffer, fields, key, saved, up, last, texts, table, filled>>

Next ==
  \E w \in Workers :
    \/ Begin(w) \/ Split(w) \/ CutKey(w) \/ CutValue(w) \/ Parsed(w)
    \/ CutType(w) \/ CutToken(w)
    \/ TestTable(w) \/ BuildTable(w) \/ FillTable(w) \/ Decode(w)
    \/ Answer(w)

Spec == Init /\ [][Next]_vars

-----------------------------------------------------------------------------
Owners == Workers \X (0..MaxFields)
Pieces == [key : Heads, own : Owners]
Labels == {"idle", "split", "key", "value", "parsed", "token", "decode", "build", "fill",
           "use", "decoded", "done"}

(* Every variable holds what the code can put there; every list is a chain *)
(* of length nodes that ends with NULL, and no cell is out of reach,       *)
(* whatever the texts and however the workers disturb each other.          *)
TypeOK ==
  /\ buffer \in [Workers -> Seq(Heads)] /\ sent \in [Workers -> Seq(Heads)]
  /\ key \in [Workers -> Heads]
  /\ pc \in [Workers -> Labels]
  /\ \A w \in Workers :
       /\ WellFormed(fields[w]) /\ Items(fields[w]) \in Seq(Pieces)
       /\ WellFormed(dict[w].keys) /\ Items(dict[w].keys) \in Seq(Heads)
       /\ \A c \in DOMAIN dict[w].bst.nodes : dict[w].bst.nodes[c].value \in Owners
  /\ saved \in Seq(Pieces) /\ up \in BOOLEAN
  /\ filled \subseteq Workers
  /\ last \in Workers /\ mixed \subseteq Workers /\ texts \in 0..MaxTexts

First(w, k) ==
  LET at == {j \in 1..Len(sent[w]) : sent[w][j] = k}
  IN IF at = {} THEN NoValue ELSE <<w, CHOOSE j \in at : \A i \in at : j <= i>>

(* Unless another worker called strtok between two of its calls, or the    *)
(* request came late, in three pieces or shorter than one before, a        *)
(* request has exactly the keys its client sent: each found in the tree    *)
(* with the value it came with first, and visited as often as it was       *)
(* given.  The token is its own, unless the heap's old bytes follow it or  *)
(* another worker was filling the table when it was decoded.  Where fields *)
(* are cut, the process dies only of a worker whose own buffer has a field *)
(* without a value, or that went on in the text of another.                *)
UndisturbedParse ==
  /\ \A w \in Workers \ (mixed \cup spliced) : pc[w] = "parsed" =>
       /\ \A k \in Heads : SearchDict(dict[w], k) = First(w, k)
       /\ IterateDict(dict[w]) = [j \in 1..Len(sent[w]) |-> <<sent[w][j], First(w, sent[w][j])>>]
  /\ \A w \in Workers \ (mixed \cup spoilt) : pc[w] = "decoded" => token[w] = <<w, 0>>
  /\ ~up => \E w \in Workers : pc[w] = "value" /\ (w \in mixed \/ NoKey \in Range(buffer[w]))

(* As long as a request lives, an entry of its dictionary is found again   *)
(* with the same value: no later insert hides or changes it, in whatever   *)
(* order the keys come.                                                    *)
EntriesStay ==
  [][\A w \in Workers : pc'[w] # "idle" =>
       \A k \in Heads :
         SearchDict(dict[w], k) # NoValue => SearchDict(dict'[w], k) = SearchDict(dict[w], k)]_vars
=============================================================================
