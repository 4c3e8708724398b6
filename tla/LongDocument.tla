----------------------------- MODULE LongDocument -----------------------------
(***************************************************************************)
(* A document with more pages than the provider parses in one synchronous  *)
(* request, providers/upstage/client.py: it is cut into chunks, each       *)
(* parsed by a request of its own (which the gateway stores on its own),   *)
(* and the responses are merged into one.  An enhanced chunk of several    *)
(* pages that is not stored yet is asked for page by page.                 *)
(*                                                                         *)
(* A chunk stands for its pages; a response for its model and the elements *)
(* it found.  An element has the number the provider gives it, the page it *)
(* counts from the first of the chunk, the number its HTML names, and -    *)
(* what the merge does not see - the place it has in the document.         *)
(***************************************************************************)
EXTENDS Naturals, Sequences, FiniteSets, SequencesExt

CONSTANTS SyncPages,     \* the pages of one request, for each mode
          LongPages,     \* the page counts of the documents
          MaxOnPage,     \* bound: elements on a page
          Models,        \* provider models a response can name
          MaxAttempts    \* bound: attempts at a document

ASSUME LongAssumption ==
    /\ SyncPages \in [DOMAIN SyncPages -> Nat \ {0}]
    /\ LongPages \subseteq Nat /\ MaxOnPage \in Nat /\ MaxAttempts \in Nat

VARIABLE long

NoLong == [at |-> "none"]

\* _pdf_chunks, from page to page (counted from 0)
PdfChunks(start, pages, limit) ==
    [i \in 1..((pages + limit - 1) \div limit) |->
        [start |-> start + (i - 1) * limit,
         count |-> Min({limit, pages - (i - 1) * limit})]]

\* The requests for one chunk of the document.
ChunkRequests(mode, chunk, stored) ==
    IF mode = "enhanced" /\ chunk.count > 1 /\ chunk \notin stored
    THEN PdfChunks(chunk.start, chunk.count, 1) ELSE <<chunk>>

LongRequests(mode, pages, stored) ==
    LET chunks == PdfChunks(0, pages, SyncPages[mode])
    IN FlattenSeq([i \in DOMAIN chunks |-> ChunkRequests(mode, chunks[i], stored)])

(* What a provider may answer: elements in reading order, numbered from 0  *)
(* or from 1, so many on each page of the request.                         *)
Elements(request, perPage, base) ==
    LET onPage(k) == [n \in 1..perPage[k] |->
                        [page |-> k, place |-> <<request.start + k, n>>]]
        found == FlattenSeq([k \in 1..request.count |-> onPage(k)])
    IN [i \in DOMAIN found |->
          [id |-> base + i - 1, html |-> base + i - 1,
           page |-> found[i].page, place |-> found[i].place]]

Answers(request, base) ==
    {[request |-> request, model |-> m, elements |-> Elements(request, perPage, base)] :
        m \in Models, perPage \in [1..request.count -> 0..MaxOnPage]}

\* Mutant: the next chunk starts at the last number, not after it.
NextElementId_Last(merged, elements) ==
    IF elements = <<>> THEN merged.nextId ELSE Max({e.id : e \in ToSet(elements)})

NextElementId(merged, elements) ==
    IF elements = <<>> THEN merged.nextId ELSE Max({e.id : e \in ToSet(elements)}) + 1

(* One response of _merge_parse_chunks: numbers move up by what has been   *)
(* numbered so far, in the HTML as well, and pages by the chunk's start.   *)
Moved(e, offset, start) ==
    [id |-> e.id + offset, html |-> e.html + offset, page |-> e.page + start,
     place |-> e.place]

MergeChunk(merged, response) ==
    LET request == response.request
        elements == merged.elements \o
            [i \in DOMAIN response.elements |->
                Moved(response.elements[i], merged.nextId, request.start)]
    IN [elements |-> elements, nextId |-> NextElementId(merged, elements),
        evidence |-> Append(merged.evidence, [first |-> request.start + 1,
                                              last |-> request.start + request.count])]

SameModel(responses) == \A r, s \in ToSet(responses) : r.model = s.model

MergeParseChunks(responses) ==
    FoldLeft(MergeChunk, [elements |-> <<>>, nextId |-> 0, evidence |-> <<>>], responses)
-----------------------------------------------------------------------------
(* Attempts at one document.  Chunks stored before may include whole ones. *)

LongInit ==
    \E mode \in DOMAIN SyncPages, pages \in LongPages, base \in {0, 1} :
        /\ pages > SyncPages[mode]
        /\ \E before \in SUBSET ToSet(PdfChunks(0, pages, SyncPages[mode])) :
             \E perPage \in [1..SyncPages[mode] -> 0..MaxOnPage], m \in Models :
               long = [at |-> "idle", mode |-> mode, pages |-> pages, base |-> base,
                       stored |-> {[request |-> c, model |-> m,
                                    elements |-> Elements(c, perPage, base)] : c \in before},
                       todo |-> <<>>, responses |-> <<>>, attempts |-> 0]

Requested(stored) == {r.request : r \in stored}

LargeBegin ==
    /\ long.at = "idle" /\ long.attempts < MaxAttempts
    /\ long' = [long EXCEPT !.at = "requests", !.attempts = @ + 1, !.responses = <<>>,
                   !.todo = LongRequests(long.mode, long.pages, Requested(long.stored))]

\* A stored response is returned, any other asked for and then stored.
LargeRequest ==
    /\ long.at = "requests" /\ long.todo # <<>>
    /\ \E answer \in IF Head(long.todo) \in Requested(long.stored)
                     THEN {r \in long.stored : r.request = Head(long.todo)}
                     ELSE Answers(Head(long.todo), long.base) :
         long' = [long EXCEPT !.todo = Tail(@), !.responses = Append(@, answer),
                              !.stored = @ \cup {answer}]

\* A request raises; what was stored before stays.
LargeRaises ==
    /\ long.at = "requests" /\ long.todo # <<>>
    /\ long' = [long EXCEPT !.at = "idle", !.todo = <<>>, !.responses = <<>>]

\* The whole document is not stored: every later call comes here again.
LargeMerge ==
    /\ long.at = "requests" /\ long.todo = <<>>
    /\ long' = [long EXCEPT !.at = IF SameModel(long.responses) THEN "merged" ELSE "refused"]

LongNext == LargeBegin \/ LargeRequest \/ LargeRaises \/ LargeMerge

LongSpec == LongInit /\ [][LongNext]_long
-----------------------------------------------------------------------------
(* What an unlimited request would have found, elements of the document in *)
(* reading order under their own pages, is what the merge returns, however *)
(* the chunks fell and whichever attempt stored them: no two elements      *)
(* share a number, HTML names the element it belongs to, and the evidence  *)
(* accounts for every page once.  No page is in two of the stored chunks,  *)
(* and none is larger than the provider takes.                             *)
LongDocumentsWhole == long # NoLong =>
    /\ \A r, s \in long.stored : r # s =>
         r.request.start + r.request.count <= s.request.start
         \/ s.request.start + s.request.count <= r.request.start
    /\ \A r \in long.stored : r.request.count \in 1..SyncPages[long.mode]
    /\ long.at = "merged" =>
         LET merged == MergeParseChunks(long.responses)
             e == merged.elements  v == merged.evidence
             places == UNION {{x.place : x \in ToSet(r.elements)} : r \in ToSet(long.responses)}
         IN /\ {x.place : x \in ToSet(e)} = places /\ Len(e) = Cardinality(places)
            /\ \A i, j \in DOMAIN e : i < j =>
                 /\ e[i].id # e[j].id
                 /\ \/ e[i].place[1] < e[j].place[1]
                    \/ e[i].place[1] = e[j].place[1] /\ e[i].place[2] < e[j].place[2]
            /\ \A x \in ToSet(e) : x.page = x.place[1] /\ x.html = x.id
            /\ v[1].first = 1 /\ v[Len(v)].last = long.pages
            /\ \A i \in 2..Len(v) : v[i].first = v[i - 1].last + 1
===============================================================================
