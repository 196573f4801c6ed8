------------------------------ MODULE WebFetch ------------------------------
(***************************************************************************)
(* The tools that read the web (crates/jiaclaw/src/tools.rs): web_fetch    *)
(* with its redirects, its deadline and its readable text, web_search and  *)
(* http_get.                                                               *)
(*                                                                         *)
(* The web is a sequence of replies, one to each request.  A host is an    *)
(* address, public or private, or a name, for which each lookup may find   *)
(* something else; a path is its segments.  A page is a sequence of        *)
(* symbols: angle brackets, names of tags, marks of comments, words, white *)
(* space, the three parts of an entity, and the words that tell of a cut.  *)
(* Time is counted in ticks.  minreq, which is external, is taken to keep  *)
(* the time a request is given; it looks a name up again for itself, and   *)
(* what it finds then the code does not see.                               *)
(***************************************************************************)
EXTENDS Integers, Sequences, SequencesExt

CONSTANTS Tick,         \* ticks of a second
          FetchTimeout, \* WEB_FETCH_HTTP_TIMEOUT_SECS
          MaxRedirects  \* WEB_FETCH_MAX_REDIRECTS

ASSUME FetchAssumption == {Tick, FetchTimeout} \subseteq Nat \ {0} /\ MaxRedirects \in Nat

Least(S) == CHOOSE n \in S : \A k \in S : n <= k

-----------------------------------------------------------------------------
\* Requests and redirects.

NoPort == 0
MaxPort == 65535

\* parse_http_url: who the user is and where on the page is left out.
ParseUrl(raw) ==
    IF raw.scheme \notin {"http", "https"} \/ raw.host = "" \/ raw.port \notin 0 .. MaxPort
    THEN [refused |-> TRUE]
    ELSE [scheme |-> raw.scheme, host |-> raw.host, port |-> raw.port, path |-> raw.path]

Refuses(url) == "refused" \in DOMAIN url

(***************************************************************************)
(* validate_web_fetch_url.  found is what the lookup of a name finds, if   *)
(* it finds anything: an address tells its own class, and a name all of    *)
(* whose addresses are public is as good as a public address.              *)
(***************************************************************************)
HostClass(host, found) == IF host \in {"public", "private"} THEN host ELSE found

Validated(raw, found, allowPrivate) ==
    ~Refuses(ParseUrl(raw)) /\ (allowPrivate \/ HostClass(ParseUrl(raw).host, found) = "public")

\* Every request has the whole time.
RemainingSecs_Afresh(elapsed) == FetchTimeout

\* remaining_timeout_secs: whole seconds, but one at least, and none if it is over.
RemainingSecs(elapsed) ==
    LET remaining == FetchTimeout * Tick - elapsed
    IN  IF remaining <= 0 THEN 0 ELSE IF remaining < Tick THEN 1 ELSE remaining \div Tick

\* A path from the directory of the current path.
Beside(current, path) == [ParseUrl(current) EXCEPT !.path = Front(@) \o path]

(***************************************************************************)
(* resolve_redirect_location: a location names a URL, a host, a path from  *)
(* the root, or one from the directory of the current path.  A URL of      *)
(* another scheme is taken for such a path.                                *)
(***************************************************************************)
Resolve(current, location) ==
    CASE location.kind = "url" ->
            IF location.url.scheme \in {"http", "https"} THEN location.url
            ELSE Beside(current, <<location.url.scheme, location.url.host>> \o location.url.path)
      [] location.kind = "host" -> [location.url EXCEPT !.scheme = ParseUrl(current).scheme]
      [] location.kind = "root" -> [ParseUrl(current) EXCEPT !.path = location.path]
      [] location.kind = "beside" -> Beside(current, location.path)

(***************************************************************************)
(* perform_web_fetch.  asked records every request with its time and what  *)
(* the lookup for its check has found; lookup is the time that took, which *)
(* has no limit.                                                           *)
(***************************************************************************)
FetchStart(start) == [url |-> start, asked |-> <<>>, elapsed |-> 0, outcome |-> "going"]

Fails(f) == [f EXCEPT !.outcome = "failed"]

\* A request with that many seconds left, which is given up when they are over.
Requested(f, reply, secs) ==
    LET begun == f.elapsed + reply.lookup
        ended == begun + (IF reply.takes > secs * Tick THEN secs * Tick ELSE reply.takes)
        request == [url |-> f.url, found |-> reply.found, at |-> begun, until |-> ended]
    IN  [f EXCEPT !.elapsed = ended, !.asked = Append(@, request)]

\* One turn of the loop over the redirects.
FetchStep(allowPrivate, f, reply) ==
    LET secs == RemainingSecs(f.elapsed + reply.lookup)
        asked == Requested(f, reply, secs)
    IN  IF f.outcome # "going" THEN f
        ELSE IF ~Validated(f.url, reply.found, allowPrivate) \/ secs = 0 THEN Fails(f)
        ELSE IF reply.takes > secs * Tick THEN Fails(asked)
        ELSE IF reply.status = "ok" THEN [asked EXCEPT !.outcome = "ok"]
        ELSE IF reply.status = "error" \/ Len(asked.asked) > MaxRedirects
                \/ reply.location.kind = "none" THEN Fails(asked)
        ELSE [asked EXCEPT !.url = Resolve(f.url, reply.location)]

FetchRun(start, allowPrivate, replies) ==
    LET after[n \in 0 .. Len(replies)] ==
            IF n = 0 THEN FetchStart(start) ELSE FetchStep(allowPrivate, after[n - 1], replies[n])
    IN  after

Fetch(start, allowPrivate, replies) == FetchRun(start, allowPrivate, replies)[Len(replies)]

-----------------------------------------------------------------------------
\* web_search and http_get.

\* perform_brave_search: without a key nothing is asked.
Search(hasKey, status, hits, max) ==
    IF ~hasKey \/ status # "ok" THEN [failed |-> TRUE]
    ELSE [hits |-> SubSeq(hits, 1, IF Len(hits) > max THEN max ELSE Len(hits))]

Bytes(widths) ==
    LET upTo[n \in 0 .. Len(widths)] == IF n = 0 THEN 0 ELSE upTo[n - 1] + widths[n]
    IN  upTo[Len(widths)]

(***************************************************************************)
(* http_get cuts a body at a number of bytes: of a body given by the       *)
(* widths of its characters it shows the first ones, and it panics in the  *)
(* middle of one, which fails the call.                                    *)
(***************************************************************************)
HttpGet(widths, limit) ==
    LET cuts == {n \in 0 .. Len(widths) : Bytes(SubSeq(widths, 1, n)) = limit}
    IN  IF Bytes(widths) <= limit THEN [shown |-> Len(widths), cut |-> FALSE]
        ELSE IF cuts = {} THEN [failed |-> TRUE]
        ELSE [shown |-> Least(cuts), cut |-> TRUE]

-----------------------------------------------------------------------------
\* Readable text.

Whites == {"space", "newline", "return"}
Closing == [script |-> "/script", style |-> "/style", noscript |-> "/noscript", title |-> "/title", p |-> "/p"]
Slashed == {Closing[tag] : tag \in DOMAIN Closing}

At(page, i, symbols) ==
    i + Len(symbols) - 1 <= Len(page) /\ SubSeq(page, i, i + Len(symbols) - 1) = symbols
Places(page, i, symbols) == {j \in i .. Len(page) : At(page, j, symbols)}

\* Behind the next such symbols, or behind the page if there are none.
Past(page, i, symbols) ==
    IF Places(page, i, symbols) = {} THEN Len(page) + 1 ELSE Least(Places(page, i, symbols)) + Len(symbols)

\* strip_elements_with_content: up to the closing tag, or else to the end.
StripElements(page, tag) ==
    LET begins(i) == /\ At(page, i, <<"<", tag>>)
                     /\ i + 2 <= Len(page) => page[i + 2] \in Whites \cup Slashed \cup {">"}
        from[i \in 1 .. Len(page) + 1] ==
            IF i > Len(page) THEN <<>>
            ELSE IF begins(i) THEN from[Past(page, i + 2, <<"<", Closing[tag], ">">>)]
            ELSE <<page[i]>> \o from[i + 1]
    IN  from[1]

StripComments(page) ==
    LET from[i \in 1 .. Len(page) + 1] ==
            IF i > Len(page) THEN <<>>
            ELSE IF At(page, i, <<"<", "!--">>) THEN from[Past(page, i + 2, <<"--", ">">>)]
            ELSE <<page[i]>> \o from[i + 1]
    IN  from[1]

\* A tag's name begins behind white space and ends with white space or a slash.
IsBlock(tag) ==
    LET names == {i \in DOMAIN tag : tag[i] \notin Whites}
        first == Least(names)
    IN  /\ names # {} /\ tag[first] \in {"p", "/p"}
        /\ first < Len(tag) => tag[first + 1] \in Whites \cup Slashed

(***************************************************************************)
(* tags_to_text: a tag becomes a blank or a new line.  After a bracket     *)
(* that is never closed, the text since the last tag is there twice.       *)
(***************************************************************************)
TagsToText(page) ==
    LET from[i \in 1 .. Len(page) + 1] ==
            LET open == Past(page, i, <<"<">>)
                close == Past(page, open, <<">">>)
            IN  IF Places(page, i, <<"<">>) = {} THEN SubSeq(page, i, Len(page))
                ELSE IF Places(page, open, <<">">>) = {}
                THEN SubSeq(page, i, open - 2) \o SubSeq(page, i, Len(page))
                ELSE SubSeq(page, i, open - 2)
                     \o <<IF IsBlock(SubSeq(page, open, close - 2)) THEN "newline" ELSE "space">>
                     \o from[close]
    IN  from[1]

Entities == [lt |-> "<", gt |-> ">", nbsp |-> "space"]

(***************************************************************************)
(* decode_basic_entities: what is between an ampersand and the next        *)
(* semicolon, however far that is, is an entity or stays as it is.         *)
(***************************************************************************)
DecodeEntities(text) ==
    LET from[i \in 1 .. Len(text) + 1] ==
            LET end == Past(text, i, <<";">>)
                entity == SubSeq(text, i + 1, end - 2)
            IN  IF i > Len(text) THEN <<>>
                ELSE IF text[i] # "&" \/ Places(text, i, <<";">>) = {} THEN <<text[i]>> \o from[i + 1]
                ELSE IF Len(entity) = 1 /\ entity[1] \in DOMAIN Entities
                THEN <<Entities[entity[1]]>> \o from[end]
                ELSE SubSeq(text, i, end - 1) \o from[end]
    IN  from[1]

Trimmed(text) ==
    LET kept == {i \in DOMAIN text : text[i] \notin Whites}
    IN  IF kept = {} THEN <<>> ELSE SubSeq(text, Least(kept), CHOOSE n \in kept : \A k \in kept : k <= n)

\* collapse_whitespace: one blank between words, and two new lines at most
\* unless there are blanks between them.
Collapse(text) ==
    LET put(c, s) ==
            IF s \in {"newline", "return"}
            THEN [out |-> IF c.run < 2 /\ s = "newline" THEN Append(c.out, s) ELSE c.out,
                  run |-> c.run + 1, pending |-> FALSE]
            ELSE IF s = "space"
            THEN [c EXCEPT !.run = 0, !.pending = c.out # <<>> /\ Last(c.out) # "newline"]
            ELSE [out |-> (IF c.pending THEN Append(c.out, "space") ELSE c.out) \o <<s>>,
                  run |-> 0, pending |-> FALSE]
    IN  Trimmed(FoldLeft(put, [out |-> <<>>, run |-> 0, pending |-> FALSE], text).out)

\* The entities of a page are decoded before its tags are looked for.
Readable_DecodesFirst(page) ==
    Collapse(TagsToText(StripComments(StripElements(StripElements(StripElements(
        DecodeEntities(page), "script"), "style"), "noscript"))))

\* html_to_readable_text
Readable(page) ==
    Collapse(DecodeEntities(TagsToText(StripComments(
        StripElements(StripElements(StripElements(page, "script"), "style"), "noscript")))))

\* extract_html_title: the first title, wherever it is.
Title(page) ==
    LET inner == Past(page, Past(page, 1, <<"<", "title">>), <<">">>)
        ends == Places(page, inner, <<"<", "/title", ">">>)
    IN  IF Places(page, 1, <<"<", "title">>) = {} \/ ends = {} THEN <<>>
        ELSE Collapse(DecodeEntities(SubSeq(page, inner, Least(ends) - 1)))

\* The beginning of a text, up to a limit.
Beginning(text, max) == SubSeq(text, 1, IF Len(text) > max THEN max ELSE Len(text))

Marked(text) == \E i \in DOMAIN text : text[i] = "[truncated]"

(***************************************************************************)
(* format_web_fetch_output, and what perform_web_fetch makes of a body.  A *)
(* page that is not HTML is shown as it is.  told says whether a mark of a *)
(* cut is added: once, and for a body cut off only if the page shows no    *)
(* such words of its own.                                                  *)
(***************************************************************************)
FormatPage(page, html, maxSymbols, maxChars) ==
    LET read == Beginning(page, maxSymbols)
        title == IF html THEN Title(read) ELSE <<>>
        text == IF html THEN Readable(read) ELSE Trimmed(read)
        shown == Beginning(text, maxChars)
    IN  [title |-> title, text |-> shown,
         told |-> Len(text) > maxChars
                  \/ (Len(page) > maxSymbols /\ ~Marked(title) /\ ~Marked(shown))]

-----------------------------------------------------------------------------

(***************************************************************************)
(* A fetch asks no host its own check has not found to be one to ask,      *)
(* redirected or not, and whatever another check has found; it asks at     *)
(* most once more than it follows redirects; no request begins after the   *)
(* deadline or ends more than a second after it, however the time is       *)
(* spread over the redirects; and a page is the last URL's.                *)
(***************************************************************************)
FetchStaysBounded(start, allowPrivate, replies) ==
    LET f == Fetch(start, allowPrivate, replies)
    IN  /\ Len(f.asked) <= MaxRedirects + 1
        /\ \A n \in DOMAIN f.asked :
              /\ Validated(f.asked[n].url, f.asked[n].found, allowPrivate)
              /\ f.asked[n].at < FetchTimeout * Tick
              /\ f.asked[n].until <= (FetchTimeout + 1) * Tick
        /\ f.outcome = "ok" => f.url = Last(f.asked).url

(***************************************************************************)
(* web_search shows the first hits up to what was asked for, and http_get  *)
(* the beginning of a body up to its limit; both say nothing else, and     *)
(* http_get says so if it has cut the body.                                *)
(***************************************************************************)
AnswersAreBounded(hits, max, widths, limit) ==
    LET found == Search(TRUE, "ok", hits, max)
        got == HttpGet(widths, limit)
    IN  /\ Len(found.hits) <= max /\ IsPrefix(found.hits, hits)
        /\ Len(found.hits) < max => found.hits = hits
        /\ Bytes(widths) <= limit => got = [shown |-> Len(widths), cut |-> FALSE]
        /\ "cut" \in DOMAIN got =>
              Bytes(SubSeq(widths, 1, got.shown)) <= limit /\ (got.cut <=> got.shown < Len(widths))

(***************************************************************************)
(* A page of whole parts (words, white space, tags, elements, comments and *)
(* entities) shows what its parts show one by one, in order and no more:   *)
(* nothing of a script or a comment, every word once, and no tag made of   *)
(* entities; a page that is not HTML shows all of it.  What is shown is    *)
(* its beginning, and it says when it is cut.  If not all of the body is   *)
(* read, it says so, in words that may be the page's own (at the last line *)
(* of perform_web_fetch).  A part is what the page has and what it shows   *)
(* of it.                                                                  *)
(***************************************************************************)
PageShowsItsParts(parts, maxSymbols, maxChars) ==
    LET page == FlattenSeq([i \in DOMAIN parts |-> parts[i].page])
        shown == Collapse(FlattenSeq([i \in DOMAIN parts |-> parts[i].shows]))
        titles == SelectSeq(parts, LAMBDA part : part.page # <<>> /\ At(part.page, 1, <<"<", "title">>))
        out == FormatPage(page, TRUE, Len(page), maxChars)
        plain == FormatPage(page, FALSE, Len(page), maxChars)
        cut == FormatPage(page, TRUE, maxSymbols, maxChars)
    IN  /\ IsPrefix(out.text, shown)
        /\ out.told <=> out.text # shown
        /\ out.title = IF titles = <<>> THEN <<>> ELSE Collapse(titles[1].shows)
        /\ IsPrefix(plain.text, Trimmed(page)) /\ (plain.told <=> plain.text # Trimmed(page))
        /\ maxSymbols < Len(page) => cut.told \/ Marked(cut.title) \/ Marked(cut.text)
=============================================================================
