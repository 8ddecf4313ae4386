---------------------------- MODULE MediaPipeline ----------------------------
(***************************************************************************)
(* What becomes of one medium on its way through the mediator              *)
(* (core/internal/mediator/impl.go): the resolvers (ext/resolvers), the    *)
(* references they return (feed/media/ref.go), the copies in temporary     *)
(* files (core/internal/blobs/files.go) and the converters                 *)
(* (ext/converters).  Mediator has the goroutines around it.               *)
(*                                                                         *)
(* A size is a number in a scale of its own; Unknown stands for a site     *)
(* that does not declare one.  A size that is declared is the real one.    *)
(***************************************************************************)
EXTENDS Integers, Sequences

CONSTANTS
  Sizes,
  MinSize, MaxSize,          \* BlobConfig
  RemoteMax, AttachMax,      \* Telegram's limits, per type
  Converters                 \* those that are enabled, in the order of Uses

\* What may be sent by its URL may be attached, too.
SizeAssumption ==
  /\ Sizes \subseteq Nat /\ MinSize \in Nat \ {0} /\ MaxSize \in Nat \ {0}
  /\ \A t \in {"photo", "video"} :
       RemoteMax[t] \in Nat /\ AttachMax[t] \in Nat /\ RemoteMax[t] <= AttachMax[t]
ConverterAssumption == Converters \in Seq({"ffmpeg", "aconvert"})

Unknown == -1

\* The hosts the resolvers tell apart; preview.redd.it and v.redd.it are those of
\* reddit.  An imgur address is a file's or a page's.
Sources == {"gfycat", "imgurFile", "imgurPage", "2ch", "redditPreview", "redditVideo", "other"}

\* Types that Telegram shows, the one that is convertible, a web page, and others.
Types == {"photo", "video", "webm", "html", "other"}

VARIABLES
  at,       \* how far the medium has come
  source,   \* the host of its URL
  dedup,    \* Mediate got a dedupKey
  content,  \* type and size of what the reference leads to
  ref,      \* the reference: a URL, a request of a client, a file
  known,    \* the reference brings its metadata: a set of at most one
  meta,     \* what GetMeta returned
  next      \* the converter whose turn it is

vars == <<at, source, dedup, content, ref, known, meta, next>>

Init ==
  /\ at = "none" /\ source = "other" /\ dedup = FALSE
  /\ content = [type |-> "other", size |-> 0]
  /\ ref = "url" /\ known = {} /\ meta = [type |-> "other", size |-> Unknown]
  /\ next = 1

Goto(place) == at' = place

\* A vendor asks for any medium.
Mediate ==
  /\ at = "none" /\ Goto("new")
  /\ source' \in Sources /\ dedup' \in BOOLEAN
  /\ content' \in [type : Types, size : Sizes]
  /\ UNCHANGED <<ref, known, meta, next>>

Page == [type |-> "html", size |-> MaxSize - 1]

-----------------------------------------------------------------------------
(* resolve.                                                                *)

\* The condition under which Imgur.Resolve reports "not an html".
NotHTML(contentType) == contentType = "html"

\* Reference r to what is at the source, with metadata m.
ResolvedTo(r, m) ==
  /\ Goto("resolved") /\ ref' = r /\ known' = m
  /\ UNCHANGED <<source, dedup, content, meta, next>>

\* No resolver knows the source, or the one that does returns an error and no
\* reference: plain HTTP, which leads to the page that shows the medium.
ResolvedAsPage ==
  /\ Goto("resolved") /\ ref' = "url" /\ known' = {} /\ content' = Page
  /\ UNCHANGED <<source, dedup, meta, next>>

Stop(place) == Goto(place) /\ UNCHANGED <<source, dedup, content, ref, known, meta, next>>

\* The page of an imgur medium.  Imgur returns its reference in any case, so that an
\* error is final: that of the request, of a body without a link, or this one.
ResolveImgurPage ==
  /\ at = "new" /\ source = "imgurPage"
  /\ \/ Stop("failed")
     \/ \E contentType \in {"html", "other"} :
          IF NotHTML(contentType) THEN Stop("refused") ELSE ResolvedTo("url", {})

ResolveGfycat ==
  /\ at = "new" /\ source = "gfycat"
  /\ ResolvedTo("url", {}) \/ ResolvedAsPage

ResolveReddit ==
  /\ at = "new" /\ source = "redditVideo"
  /\ \/ /\ content.type = "video"
        /\ ResolvedTo("client", {[type |-> "video", size |-> 0]})
     \/ ResolvedAsPage

\* The others take the source as it is.
ResolveDirect ==
  /\ at = "new" /\ source \in {"imgurFile", "2ch", "redditPreview", "other"}
  /\ ResolvedTo(IF source \in {"2ch", "redditPreview"} THEN "client" ELSE "url", {})

-----------------------------------------------------------------------------
(* convert.                                                                *)

GetMeta ==
  /\ at = "resolved"
  /\ \/ /\ meta' \in (IF known # {} THEN known
                      ELSE {[content EXCEPT !.size = s] : s \in {content.size, Unknown}})
        /\ Goto("measured")
        /\ UNCHANGED <<source, dedup, content, ref, known, next>>
     \/ known = {} /\ Stop("failed")

\* fileRef.get: an empty file is in bounds.
InBounds(size) == size > 0 => MinSize <= size /\ size < MaxSize

\* Deduplication works on a file; the medium may be filtered out as a duplicate.
Dedup ==
  /\ at = "measured" /\ dedup
  /\ \/ /\ InBounds(content.size)
        /\ Goto("unique") /\ ref' = "file"
        /\ UNCHANGED <<source, dedup, content, known, meta, next>>
     \/ Stop("filtered")
     \/ Stop("failed")

\* Variant of the next definition: duplicates are not looked for.
NeverKeyed == TRUE
NoKey == ~dedup
\* Without a key, anything but a URL is copied to a file when it is asked for.
SkipDedup == at = "measured" /\ NoKey /\ Stop("unique")

Convertible == meta.type = "webm" /\ next \in DOMAIN Converters
HasInput == ref = "url" \/ InBounds(content.size)

\* A reference without metadata, or with those in m; it is fetched anew, without
\* deduplication.
Converted(by, r, m) ==
  /\ at = "unique" /\ Convertible /\ HasInput /\ Converters[next] = by
  /\ Goto("resolved") /\ dedup' = FALSE
  /\ ref' = r /\ known' = m
  /\ UNCHANGED <<source, meta, next>>

\* ffmpeg writes another file, which is not measured against the bounds yet.
ConvertFFmpeg ==
  \E size \in Sizes :
    /\ content' = [type |-> "video", size |-> size]
    /\ Converted("ffmpeg", "file", {content'})

\* aconvert is a site with a result at some URL.
ConvertAconvert ==
  \E size \in Sizes :
    /\ content' = [type |-> "video", size |-> size]
    /\ Converted("aconvert", "url", {})

\* An error leaves the medium to the next converter.
ConvertFails ==
  /\ at = "unique" /\ Convertible
  /\ next' = next + 1
  /\ UNCHANGED <<at, source, dedup, content, ref, known, meta>>

-----------------------------------------------------------------------------
(* mediate.                                                                *)

Supported == meta.type \in {"photo", "video"}

\* Variant of the next definition: an unknown size is taken for a small one.
AnySmall == meta.size <= RemoteMax[meta.type]
Small == meta.size > 0 /\ meta.size <= RemoteMax[meta.type]

\* The medium is small: its URL is sent, or the file it is copied to now.
SendSmall ==
  /\ at = "unique" /\ ~Convertible /\ Supported /\ Small
  /\ IF HasInput THEN Stop(IF ref = "url" THEN "sentAsURL" ELSE "sentAsFile")
                 ELSE Stop("failed")

CopyFits == InBounds(content.size) /\ content.size <= AttachMax[meta.type]

\* Otherwise it is copied unless it is too large already, and measured once more.
SendLarge ==
  /\ at = "unique" /\ ~Convertible /\ Supported /\ ~Small
  /\ IF meta.size <= AttachMax[meta.type] /\ CopyFits
       THEN /\ Goto("sentAsFile") /\ ref' = "file"
            /\ UNCHANGED <<source, dedup, content, known, meta, next>>
       ELSE Stop("failed")

Reject == at = "unique" /\ ~Convertible /\ ~Supported /\ Stop("failed")

\* A request or the disk fails.
Fail == at \in {"measured", "unique"} /\ Stop("failed")

Next ==
  \/ Mediate
  \/ ResolveImgurPage \/ ResolveGfycat \/ ResolveReddit \/ ResolveDirect
  \/ GetMeta \/ Dedup \/ SkipDedup
  \/ ConvertFFmpeg \/ ConvertAconvert \/ ConvertFails
  \/ SendSmall \/ SendLarge \/ Reject \/ Fail

Spec == Init /\ [][Next]_vars

-----------------------------------------------------------------------------
Sent == at \in {"sentAsURL", "sentAsFile"}

\* The type invariant.  What a deduplicating chat may get is the file whose hash was
\* looked up, or made from it.
TypeOK ==
  /\ at \in {"none", "new", "resolved", "measured", "unique", "sentAsURL", "sentAsFile",
             "filtered", "refused", "failed"}
  /\ source \in Sources /\ dedup \in BOOLEAN
  /\ content.type \in Types /\ content.size \in Nat
  /\ ref \in {"url", "client", "file"} /\ meta.type \in Types
  /\ meta.size \in Nat \cup {Unknown} /\ next \in 1..Len(Converters) + 1
  /\ at = "unique" /\ dedup => ref = "file"

\* What is sent is of a type that Telegram shows and within its limit for this way
\* of sending, although the size may be unknown, known to be anything (0 for
\* v.redd.it) or that of the medium before its conversion.
SentFits ==
  /\ Sent => content.type \in {"photo", "video"}
  /\ at = "sentAsURL" => content.size <= RemoteMax[content.type]
  /\ at = "sentAsFile" => content.size <= AttachMax[content.type] /\ content.size < MaxSize
=============================================================================
