-------------------------------- MODULE Previews --------------------------------
(***************************************************************************)
(* One card's preview: the document its draft builds settles once typing   *)
(* stops, its figures' bytes are fetched, and the typeset service sets     *)
(* it.  Images and renders are queries of a cache: asked for by the        *)
(* effects of the render that first names them, kept for ever once         *)
(* answered, and asked for again when one that was refused is named anew.  *)
(*                                                                         *)
(* source: lib/queries/typeset.ts, lib/debounce.ts, lib/typeset.ts and     *)
(* components/papers/FragmentView.tsx of the frontend                      *)
(***************************************************************************)
EXTENDS FiniteSets

CONSTANTS
    Body,      \* documents a draft may build
    NoBody,    \* while it builds none
    Figure,    \* names of images
    FigureOf   \* those each document names

ASSUME PreviewsAssumption == NoBody \notin Body /\ FigureOf \in [Body -> SUBSET Figure]

VARIABLES
    want,       \* what the draft builds now
    settled,    \* what it built when it last stood still
    image,      \* the query of each image,
    mounted,    \* those the card watches,
    render,     \* the query of each request for a render,
    observing,  \* the request it watches,
    last,       \* and the one whose pages it last had
    refused     \* history: the images ever refused

previewVars == <<want, settled, image, mounted, render, observing, last, refused>>

Query == {"idle", "loading", "there", "refused"}
\* A document sent with all its figures but those left out.
Request == {request \in [body : Body, without : SUBSET Figure] :
              request.without \subseteq FigureOf[request.body]}
NoRequest == [body |-> NoBody, without |-> {}]

PreviewsTypeOK ==
    /\ want \in Body \cup {NoBody} /\ settled \in Body \cup {NoBody}
    /\ image \in [Figure -> Query] /\ mounted \subseteq Figure
    /\ render \in [Request -> Query]
    /\ observing \in Request \cup {NoRequest} /\ last \in Request \cup {NoRequest}
    /\ refused \subseteq Figure

PreviewsInit ==
    /\ want \in Body \cup {NoBody} /\ settled = want
    /\ image = [f \in Figure |-> "idle"] /\ mounted = {}
    /\ render = [r \in Request |-> "idle"]
    /\ observing = NoRequest /\ last = NoRequest
    /\ refused = {}

Names == IF settled = NoBody THEN {} ELSE FigureOf[settled]

AnsweredUnlessLoading(f) == image[f] # "loading"
AnsweredIfThere(f) == image[f] = "there"
\* An image that is fetched is there or could not be; one not yet started is neither.
Answered(f) == image[f] \in {"there", "refused"}

\* What the card sends: nothing until every image is answered, then the document without
\* the figures that have none.
RenderAssets ==
    IF settled # NoBody /\ \A f \in Names : Answered(f)
    THEN [body |-> settled, without |-> {f \in Names : image[f] # "there"}]
    ELSE NoRequest

\* The tutor edits.
Retype ==
    /\ \E body \in Body \cup {NoBody} : body # want /\ want' = body
    /\ UNCHANGED <<settled, image, mounted, render, observing, last, refused>>

\* The timer, which every edit starts again, runs out.
Settle ==
    /\ settled # want
    /\ settled' = want
    /\ UNCHANGED <<want, image, mounted, render, observing, last, refused>>

Started(query) == IF query \in {"idle", "refused"} THEN "loading" ELSE query

\* The effects of a render: queries named for the first time are asked for.
Mount ==
    LET request == RenderAssets IN
    /\ mounted # Names \/ observing # request
    /\ image' = [f \in Figure |-> IF f \in Names \ mounted THEN Started(image[f]) ELSE image[f]]
    /\ mounted' = Names
    /\ observing' = request
    /\ render' = [r \in Request |->
                    IF r = request /\ r # observing THEN Started(render[r]) ELSE render[r]]
    /\ last' = IF request # NoRequest /\ render[request] = "there" THEN request ELSE last
    /\ UNCHANGED <<want, settled, refused>>

FetchImage(f) ==
    /\ image[f] = "loading"
    /\ \/ image' = [image EXCEPT ![f] = "there"] /\ UNCHANGED refused
       \/ image' = [image EXCEPT ![f] = "refused"] /\ refused' = refused \cup {f}
    /\ UNCHANGED <<want, settled, mounted, render, observing, last>>

\* A render comes back as pages, or as why there are none.
RenderTypst(r) ==
    /\ render[r] = "loading"
    /\ \/ /\ render' = [render EXCEPT ![r] = "there"]
          /\ last' = IF r = observing THEN r ELSE last
       \/ render' = [render EXCEPT ![r] = "refused"] /\ UNCHANGED last
    /\ UNCHANGED <<want, settled, image, mounted, observing, refused>>

\* What the card shows: nothing to set; the pages asked for, or that there are none; or,
\* while it waits, the pages it last had.
FragmentView ==
    IF settled = NoBody THEN [of |-> NoRequest, as |-> "empty"]
    ELSE IF observing # NoRequest /\ render[observing] = "refused"
    THEN [of |-> observing, as |-> "problem"]
    ELSE [of |-> last, as |-> IF last = observing /\ last # NoRequest THEN "pages" ELSE "waiting"]

PreviewsNext ==
    Retype \/ Settle \/ Mount \/ (\E f \in Figure : FetchImage(f)) \/ (\E r \in Request : RenderTypst(r))

-------------------------------------------------------------------------------
(***************************************************************************)
(* Properties.                                                             *)
(***************************************************************************)

\* A figure is left out of what is sent only where its image could not be fetched, never
\* because it had not been yet.
FiguresAreAwaited ==
    \A r \in Request : render[r] # "idle" => r.without \subseteq refused

\* Once the tutor stops typing the card comes to show what the draft builds: the pages of
\* it, or that there are none.
PreviewCatchesUp ==
    \A body \in Body \cup {NoBody} :
        want = body
            ~> \/ want # body
               \/ FragmentView.as \in {"pages", "problem"} /\ FragmentView.of.body = body
               \/ FragmentView.as = "empty" /\ body = NoBody
===============================================================================
