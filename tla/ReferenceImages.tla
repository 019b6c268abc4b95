--------------------------- MODULE ReferenceImages ---------------------------
(***************************************************************************)
(* The download of a task's reference images, src/dola_gateway/media.py: a *)
(* temporary directory, one image after another, each through the          *)
(* configured proxy first and directly after that, following redirects     *)
(* whose targets are resolved and judged anew.                             *)
(***************************************************************************)
EXTENDS Naturals

CONSTANTS
  MaxRefs,      \* REFERENCE_IMAGE_MAX_COUNT
  NumRoutes,    \* 2 with a proxy configured (proxy, then direct), else 1
  MaxRequests   \* requests for one image on one route

ASSUME ReferenceAssumption ==
  MaxRefs \in Nat /\ NumRoutes \in Nat \ {0} /\ MaxRequests \in Nat \ {0}

VARIABLES
  refs,     \* progress of download_reference_images()
  todo,     \* images that are not downloaded yet
  route,    \* the route in use for the current image, 1..NumRoutes
  hops,     \* redirects followed on it
  checked,  \* its URL was found to have a public address
  dir       \* the temporary directory exists

refVars == <<refs, todo, route, hops, checked, dir>>

RefTypeOK ==
  /\ refs \in {"idle", "none", "downloading", "done", "failed"}
  /\ todo \in 0..MaxRefs
  /\ route \in 1..NumRoutes
  /\ hops \in 0..MaxRequests
  /\ checked \in BOOLEAN
  /\ dir \in BOOLEAN

RefInit ==
  /\ refs = "idle"
  /\ todo = 0 /\ route = 1 /\ hops = 0
  /\ checked = FALSE
  /\ dir = FALSE

-----------------------------------------------------------------------------
(* The except block: every child and the directory are removed. *)
Abandon ==
  /\ refs' = "failed"
  /\ dir'  = FALSE
  /\ UNCHANGED <<todo, route, hops, checked>>

(* validate_reference_urls(), then mkdtemp(). *)
BeginDownload(n) ==
  /\ refs = "idle"
  /\ \/ n = 0 /\ refs' = "none" /\ UNCHANGED <<todo, dir>>
     \/ n > 0 /\ refs' = "failed" /\ UNCHANGED <<todo, dir>>
     \/ n > 0 /\ refs' = "downloading" /\ todo' = n /\ dir' = TRUE
  /\ UNCHANGED <<route, hops, checked>>

(* The URL is resolved and judged before a route is used; a refusal here   *)
(* is not an error of the route and ends the download.                     *)
OpenRoute ==
  /\ refs = "downloading" /\ ~checked
  /\ \/ /\ checked' = TRUE
        /\ hops' = 0
        /\ UNCHANGED <<refs, todo, route, dir>>
     \/ Abandon

(* last_error is kept and the next route tried, if there is one. *)
NextRoute ==
  /\ route' = route + 1
  /\ checked' = FALSE
  /\ UNCHANGED <<refs, todo, hops, dir>>
RouteFailed ==
  \/ route < NumRoutes /\ NextRoute
  \/ route = NumRoutes /\ Abandon

(* One request: a redirect to another public address, the image, or any    *)
(* failure, a redirect too many or to a refused address included.          *)
Request ==
  /\ refs = "downloading" /\ checked
  /\ \/ /\ hops + 1 < MaxRequests
        /\ hops' = hops + 1
        /\ UNCHANGED <<refs, todo, route, checked, dir>>
     \/ RouteFailed
     \/ /\ todo' = todo - 1
        /\ refs' = IF todo = 1 THEN "done" ELSE "downloading"
        /\ route' = 1
        /\ checked' = FALSE
        /\ UNCHANGED <<hops, dir>>

Fetch == OpenRoute \/ Request
=============================================================================
