---------------------------- MODULE WebFallback ----------------------------
(***************************************************************************)
(* A web application mounted beside API routes: who answers a path, a      *)
(* route, a file, the index document or nobody.  Paths are sequences of    *)
(* segments.                                                               *)
(***************************************************************************)
EXTENDS Integers, Sequences, SequencesExt

\* An application is [prefix, exclude, auto], exclude being the prefixes that have no index.
CONSTANTS RoutePaths, Applications, Files, URLs

\* Routes have normalized paths: no segment before the first slash is empty.
ASSUME WebAssumption ==
  /\ <<>> \notin Files /\ URLs \cup RoutePaths \subseteq Seq(STRING)
  /\ \A app \in Applications : app.prefix \in Seq(STRING) /\ <<>> \notin app.exclude
  /\ \A path \in RoutePaths : path # <<>> => path[1] # ""

VARIABLES
  added,   \* the paths of the routes, in the order they were added
  mounted  \* the application, as [routesBefore, config], or <<>>

webVars == <<added, mounted>>

WebInit == added = <<>> /\ mounted = <<>>

AddWebRoute(path) ==
  /\ \A i \in DOMAIN added : added[i] # path
  /\ added' = Append(added, path)
  /\ UNCHANGED mounted

\* Web and WebFS, through webHandler.
Web(config) ==
  /\ mounted = <<>>
  /\ mounted' = <<[config |-> config, routesBefore |-> Len(added)]>>
  /\ UNCHANGED added

WebNext == (\E path \in RoutePaths : AddWebRoute(path)) \/ (\E config \in Applications : Web(config))

WebSpec == WebInit /\ [][WebNext]_webVars

-----------------------------------------------------------------------------
FirstPathSegment(path) == IF path = <<>> THEN "" ELSE path[1]

\* Bug: the routes are those at the time the application was mounted.
WebExcludedCaptured(path, app) ==
  \/ \E ex \in app.config.exclude : IsPrefix(ex, path)
  \/ /\ app.config.auto
     /\ FirstPathSegment(path) \notin {"", FirstPathSegment(app.config.prefix)}
     /\ \E i \in 1 .. app.routesBefore : FirstPathSegment(added[i]) = FirstPathSegment(path)

\* webExcluded
WebExcluded(path, app) ==
  \/ \E ex \in app.config.exclude : IsPrefix(ex, path)
  \/ /\ app.config.auto
     /\ FirstPathSegment(path) \notin {"", FirstPathSegment(app.config.prefix)}
     /\ \E i \in DOMAIN added : FirstPathSegment(added[i]) = FirstPathSegment(path)

\* path.Clean of a rooted path: no segment leads above the root.
Clean(path) ==
  FoldLeft(LAMBDA done, s : IF s = ".." THEN (IF done = <<>> THEN done ELSE Front(done))
                            ELSE IF s \in {".", ""} THEN done ELSE Append(done, s),
           <<>>, path)

\* webHandler's handler, serveWebFile and serveWebIndex; the index document exists.
ServeWeb(path, app) ==
  LET name == Clean(SubSeq(path, Len(app.config.prefix) + 1, Len(path)))
  IN  IF WebExcluded(path, app) THEN <<"notFound">>
      ELSE IF name \in Files THEN <<"file", name>> ELSE <<"index">>

\* The router: a route first, then what is mounted on a prefix.
ServedBy(path) ==
  IF \E i \in DOMAIN added : added[i] = path THEN <<"route", path>>
  ELSE IF mounted # <<>> /\ IsPrefix(mounted[1].config.prefix, path) THEN ServeWeb(path, mounted[1])
  ELSE <<"notFound">>

(***************************************************************************)
(* Properties                                                              *)
(***************************************************************************)
\* Whatever the order in which routes and the application are registered: a client gets the
\* index document exactly for the paths of the application's own, those that lie under its
\* prefix, that no file and no route has, and whose first segment no route shares, unless it
\* is the application's; a mistaken call of the API stays a 404.  What is mounted changes no
\* answer of a route.
IndexForOwnPaths ==
  mounted # <<>> => \A path \in URLs :
    LET app == mounted[1].config
        isRoute == path \in ToSet(added)
        shared  == \E r \in ToSet(added) : r # <<>> /\ path # <<>> /\ r[1] = path[1]
        own == /\ IsPrefix(app.prefix, path) /\ ~isRoute
               /\ ~\E ex \in app.exclude : IsPrefix(ex, path)
               /\ app.auto /\ app.prefix = <<>> => ~shared
    IN  /\ isRoute <=> ServedBy(path)[1] = "route"
        /\ own <=> ServedBy(path)[1] \in {"index", "file"}
=============================================================================
