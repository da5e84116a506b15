----------------------------- MODULE CaptureGraph -----------------------------
(***************************************************************************)
(* dshow_cap: a window whose menu starts and stops a camera.  The program  *)
(* holds DirectShow objects by global pointers that it never clears; an    *)
(* object lives while the program or another object has a reference to it. *)
(* The handlers run one after the other on the only thread.                *)
(***************************************************************************)
EXTENDS Integers, FiniteSets, Sequences

CONSTANTS MaxCameras  \* bound: cameras bound, in all captures together

ASSUME CaptureAssumption == MaxCameras \in Nat

Builder == <<"builder", 0>>
Graph == <<"graph", 0>>
Camera(n) == <<"camera", n>>
Renderer(n) == <<"renderer", n>>
noInterface == <<"null", 0>>

Cameras == {Camera(n) : n \in 1..MaxCameras}
Renderers == {Renderer(n) : n \in 1..MaxCameras}
ComObjects == {Builder, Graph} \cup Cameras \cup Renderers

VARIABLES pGraph, pBuild, pVideoCap, pMediaControl, pRendererFilter,
          refs,     \* the program's references to each object
          filters,  \* what was added to the graph
          menu,     \* what the program does: start, graph (both WM_CREATE),
                    \* idle, capture, exit
          cameras,  \* cameras bound so far
          stops,    \* history: how often do_stop returned
          failed,   \* history: a call of the system failed
          disorder, \* history: a capture or a stop was asked for after a stop
          dead      \* history: a call through a null or dangling pointer

pointers == <<pGraph, pBuild, pVideoCap, pMediaControl, pRendererFilter>>
cgvars == <<pointers, refs, filters, menu, cameras, stops, failed, disorder, dead>>

CgInit ==
  /\ pGraph = noInterface /\ pBuild = noInterface /\ pVideoCap = noInterface
  /\ pMediaControl = noInterface /\ pRendererFilter = noInterface
  /\ refs = [o \in ComObjects |-> 0]
  /\ filters = {}
  /\ menu = "start"
  /\ cameras = 0
  /\ stops = 0
  /\ failed = FALSE
  /\ disorder = FALSE
  /\ dead = FALSE

-----------------------------------------------------------------------------
(* The builder keeps the graph, and the graph its filters. *)
GraphAlive(r) == r[Graph] > 0 \/ r[Builder] > 0
Alive(r, o) ==
  \/ r[o] > 0
  \/ (o = Graph \/ o \in filters) /\ GraphAlive(r)

Callable(p) == p # noInterface /\ Alive(refs, p)

(* InitCaptureGraphBuilder, called for WM_CREATE: the builder, in a local  *)
(* pointer; the graph; and both pointers to the caller, or the builder is  *)
(* given back.  SetFiltergraph is taken to succeed.                        *)
Initialising(here, next) ==
  /\ menu = here /\ menu' = next
  /\ UNCHANGED <<pVideoCap, pMediaControl, pRendererFilter, filters, cameras, stops,
                 disorder, dead>>

CreateBuilder ==
  /\ Initialising("start", "graph")
  /\ refs' = [refs EXCEPT ![Builder] = 1]
  /\ UNCHANGED <<pGraph, pBuild, failed>>

CreateBuilderFails ==
  /\ Initialising("start", "idle")
  /\ failed' = TRUE
  /\ UNCHANGED <<pGraph, pBuild, refs>>

CreateGraphFailsKeeps ==
  /\ Initialising("graph", "idle")
  /\ failed' = TRUE
  /\ UNCHANGED <<pGraph, pBuild, refs>>

CreateGraphFails ==
  /\ Initialising("graph", "idle")
  /\ refs' = [refs EXCEPT ![Builder] = @ - 1]
  /\ failed' = TRUE
  /\ UNCHANGED <<pGraph, pBuild>>

CreateGraph ==
  /\ Initialising("graph", "idle")
  /\ refs' = [refs EXCEPT ![Graph] = 1]
  /\ pBuild' = Builder /\ pGraph' = Graph
  /\ UNCHANGED failed

InitCaptureGraphBuilder ==
  CreateBuilder \/ CreateBuilderFails \/ CreateGraph \/ CreateGraphFails

(* do_capture looks at every camera and takes each one whose name matches; *)
(* nothing keeps it from being asked for twice, or after a stop.           *)
do_capture ==
  /\ menu = "idle" /\ menu' = "capture"
  /\ disorder' = (disorder \/ stops > 0)
  /\ UNCHANGED <<pointers, refs, filters, cameras, stops, failed, dead>>

EndOfDevices ==
  /\ menu = "capture" /\ menu' = "idle"
  /\ UNCHANGED <<pointers, refs, filters, cameras, stops, failed, disorder, dead>>

(* select_device: the camera is bound and added to the graph; enum_cap,    *)
(* called in any case, asks the builder for the stream configuration of    *)
(* the camera, uses it unchecked and keeps it for ever.                    *)
Bind ==
  /\ menu = "capture" /\ cameras < MaxCameras
  /\ cameras' = cameras + 1
  /\ UNCHANGED <<menu, stops, disorder>>

BindFails ==
  /\ Bind
  /\ pVideoCap' = noInterface
  /\ failed' = TRUE /\ dead' = TRUE
  /\ UNCHANGED <<pGraph, pBuild, pMediaControl, pRendererFilter, refs, filters>>

NoStreamConfig ==
  /\ Bind
  /\ pVideoCap' = Camera(cameras')
  /\ refs' = [refs EXCEPT ![pVideoCap'] = 1]
  /\ failed' = (failed \/ (Callable(pGraph) /\ Callable(pBuild)))
  /\ dead' = TRUE
  /\ UNCHANGED <<pGraph, pBuild, pMediaControl, pRendererFilter, filters>>

AddFilterFails ==
  /\ Bind
  /\ Callable(pGraph) /\ Callable(pBuild)
  /\ pVideoCap' = Camera(cameras')
  /\ refs' = [refs EXCEPT ![pVideoCap'] = 2]
  /\ failed' = TRUE
  /\ UNCHANGED <<pGraph, pBuild, pMediaControl, pRendererFilter, filters, dead>>

(* start_preview and start_capture: a renderer, which may not be made and  *)
(* joins no graph, and the control of the graph.                           *)
start_capture(rendered) ==
  /\ Bind
  /\ Callable(pGraph) /\ Callable(pBuild)
  /\ pVideoCap' = Camera(cameras')
  /\ pRendererFilter' = IF rendered THEN Renderer(cameras') ELSE noInterface
  /\ pMediaControl' = pGraph
  /\ refs' = [o \in ComObjects |->
                refs[o] + CASE o = pVideoCap' -> 2
                            [] o = pRendererFilter' -> 1
                            [] o = pGraph -> 1
                            [] OTHER -> 0]
  /\ filters' = filters \cup {pVideoCap'}
  /\ failed' = (failed \/ ~rendered)
  /\ UNCHANGED <<pGraph, pBuild, dead>>

StopAll == <<pMediaControl, pGraph, pBuild, pVideoCap, pRendererFilter>>
StopForgetsControl == <<pGraph, pBuild, pVideoCap, pRendererFilter>>
StopTwice == <<pMediaControl, pGraph, pBuild, pVideoCap, pRendererFilter, pGraph>>

(* What do_stop releases, in this order.  The pointers are those of the    *)
(* latest camera; they are null if no device had the name the program      *)
(* looks for, or if it has not looked yet.                                 *)
Released == StopAll

(* The references after n calls of Release *)
After(n) == [o \in ComObjects |->
               refs[o] - Cardinality({i \in 1..n : Released[i] = o})]

do_stop ==
  /\ menu = "idle"
  /\ IF \E i \in DOMAIN Released :
          \/ Released[i] = noInterface
          \/ ~Alive(After(i - 1), Released[i])
     THEN dead' = TRUE /\ UNCHANGED <<refs, stops>>
     ELSE refs' = After(Len(Released)) /\ stops' = stops + 1 /\ UNCHANGED dead
  /\ disorder' = (disorder \/ stops > 0)
  /\ UNCHANGED <<pointers, filters, menu, cameras, failed>>

(* WM_DESTROY: the program ends as it is. *)
Exit ==
  /\ menu = "idle" /\ menu' = "exit"
  /\ UNCHANGED <<pointers, refs, filters, cameras, stops, failed, disorder, dead>>

CgNext ==
  /\ ~dead
  /\ \/ InitCaptureGraphBuilder
     \/ do_capture \/ EndOfDevices
     \/ BindFails \/ NoStreamConfig \/ AddFilterFails
     \/ \E rendered \in BOOLEAN : start_capture(rendered)
     \/ do_stop \/ Exit

CgSpec == CgInit /\ [][CgNext]_cgvars

-----------------------------------------------------------------------------
(* InitCaptureGraphBuilder gives its caller both objects or none, and the  *)
(* references it took are those behind the pointers: a builder for which   *)
(* no graph could be made is given back.                                   *)
InitAllOrNothing ==
  menu \notin {"start", "graph"} /\ cameras = 0 =>
    \/ pBuild = noInterface /\ pGraph = noInterface /\ \A o \in ComObjects : refs[o] = 0
    \/ /\ pBuild = Builder /\ pGraph = Graph
       /\ \A o \in ComObjects : refs[o] = IF o \in {Builder, Graph} THEN 1 ELSE 0

(* After capture and stop nothing is left but the camera, through the      *)
(* configuration enum_cap keeps.  Every further camera bound before the    *)
(* stop leaves its renderer and a reference to the graph.                  *)
StopFreesOneCapture ==
  stops = 1 /\ ~failed /\ ~dead =>
    /\ refs[Builder] = 0 /\ refs[Graph] = cameras - 1
    /\ \A n \in 1..cameras :
         /\ refs[Renderer(n)] = IF n = cameras THEN 0 ELSE 1
         /\ refs[Camera(n)] = IF n = cameras THEN 1 ELSE 2

(* Once a camera has been bound, capturing any number of times and then    *)
(* stopping once goes through no null or dangling pointer, unless a call   *)
(* of the system failed.  A stop with no camera bound does go through the  *)
(* null pMediaControl: so does a capture that finds no device of the name  *)
(* it looks for, followed by a stop, although no call failed.              *)
BoundUseIsSafe == dead /\ cameras > 0 => failed \/ disorder
-----------------------------------------------------------------------------
(* The inductive invariant: what the pointers are and what has been taken  *)
(* as long as no call failed.                                              *)
CgTypeOK ==
  /\ refs \in [ComObjects -> Int]
  /\ filters \subseteq Cameras
  /\ menu \in {"start", "graph", "idle", "capture", "exit"}
  /\ cameras \in 0..MaxCameras
  /\ stops \in Nat
  /\ failed \in BOOLEAN /\ disorder \in BOOLEAN /\ dead \in BOOLEAN

Sound == menu \notin {"start", "graph"} /\ ~failed /\ ~dead

(* The pointers are those of the last camera. *)
LastCamera ==
  /\ pBuild = Builder /\ pGraph = Graph
  /\ cameras > 0 => /\ pMediaControl = Graph
                    /\ pVideoCap = Camera(cameras) /\ pRendererFilter = Renderer(cameras)

Captured ==
  /\ refs[Builder] = 1 /\ refs[Graph] = 1 + cameras
  /\ \A n \in 1..MaxCameras :
       /\ refs[Camera(n)] = IF n <= cameras THEN 2 ELSE 0
       /\ refs[Renderer(n)] = IF n <= cameras THEN 1 ELSE 0

CgInv ==
  /\ CgTypeOK
  /\ menu \in {"start", "graph"} =>
       /\ pBuild = noInterface /\ pGraph = noInterface
       /\ cameras = 0 /\ stops = 0 /\ ~failed /\ ~dead
       /\ \A o \in ComObjects : refs[o] = IF menu = "graph" /\ o = Builder THEN 1 ELSE 0
  /\ cameras = 0 => stops = 0 /\ pMediaControl = noInterface
  /\ menu = "capture" /\ stops > 0 => disorder
  /\ Sound => LastCamera
  /\ Sound /\ stops = 0 => Captured
  /\ InitAllOrNothing
  /\ StopFreesOneCapture
  /\ BoundUseIsSafe
=============================================================================
