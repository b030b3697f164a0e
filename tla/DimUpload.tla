----------------------------- MODULE DimUpload -----------------------------
(* The validator's upload handler (hazop/s1_dim/app.py, upload) and the      *)
(* extraction pipeline it runs (pipeline.py, run), with what they share      *)
(* while several requests are served: the working directory of the process,  *)
(* which the stages' relative paths resolve against, and the globals of      *)
(* build_viewer. A file is the set of the uploads whose drawing it shows,    *)
(* {} where there is none.                                                   *)
EXTENDS Naturals, FiniteSets

CONSTANTS Uploads,      \* POST /upload requests
          FileName,     \* the sanitised name each one carries
          Base,         \* where the server was started: no output/ in it
          MaxClock,     \* bound: seconds that pass
          MaxInFlight   \* uploads served at the same time

Names == {FileName[u] : u \in Uploads}
Dirs  == (0..MaxClock) \X Names       \* a slug: the second, and the name

ASSUME UploadAssumption ==
    /\ MaxClock \in Nat /\ MaxInFlight \in Nat
    /\ DOMAIN FileName = Uploads
    /\ Base \notin Dirs

VARIABLES clock,
          cwd,       \* the working directory of the process
          global,    \* BV.PDF_PATH
          files,     \* the files of each run directory
          step,      \* how far each upload has come
          slug,      \* its run directory
          home,      \* the cwd it saved, to be restored in finally
          pdf,       \* its pdf_path
          shows,     \* whose drawing the document it has open is
          result

local  == <<step, slug, home, pdf, shows, result>>
dimVars == <<clock, cwd, global, files, local>>

Kinds  == {"source", "normalized", "calibration", "compat", "index", "graph",
           "topology", "viewer"}
Paths  == Dirs \X {"source", "normalized"}
Nowhere == <<Base, "source">>

Steps == {"idle", "saved", "captured", "entered", "unscaled", "scaled",
           "calibrated", "opened", "supported", "indexed", "traced", "vision", "assembled", "pointed",
           "unwinding", "over"}
Inside == Steps \ {"idle", "saved", "captured", "over"}   \* of the try block

DimTypeOK ==
    /\ clock \in 0..MaxClock
    /\ cwd \in Dirs \cup {Base}
    /\ global \in Paths \cup {Nowhere}
    /\ files \in [Dirs -> [Kinds -> SUBSET Uploads]]
    /\ step \in [Uploads -> Steps]
    /\ slug \in [Uploads -> Dirs \cup {Base}]
    /\ home \in [Uploads -> Dirs \cup {Base}]
    /\ pdf \in [Uploads -> Paths \cup {Nowhere}]
    /\ shows \in [Uploads -> SUBSET Uploads]
    /\ result \in [Uploads -> {"none", "viewer", "error"}]

DimInit ==
    /\ clock = 0
    /\ cwd = Base
    /\ global = Nowhere
    /\ files = [d \in Dirs |-> [k \in Kinds |-> {}]]
    /\ step = [u \in Uploads |-> "idle"]
    /\ slug = [u \in Uploads |-> Base]
    /\ home = [u \in Uploads |-> Base]
    /\ pdf = [u \in Uploads |-> Nowhere]
    /\ shows = [u \in Uploads |-> {}]
    /\ result = [u \in Uploads |-> "none"]

InFlight == {u \in Uploads : step[u] \notin {"idle", "over"}}

Content(path) == files[path[1]][path[2]]

Advance(u, s) == step' = [step EXCEPT ![u] = s]

----------------------------------------------------------------------------
(* upload().                                                                 *)

Tick ==
    /\ clock < MaxClock
    /\ clock' = clock + 1
    /\ UNCHANGED <<cwd, global, files, local>>

\* makedirs has exist_ok, so a slug already there is taken over.
Save(u) ==
    /\ step[u] = "idle"
    /\ Cardinality(InFlight) < MaxInFlight
    /\ LET dir == <<clock, FileName[u]>>
       IN  /\ slug' = [slug EXCEPT ![u] = dir]
           /\ pdf' = [pdf EXCEPT ![u] = <<dir, "source">>]
           /\ files' = [files EXCEPT ![dir]["source"] = {u}]
    /\ Advance(u, "saved")
    /\ UNCHANGED <<clock, cwd, global, home, shows, result>>

----------------------------------------------------------------------------
(* run(): into the run directory, and out of it again.                       *)

Capture(u) ==
    /\ step[u] = "saved"
    /\ home' = [home EXCEPT ![u] = cwd]
    /\ Advance(u, "captured")
    /\ UNCHANGED <<clock, cwd, global, files, slug, pdf, shows, result>>

Enter(u) ==
    /\ step[u] = "captured"
    /\ cwd' = slug[u]
    /\ Advance(u, "entered")
    /\ UNCHANGED <<clock, global, files, slug, home, pdf, shows, result>>

Leave(u, r) ==
    /\ cwd' = home[u]
    /\ result' = [result EXCEPT ![u] = r]
    /\ Advance(u, "over")
    /\ UNCHANGED <<clock, global, files, slug, home, pdf, shows>>

\* Mutant of Fail: the chdir back is not in a finally clause.
FailStays(u) ==
    /\ step[u] \in Inside
    /\ result' = [result EXCEPT ![u] = "error"]
    /\ Advance(u, "over")
    /\ UNCHANGED <<clock, cwd, global, files, slug, home, pdf, shows>>

\* A step that raises, for whatever reason: the file it needs is not there,
\* or it fails on this drawing.
Fail(u) ==
    /\ step[u] \in Inside
    /\ Leave(u, "error")

----------------------------------------------------------------------------
(* run(): the stages. Each writes below the working directory of the moment. *)

Write(kind, content) ==
    /\ cwd # Base
    /\ files' = [files EXCEPT ![cwd][kind] = content]

Step(u, from, to) ==
    /\ step[u] = from
    /\ Advance(u, to)
    /\ UNCHANGED <<clock, cwd, slug, home, result>>

\* NP.normalize: a drawing of foreign scale is rewritten at reference scale.
Normalize(u, how) ==
    /\ Step(u, "entered", how)
    /\ \/ how = "scaled" /\ Write("normalized", Content(pdf[u]))
       \/ (how = "unscaled" \/ cwd = Base) /\ UNCHANGED files
    /\ UNCHANGED <<global, pdf, shows>>

\* abspath("normalized.pdf") resolves against the working directory, too.
Calibrate(u) ==
    /\ \E how \in {"unscaled", "scaled"} :
          /\ Step(u, how, "calibrated")
          /\ pdf' = IF how = "scaled"
                    THEN [pdf EXCEPT ![u] = <<cwd, "normalized">>] ELSE pdf
    /\ Write("calibration", Content(pdf[u]))
    /\ UNCHANGED <<global, shows>>

Open(u) ==
    /\ Step(u, "calibrated", "opened")
    /\ Content(pdf[u]) # {}
    /\ shows' = [shows EXCEPT ![u] = Content(pdf[u])]
    /\ UNCHANGED <<global, files, pdf>>

\* The compatibility gate: supported, or unsupported and the DiagEx fallback
\* is available. (Refused is Fail.)
Gate(u, route) ==
    /\ Step(u, "opened", route)
    /\ Write("compat", shows[u])
    /\ UNCHANGED <<global, pdf, shows>>

Index(u) ==
    /\ Step(u, "supported", "indexed")
    /\ Write("index", shows[u])
    /\ UNCHANGED <<global, pdf, shows>>

Trace(u) ==
    /\ Step(u, "indexed", "traced")
    /\ Write("graph", shows[u])
    /\ UNCHANGED <<global, pdf, shows>>

\* AG.assemble reads the traced graph back from disk.
Assemble(u) ==
    /\ Step(u, "traced", "assembled")
    /\ cwd # Base
    /\ files[cwd]["graph"] # {}
    /\ Write("topology", shows[u] \cup files[cwd]["graph"])
    /\ UNCHANGED <<global, pdf, shows>>

\* DF.run_fallback.
Fallback(u) ==
    /\ Step(u, "vision", "assembled")
    /\ Write("topology", shows[u])
    /\ UNCHANGED <<global, pdf, shows>>

\* Mutant of PointViewer: the global is set once.
PointViewerOnce(u) ==
    /\ Step(u, "assembled", "pointed")
    /\ global' = IF global = Nowhere THEN pdf[u] ELSE global
    /\ UNCHANGED <<files, pdf, shows>>

PointViewer(u) ==
    /\ Step(u, "assembled", "pointed")
    /\ global' = pdf[u]
    /\ UNCHANGED <<files, pdf, shows>>

\* BV.build: page images from the global path, overlay and verdict from disk.
BuildViewer(u) ==
    /\ Step(u, "pointed", "unwinding")
    /\ cwd # Base
    /\ files[cwd]["topology"] # {}
    /\ Write("viewer", Content(global) \cup files[cwd]["topology"]
                                       \cup files[cwd]["compat"])
    /\ UNCHANGED <<global, pdf, shows>>

Restore(u) ==
    /\ step[u] = "unwinding"
    /\ Leave(u, "viewer")

Handler(u) ==
    \/ Capture(u) \/ Enter(u)
    \/ \E how \in {"unscaled", "scaled"} : Normalize(u, how)
    \/ Calibrate(u) \/ Open(u)
    \/ \E route \in {"supported", "vision"} : Gate(u, route)
    \/ Index(u) \/ Trace(u) \/ Assemble(u) \/ Fallback(u)
    \/ PointViewer(u) \/ BuildViewer(u) \/ Restore(u) \/ Fail(u)

DimNext == Tick \/ \E u \in Uploads : Save(u) \/ Handler(u)

DimSpec == DimInit /\ [][DimNext]_dimVars

----------------------------------------------------------------------------
(* Properties.                                                               *)

\* Nothing of another drawing ever gets into an upload's run directory, and
\* the viewer it is redirected to shows its own, page images, topology and
\* verdict alike (comment in upload: "Each upload becomes an isolated run
\* directory under runs/").
Isolated ==
    \A u \in Uploads : step[u] # "idle" =>
        /\ \A k \in Kinds : files[slug[u]][k] \subseteq {u}
        /\ result[u] = "viewer" => files[slug[u]]["viewer"] = {u}

\* The relative paths of an upload's stages resolve in its run directory from
\* chdir to the end of the try block (docstring of diagex_fallback.py: "All
\* functions that touch disk assume cwd == run_dir"); and with no upload being
\* served the process is back in the directory it was started in, however the
\* uploads ended (comment in run: "restored in finally").
WorksInPlace ==
    /\ \A u \in Uploads : step[u] \in Inside => cwd = slug[u]
    /\ InFlight = {} => cwd = Base
=============================================================================
