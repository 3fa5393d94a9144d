------------------------------ MODULE MC_GenProj ------------------------------
(***************************************************************************)
(* A template with the three renamed kinds of file and a source; two      *)
(* linker scripts present; examples that need ../common, that refer to it *)
(* without the two tested patterns, that have no makefile; an example     *)
(* with build output in ./build and ./build/obj and its own .project.     *)
(***************************************************************************)
EXTENDS GenProj

MCTemplateFiles ==
    (<<".project">> :> <<"name", "template_proj">>)
      @@ (<<".cproject">> :> <<"template_proj">>)
      @@ (<<"debug.launch">> :> <<"template_proj">>)
      @@ (<<"src", "main.c">> :> <<"template">>)

MCExampleChoices ==
    { (<<"makefile">> :> <<"../common", "/inc">>)
        @@ (<<"src", "main.c">> :> <<"app">>)
        @@ (<<".project">> :> <<"name", "other">>)
        @@ (<<"build", "app.elf">> :> <<"elf">>)
        @@ (<<"build", "obj", "main.o">> :> <<"obj">>),
      (<<"makefile">> :> <<"../common", "/src">>)
        @@ (<<"inc", "app.h">> :> <<"h">>),
      (<<"src", "main.c">> :> <<"app">>) }

MCCommonChoices == { <<"inc", "common.h">> :> <<"h">>, NoCommon }
====
