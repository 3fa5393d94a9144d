\* Three runs over every example and ../common.
CONSTANTS
    MaxRuns = 3
    TemplateName = "template_proj"
    ProjName = "i2c"
    LaunchNames = {"debug.launch"}
    LdFiles = {"aarch64_ram.ld", "image_in.ld"}
    NoCommon = NoCommon
    TemplateFiles <- MCTemplateFiles
    ExampleChoices <- MCExampleChoices
    CommonChoices <- MCCommonChoices

SPECIFICATION Spec

INVARIANT TypeOK
INVARIANT ExportIsFresh
INVARIANT EclipseFilesNamed
