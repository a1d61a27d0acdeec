-------------------------- MODULE MCPipelineEngine --------------------------
(* Every supported application type and deploy mode, and one unknown of each. *)
EXTENDS PipelineEngine

AllAppTypes == {"java", "vue", "python"}
AllModes == {"", "deploy", "deploy_with_approval", "artifact_deploy", "manual",
             "upload_only", "upload_and_deploy", "other"}
=============================================================================
